---- MODULE Spec2Model ----
(***************************************************************************)
(* Model of wiki_dump_extractor.                                           *)
(*                                                                         *)
(* Part 1: date_utils.extract_dates.  A text is the sequence of the code   *)
(* points of its characters.  Every compiled pattern of date_utils.py is   *)
(* written as a regular-expression syntax tree and matched by a            *)
(* backtracking matcher with the semantics of Python's re module (leftmost *)
(* match, greedy quantifiers, ordered alternation, IGNORECASE), so that    *)
(* pattern.finditer(text) is computed and not assumed.                     *)
(***************************************************************************)
EXTENDS Integers, Sequences, FiniteSets, TLC

(***************************************************************************)
(* Bounds of the model.                                                    *)
(***************************************************************************)
\* The input text of extract_dates is the concatenation of at most MaxFrags
\* fragments of Fragments.
MaxFrags == 2

\* The number of calls of extract_dates that run at the same time.
NumCalls == 2

\* A dump has at most MaxPages pages; page_limit is None or at most MaxLimit;
\* batch_size is at most MaxBatch.
MaxPages == 6
MaxLimit == 3
MaxBatch == 2

\* A page text given to the infobox functions is the concatenation of at
\* most MaxInfoFrags fragments of InfoFragments.
MaxInfoFrags == 3

\* The batches given to a pool are those of a dump of at most MaxPoolPages
\* pages; a pool has at most MaxWorkers workers.
MaxPoolPages == 6
MaxWorkers == 2

\* from_page_section_texts is given at most MaxSections section texts.
MaxSections == 4

\* An Avro file has at most MaxBlocks blocks of at most MaxRecords records;
\* iter_pages_by_title is given at most MaxTitles titles.
MaxBlocks == 2
MaxRecords == 2
MaxTitles == 2

(***************************************************************************)
(* Characters.  A character is its code point, ord(c), a number of         *)
(* 0..1114111; a str is the sequence of its characters.  The character     *)
(* classes are those of Python 3.11 (Unicode 14.0.0), as the interpreter   *)
(* answers for every code point.                                           *)
(***************************************************************************)
\* The characters of ASCII that a string of this language can hold, from
\* " " (32) to "_" (95) and from "a" (97) to "~" (126).
Ascii32 ==
  " !\"#$%&'()*+,-./0123456789:;<=>?@ABCDEFGHIJKLMNOPQRSTUVWXYZ[\\]^_"
Ascii97 == "abcdefghijklmnopqrstuvwxyz{|}~"

\* ord(c) of a character written as a string.
Ord ==
  [c \in {"\t", "\n", "\f", "\r"}
           \cup { SubSeq(Ascii32, i, i) : i \in 1..Len(Ascii32) }
           \cup { SubSeq(Ascii97, i, i) : i \in 1..Len(Ascii97) } |->
     CASE c = "\t" -> 9
       [] c = "\n" -> 10
       [] c = "\f" -> 12
       [] c = "\r" -> 13
       [] \E i \in 1..Len(Ascii32) : SubSeq(Ascii32, i, i) = c ->
            31 + CHOOSE i \in 1..Len(Ascii32) : SubSeq(Ascii32, i, i) = c
       [] OTHER ->
            96 + CHOOSE i \in 1..Len(Ascii97) : SubSeq(Ascii97, i, i) = c]

\* The str written as the string s, and the set of its characters.
Str(s) == [i \in 1..Len(s) |-> Ord[SubSeq(s, i, i)]]
Chars(s) == { Ord[SubSeq(s, i, i)] : i \in 1..Len(s) }

\* c is in one of the ranges <<first, last>> of R.
InRanges(c, R) == \E r \in R : r[1] <= c /\ c <= r[2]

\* [a-z], [A-Z] and [0-9] of a pattern.
LowerLetters == 97..122
UpperLetters == 65..90
AsciiDigits == 48..57

\* The tables below have an entry for each character below 131072
\* (U+20000); the characters from there on are no digits and have no case.
\* The letters that stand for the numbers 0 to 9 in the tables below.
DigitValue ==
  [a |-> 0, b |-> 1, c |-> 2, d |-> 3, e |-> 4, f |-> 5, g |-> 6, h |-> 7,
   i |-> 8, j |-> 9]

\* One letter for each character of the table, the letter of character c at
\* position c + 1: "a" to "j" for a decimal digit (str.isdecimal) of the
\* value 0 to 9, "w" for another character with c.isalnum() or for "_",
\* "." for every other character.
Category ==
  "................................................abcdefghij.......wwwwwwwwwwwwwwwwwwwwwwwwww....w.wwwwwwwwwwwwwwwwwwwwwwwwww...............................................w.......ww.w...ww.www.wwwwwwwwwwwwwwwwwwwwwww.wwwwwwwwwwwwwwwwwwwwwwwwwwwwwww.wwwwwwwwwwwwwwwwwwwwwwwwwwwwwwwwwwwwwwwwwwwwwwwwwwwwwwwwwwwwwwwwwwwwwwwwwwwwwwwwwwwwwwwwwwwwwwwwwwwwwwwwwwwwwwwwwwwwwwwwwwwwwwwwwwwwwwwwwwwwwwwwwwwwwwwwwwwwwwwwwwwwwwwwwwwwwwwwwwwwwwwwwwwwwwwwwwwwwwwwwwwwwwwwwwwwwwwwwwwwwwwwwwwwwwwwwwwwwwwwwwwwwwwwwwwwwwwwwwwwwwwwwwwwwwwwwwwwwwwwwwwwwwwwwwwwwwwwwwwwwwwwwwwwwwwwwwwwwwwwwwwwwwwwwwwwwwwwwwwwwwwwwwwwwwwwwwwwwwwwwwwwwwwwwwwwwwwwwwwwwwwwwwwwwwwwwwwwwwwwwwwwwwwwwwwwwwwwwwwwwwwwwwwwwwwwwwwwwwwwwwwwwwwwwwwwwwwwww....wwwwwwwwwwww..............wwwww.......w.w.................................................................................................................................wwwww.ww..wwww.w......w.www.w.wwwwwwwwwwwwwwwwwwww.wwwwwwwwwwwwwwwwwwwwwwwwwwwwwwwwwwwwwwwwwwwwwwwwwwwwwwwwwwwwwwwwwwwwwwwwwwwwwwwwwww.wwwwwwwwwwwwwwwwwwwwwwwwwwwwwwwwwwwwwwwwwwwwwwwwwwwwwwwwwwwwwwwwwwwwwwwwwwwwwwwwwwwwwwwwwwwwwwwwwwwwwwwwwwwwwwwwwwwwwwwwwwwwwwwwwwwwwwwwwww........wwwwwwwwwwwwwwwwwwwwwwwwwwwwwwwwwwwwwwwwwwwwwwwwwwwwwwwwwwwwwwwwwwwwwwwwwwwwwwwwwwwwwwwwwwwwwwwwwwwwwwwwwwwwwwwwwwwwwwwwwwwwwwwwwwwwwwwwwwwwwwwwwwwwwwwwwwwwwwwwwwwwww.wwwwwwwwwwwwwwwwwwwwwwwwwwwwwwwwwwwwww..w......wwwwwwwwwwwwwwwwwwwwwwwwwwwwwwwwwwwwwwwww.......................................................................wwwwwwwwwwwwwwwwwwwwwwwwwww....wwww.............................................wwwwwwwwwwwwwwwwwwwwwwwwwwwwwwwwwwwwwwwwwww.....................abcdefghij....ww.wwwwwwwwwwwwwwwwwwwwwwwwwwwwwwwwwwwwwwwwwwwwwwwwwwwwwwwwwwwwwwwwwwwwwwwwwwwwwwwwwwwwwwwwwwwwwwwwwww.w...............ww.......wwabcdefghijwww..w................w.wwwwwwwwwwwwwwwwwwwwwwwwwwwwww.............................wwwwwwwwwwwwwwwwwwwwwwwwwwwwwwwwwwwwwwwwwwwwwwwwwwwwwwwwwwwwwwwwwwwwwwwwwwwwwwwwwwwwwwwww...........w..............abcdefghijwwwwwwwwwwwwwwwwwwwwwwwwwwwwwwwww.........ww....w.....wwwwwwwwwwwwwwwwwwwwww....w.........w...w.......................wwwwwwwwwwwwwwwwwwwwwwwww.......wwwwwwwwwww.....wwwwwwwwwwwwwwwwwwwwwwww.wwwwww.................wwwwwwwwwwwwwwwwwwwwwwwwwwwwwwwwwwwwwwwwww..........................................................wwwwwwwwwwwwwwwwwwwwwwwwwwwwwwwwwwwwwwwwwwwwwwwwwwwwww...w..................w.......wwwwwwwwww....abcdefghij.wwwwwwwwwwwwwwww....wwwwwwww..ww..wwwwwwwwwwwwwwwwwwwwww.wwwwwww.w...wwww...w................w.............ww.www....abcdefghijww..wwwwww..w........wwwwww....ww..wwwwwwwwwwwwwwwwwwwwww.wwwwwww.ww.ww.ww...............................wwww.w.......abcdefghij..www................wwwwwwwww.www.wwwwwwwwwwwwwwwwwwwwww.wwwwwww.ww.wwwww...w..................w...............ww....abcdefghij.........w...........wwwwwwww..ww..wwwwwwwwwwwwwwwwwwwwww.wwwwwww.ww.wwwww...w..............................ww.www....abcdefghij.wwwwwww...........w.wwwwww...www.wwww...ww.w.ww...ww...www...wwwwwwwwwwww......................w.....................abcdefghijwww..................wwwwwwww.www.wwwwwwwwwwwwwwwwwwwwwww.wwwwwwwwwwwwwwww...w..........................www..w..ww....abcdefghij........wwwwwww.w....wwwwwwww.www.wwwwwwwwwwwwwwwwwwwwwww.wwwwwwwwww.wwwww...w...............................ww.ww....abcdefghij.ww.................wwwwwwwww.www.wwwwwwwwwwwwwwwwwwwwwwwwwwwwwwwwwwwwwwwww..w................w.....www.wwwwwwwwww....abcdefghijwwwwwwwww.wwwwww.....wwwwwwwwwwwwwwwwww...wwwwwwwwwwwwwwwwwwwwwwww.wwwwwwwww.w..wwwwwww...............................abcdefghij.................wwwwwwwwwwwwwwwwwwwwwwwwwwwwwwwwwwwwwwwwwwwwwwww.ww............wwwwwww.........abcdefghij.......................................ww.w.wwwww.wwwwwwwwwwwwwwwwwwwwwwww.w.wwwwwwwwww.ww.........w..wwwww.w.........abcdefghij..wwww................................w...............................abcdefghijwwwwwwwwww............wwwwwwww.wwwwwwwwwwwwwwwwwwwwwwwwwwwwwwwwwwww...........................wwwww...................................................................................................................wwwwwwwwwwwwwwwwwwwwwwwwwwwwwwwwwwwwwwwwwww....................wabcdefghij......wwwwww....wwww...w...ww.......www....wwwwwwwwwwwww............w.abcdefghij......wwwwwwwwwwwwwwwwwwwwwwwwwwwwwwwwwwwwww.w.....w..wwwwwwwwwwwwwwwwwwwwwwwwwwwwwwwwwwwwwwwwwww.wwwwwwwwwwwwwwwwwwwwwwwwwwwwwwwwwwwwwwwwwwwwwwwwwwwwwwwwwwwwwwwwwwwwwwwwwwwwwwwwwwwwwwwwwwwwwwwwwwwwwwwwwwwwwwwwwwwwwwwwwwwwwwwwwwwwwwwwwwwwwwwwwwwwwwwwwwwwwwwwwwwwwwwwwwwwwwwwwwwwwwwwwwwwwwwwwwwwwwwwwwwwwwwwwwwwwwwwwwwwwwwwwwwwwwwwwwwwwwwwwwwwwwwwwwwwwwwwwwwwwwwwwwwwwwwwwwwwwwwwwwwwwwwwwwwwwwwwwwwwwwwwwwwwwwwwwwwwwwwwwwwwwwwwwwwww.wwww..wwwwwww.w.wwww..wwwwwwwwwwwwwwwwwwwwwwwwwwwwwwwwwwwwwwwww.wwww..wwwwwwwwwwwwwwwwwwwwwwwwwwwwwwwww.wwww..wwwwwww.w.wwww..wwwwwwwwwwwwwww.wwwwwwwwwwwwwwwwwwwwwwwwwwwwwwwwwwwwwwwwwwwwwwwwwwwwwwwww.wwww..wwwwwwwwwwwwwwwwwwwwwwwwwwwwwwwwwwwwwwwwwwwwwwwwwwwwwwwwwwwwwwwwwww..............wwwwwwwwwwwwwwwwwwww...wwwwwwwwwwwwwwww................wwwwwwwwwwwwwwwwwwwwwwwwwwwwwwwwwwwwwwwwwwwwwwwwwwwwwwwwwwwwwwwwwwwwwwwwwwwwwwwwwwwwww..wwwwww...wwwwwwwwwwwwwwwwwwwwwwwwwwwwwwwwwwwwwwwwwwwwwwwwwwwwwwwwwwwwwwwwwwwwwwwwwwwwwwwwwwwwwwwwwwwwwwwwwwwwwwwwwwwwwwwwwwwwwwwwwwwwwwwwwwwwwwwwwwwwwwwwwwwwwwwwwwwwwwwwwwwwwwwwwwwwwwwwwwwwwwwwwwwwwwwwwwwwwwwwwwwwwwwwwwwwwwwwwwwwwwwwwwwwwwwwwwwwwwwwwwwwwwwwwwwwwwwwwwwwwwwwwwwwwwwwwwwwwwwwwwwwwwwwwwwwwwwwwwwwwwwwwwwwwwwwwwwwwwwwwwwwwwwwwwwwwwwwwwwwwwwwwwwwwwwwwwwwwwwwwwwwwwwwwwwwwwwwwwwwwwwwwwwwwwwwwwwwwwwwwwwwwwwwwwwwwwwwwwwwwwwwwwwwwwwwwwwwwwwwwwwwwwwwwwwwwwwwwwwwwwwwwwwwwwwwwwwwwwwwwwwwwwwwwwwwwwwwwwwwwwwwwwwwwwwwwwwwwwwwwwwwwwwwwwwwwwwwwwwwwwwwwwwwwwwwwwwwwwwwwwwwwwwwwwwwwwwwwwwwwwwwwwwwwwwwwwwwwwwwwwwwwwwwwwwwwwwwwwww..wwwwwwwwwwwwwwwww.wwwwwwwwwwwwwwwwwwwwwwwwww.....wwwwwwwwwwwwwwwwwwwwwwwwwwwwwwwwwwwwwwwwwwwwwwwwwwwwwwwwwwwwwwwwwwwwwwwwwww...wwwwwwwwwww.......wwwwwwwwwwwwwwwwww.............wwwwwwwwwwwwwwwwwww..............wwwwwwwwwwwwwwwwww..............wwwwwwwwwwwww.www...............wwwwwwwwwwwwwwwwwwwwwwwwwwwwwwwwwwwwwwwwwwwwwwwwwwww...................................w....w...abcdefghij......wwwwwwwwww......................abcdefghij......wwwwwwwwwwwwwwwwwwwwwwwwwwwwwwwwwwwwwwwwwwwwwwwwwwwwwwwwwwwwwwwwwwwwwwwwwwwwwwwwwwwwwwwww.......wwwww..wwwwwwwwwwwwwwwwwwwwwwwwwwwwwwwwww.w.....wwwwwwwwwwwwwwwwwwwwwwwwwwwwwwwwwwwwwwwwwwwwwwwwwwwwwwwwwwwwwwwwwwwwww..........wwwwwwwwwwwwwwwwwwwwwwwwwwwwwww.......................................abcdefghijwwwwwwwwwwwwwwwwwwwwwwwwwwwwww..wwwww...........wwwwwwwwwwwwwwwwwwwwwwwwwwwwwwwwwwwwwwwwwwww....wwwwwwwwwwwwwwwwwwwwwwwwww......abcdefghijw.....................................wwwwwwwwwwwwwwwwwwwwwww.........wwwwwwwwwwwwwwwwwwwwwwwwwwwwwwwwwwwwwwwwwwwwwwwwwwwww...........................................abcdefghij......abcdefghij.............w.............................................................................................wwwwwwwwwwwwwwwwwwwwwwwwwwwwwwwwwwwwwwwwwwwwwww.................wwwwwwww...abcdefghij.........................................wwwwwwwwwwwwwwwwwwwwwwwwwwwwww.............wwabcdefghijwwwwwwwwwwwwwwwwwwwwwwwwwwwwwwwwwwwwwwwwwwww..........................wwwwwwwwwwwwwwwwwwwwwwwwwwwwwwwwwwww............................abcdefghij...wwwabcdefghijwwwwwwwwwwwwwwwwwwwwwwwwwwwwwwwwwwww..wwwwwwwww.......wwwwwwwwwwwwwwwwwwwwwwwwwwwwwwwwwwwwwwwwwww..www.........................................wwww.wwwwww.ww...w.....wwwwwwwwwwwwwwwwwwwwwwwwwwwwwwwwwwwwwwwwwwwwwwwwwwwwwwwwwwwwwwwwwwwwwwwwwwwwwwwwwwwwwwwwwwwwwwwwwwwwwwwwwwwwwwwwwwwwwwwwwwwwwwwwwwwwwwwwwwwwwwwwwwwwwwwwwwwwwwwwwwwwwwwwwwwwwwwwwwwwwwwwwwwwwwww................................................................wwwwwwwwwwwwwwwwwwwwwwwwwwwwwwwwwwwwwwwwwwwwwwwwwwwwwwwwwwwwwwwwwwwwwwwwwwwwwwwwwwwwwwwwwwwwwwwwwwwwwwwwwwwwwwwwwwwwwwwwwwwwwwwwwwwwwwwwwwwwwwwwwwwwwwwwwwwwwwwwwwwwwwwwwwwwwwwwwwwwwwwwwwwwwwwwwwwwwwwwwwwwwwwwwwwwwwwwwwwwwwwwwwwwwwwwwwwwwwwwwwwwwwwwwwwwwwwwwwwwwwwwwwwwwwwwwwwwww..wwwwww..wwwwwwwwwwwwwwwwwwwwwwwwwwwwwwwwwwwwww..wwwwww..wwwwwwww.w.w.w.wwwwwwwwwwwwwwwwwwwwwwwwwwwwwww..wwwwwwwwwwwwwwwwwwwwwwwwwwwwwwwwwwwwwwwwwwwwwwwwwwwww.wwwwwww.w...www.wwwwwww...wwww..wwwwww....wwwwwwwwwwwww.....www.wwwwwww...................................................................................................................ww..wwwwww.....wwwwwwwwwww......wwwwwwwwwwwww.....................................................................................................w....w..wwwwwwwwww.w...wwwww......w.w.w.wwww.wwwwwwwwwww..wwww.....wwwww....w.wwwwwwwwwwwwwwwwwwwwwwwwwwwwwwwwwwwwwwwwwwwwwwwwwwwwwwwwww......................................................................................................................................................................................................................................................................................................................................................................................................................................................................................................................................................................................................................................................................................................................................................wwwwwwwwwwwwwwwwwwwwwwwwwwwwwwwwwwwwwwwwwwwwwwwwwwwwwwwwwwww..............................................................................wwwwwwwwwwwwwwwwwwwwww......................................................................................................................................................................................................................................................................................................................................................................................................................................................................................................................................................................................................................................................wwwwwwwwwwwwwwwwwwwwwwwwwwwwww............................................................................................................................................................................................................................................................................................................................................................................................................................................................................................................................................................................................................................................................................................................................................................................................................................................................................................................................................................................................................................................................................................................................................................................wwwwwwwwwwwwwwwwwwwwwwwwwwwwwwwwwwwwwwwwwwwwwwwwwwwwwwwwwwwwwwwwwwwwwwwwwwwwwwwwwwwwwwwwwwwwwwwwwwwwwwwwwwwwwwwwwwwwwwwwwwwwwwwwwwwwwwwwwwwwwwwwwwwwwwwwwwwwwwwwwwwwwwwwwwwwwwwwwwwwwwwwwwwwwwwwwwwwwwwwwwwwwwwwwwwwwwwwwwwwwwwwwwwww......wwww...ww.........w..wwwwwwwwwwwwwwwwwwwwwwwwwwwwwwwwwwwwww.w.....w..wwwwwwwwwwwwwwwwwwwwwwwwwwwwwwwwwwwwwwwwwwwwwwwwwwwwwwww.......w................wwwwwwwwwwwwwwwwwwwwwww.........wwwwwww.wwwwwww.wwwwwww.wwwwwww.wwwwwww.wwwwwww.wwwwwww.wwwwwww................................................................................w.....................................................................................................................................................................................................................................................................................................................................................................................................................................................................................www.........................wwwwwwwww.......wwwww..wwwww....wwwwwwwwwwwwwwwwwwwwwwwwwwwwwwwwwwwwwwwwwwwwwwwwwwwwwwwwwwwwwwwwwwwwwwwwwwwwwwwwwwwwww......www.wwwwwwwwwwwwwwwwwwwwwwwwwwwwwwwwwwwwwwwwwwwwwwwwwwwwwwwwwwwwwwwwwwwwwwwwwwwwwwwwwwwwwwwwww.wwww.....wwwwwwwwwwwwwwwwwwwwwwwwwwwwwwwwwwwwwwwwwww.wwwwwwwwwwwwwwwwwwwwwwwwwwwwwwwwwwwwwwwwwwwwwwwwwwwwwwwwwwwwwwwwwwwwwwwwwwwwwwwwwwwwwwwwwwwwww...wwww..........wwwwwwwwwwwwwwwwwwwwwwwwwwwwwwww................................................wwwwwwwwwwwwwwww................................wwwwwwwwww..............................wwwwwwww.wwwwwwwwwwwwwww................................wwwwwwwwww.......................................wwwwwwwwwwwwwww................................................................................................................................................................................................................................................................................................................................wwwwwwwwwwwwwwwwwwwwwwwwwwwwwwwwwwwwwwwwwwwwwwwwwwwwwwwwwwwwwwwwwwwwwwwwwwwwwwwwwwwwwwwwwwwwwwwwwwwwwwwwwwwwwwwwwwwwwwwwwwwwwwwwwwwwwwwwwwwwwwwwwwwwwwwwwwwwwwwwwwwwwwwwwwwwwwwwwwwwwwwwwwwwwwwwwwwwwwwwwwwwwwwwwwwwwwwwwwwwwwwwwwwwwwwwwwwwwwwwwwwwwwwwwwwwwwwwwwwwwwwwwwwwwwwwwwwwwwwwwwwwwwwwwwwwwwwwwwwwwwwwwwwwwwwwwwwwwwwwwwwwwwwwwwwwwwwwwwwwwwwwwwwwwwwwwwwwwwwwwwwwwwwwwwwwwwwwwwwwwwwwwwwwwwwwwwwwwwwwwwwwwwwwwwwwwwwwwwwwwwwwwwwwwwwwwwwwwwwwwwwwwwwwwwwwwwwwwwwwwwwwwwwwwwwwwwwwwwwwwwwwwwwwwwwwwwwwwwwwwwwwwwwwwwwwwwwwwwwwwwwwwwwwwwwwwwwwwwwwwwwwwwwwwwwwwwwwwwwwwwwwwwwwwwwwwwwwwwwwwwwwwwwwwwwwwwwwwwwwwwwwwwwwwwwwwwwwwwwwwwwwwwwwwwwwwwwwwwwwwwwwwwwwwwwwwwwwwwwwwwwwwwwwwwwwwwwwwwwwwwwwwwwwwwwwwwwwwwwwwwwwwwwwwwwwwwwwwwwwwwwwwwwwwwwwwwwwwwwwwwwwwwwwwwwwwwwwwwwwwwwwwwwwwwwwwwwwwwwwwwwwwwwwwwwwwwwwwwwwwwwwwwwwwwwwwwwwwwwwwwwwwwwwwwwwwwwwwwwwwwwwwwwwwwwwwwwwwwwwwwwwwwwwwwwwwwwwwwwwwwwwwwwwwwwwwwwwwwwwwwwwwwwwwwwwwwwwwwwwwwwwwwwwwwwwwwwwwwwwwwwwwwwwwwwwwwwwwwwwwwwwwwwwwwwwwwwwwwwwwwwwwwwwwwwwwwwwwwwwwwwwwwwwwwwwwwwwwwwwwwwwwwwwwwwwwwwwwwwwwwwwwwwwwwwwwwwwwwwwwwwwwwwwwwwwwwwwwwwwwwwwwwwwwwwwwwwwwwwwwwwwwwwwwwwwwwwwwwwwwwwwwwwwwwwwwwwwwwwwwwwwwwwwwwwwwwwwwwwwwwwwwwwwwwwwwwwwwwwwwwwwwwwwwwwwwwwwwwwwwwwwwwwwwwwwwwwwwwwwwwwwwwwwwwwwwwwwwwwwwwwwwwwwwwwwwwwwwwwwwwwwwwwwwwwwwwwwwwwwwwwwwwwwwwwwwwwwwwwwwwwwwwwwwwwwwwwwwwwwwwwwwwwwwwwwwwwwwwwwwwwwwwwwwwwwwwwwwwwwwwwwwwwwwwwwwwwwwwwwwwwwwwwwwwwwwwwwwwwwwwwwwwwwwwwwwwwwwwwwwwwwwwwwwwwwwwwwwwwwwwwwwwwwwwwwwwwwwwwwwwwwwwwwwwwwwwwwwwwwwwwwwwwwwwwwwwwwwwwwwwwwwwwwwwwwwwwwwwwwwwwwwwwwwwwwwwwwwwwwwwwwwwwwwwwwwwwwwwwwwwwwwwwwwwwwwwwwwwwwwwwwwwwwwwwwwwwwwwwwwwwwwwwwwwwwwwwwwwwwwwwwwwwwwwwwwwwwwwwwwwwwwwwwwwwwwwwwwwwwwwwwwwwwwwwwwwwwwwwwwwwwwwwwwwwwwwwwwwwwwwwwwwwwwwwwwwwwwwwwwwwwwwwwwwwwwwwwwwwwwwwwwwwwwwwwwwwwwwwwwwwwwwwwwwwwwwwwwwwwwwwwwwwwwwwwwwwwwwwwwwwwwwwwwwwwwwwwwwwwwwwwwwwwwwwwwwwwwwwwwwwwwwwwwwwwwwwwwwwwwwwwwwwwwwwwwwwwwwwwwwwwwwwwwwwwwwwwwwwwwwwwwwwwwwwwwwwwwwwwwwwwwwwwwwwwwwwwwwwwwwwwwwwwwwwwwwwwwwwwwwwwwwwwwwwwwwwwwwwwwwwwwwwwwwwwwwwwwwwwwwwwwwwwwwwwwwwwwwwwwwwwwwwwwwwwwwwwwwwwwwwwwwwwwwwwwwwwwwwwwwwwwwwwwwwwwwwwwwwwwwwwwwwwwwwwwwwwwwwwwwwwwwwwwwwwwwwwwwwwwwwwwwwwwwwwwwwwwwwwwwwwwwwwwwwwwwwwwwwwwwwwwwwwwwwwwwwwwwwwwwwwwwwwwwwwwwwwwwwwwwwwwwwwwwwwwwwwwwwwwwwwwwwwwwwwwwwwwwwwwwwwwwwwwwwwwwwwwwwwwwwwwwwwwwwwwwwwwwwwwwwwwwwwwwwwwwwwwwwwwwwwwwwwwwwwwwwwwwwwwwwwwwwwwwwwwwwwwwwwwwwwwwwwwwwwwwwwwwwwwwwwwwwwwwwwwwwwwwwwwwwwwwwwwwwwwwwwwwwwwwwwwwwwwwwwwwwwwwwwwwwwwwwwwwwwwwwwwwwwwwwwwwwwwwwwwwwwwwwwwwwwwwwwwwwwwwwwwwwwwwwwwwwwwwwwwwwwwwwwwwwwwwwwwwwwwwwwwwwwwwwwwwwwwwwwwwwwwwwwwwwwwwwwwwwwwwwwwwwwwwwwwwwwwwwwwwwwwwwwwwwwwwwwwwwwwwwwwwwwwwwwwwwwwwwwwwwwwwwwwwwwwwwwwwwwwwwwwwwwwwwwwwwwwwwwwwwwwwwwwwwwwwwwwwwwwwwwwwwwwwwwwwwwwwwwwwwwwwwwwwwwwwwwwwwwwwwwwwwwwwwwwwwwwwwwwwwwwwwwwwwwwwwwwwwwwwwwwwwwwwwwwwwwwwwwwwwwwwwwwwwwwwwwwwwwwwwwwwwwwwwwwwwwwwwwwwwwwwwwwwwwwwwwwwwwwwwwwwwwwwwwwwwwwwwwwwwwwwwwwwwwwwwwwwwwwwwwwwwwwwwwwwwwwwwwwwwwwwwwwwwwwwwwwwwwwwwwwwwwwwwwwwwwwwwwwwwwwwwwwwwwwwwwwwwwwwwwwwwwwwwwwwwwwwwwwwwwwwwwwwwwwwwwwwwwwwwwwwwwwwwwwwwwwwwwwwwwwwwwwwwwwwwwwwwwwwwwwwwwwwwwwwwwwwwwwwwwwwwwwwwwwwwwwwwwwwwwwwwwwwwwwwwwwwwwwwwwwwwwwwwwwwwwwwwwwwwwwwwwwwwwwwwwwwwwwwwwwwwwwwwwwwwwwwwwwwwwwwwwwwwwwwwwwwwwwwwwwwwwwwwwwwwwwwwwwwwwwwwwwwwwwwwwwwwwwwwwwwwwwwwwwwwwwwwwwwwwwwwwwwwwwwwwwwwwwwwwwwwwwwwwwwwwwwwwwwwwwwwwwwwwwwwwwwwwwwwwwwwwwwwwwwwwwwwwwwwwwwwwwwwwwwwwwwwwwwwwwwwwwwwwwwwwwwwwwwwwwwwwwwwwwwwwwwwwwwwwwwwwwwwwwwwwwwwwwwwwwwwwwwwwwwwwwwwwwwwwwwwwwwwwwwwwwwwwwwwwwwwwwwwwwwwwwwwwwwwwwwwwwwwwwwwwwwwwwwwwwwwwwwwwwwwwwwwwwwwwwwwwwwwwwwwwwwwwwwwwwwwwwwwwwwwwwwwwwwwwwwwwwwwwwwwwwwwwwwwwwwwwwwwwwwwwwwwwwwwwwwwwwwwwwwwwwwwwwwwwwwwwwwwwwwwwwwwwwwwwwwwwwwwwwwwwwwwwwwwwwwwwwwwwwwwwwwwwwwwwwwwwwwwwwwwwwwwwwwwwwwwwwwwwwwwwwwwwwwwwwwwwwwwwwwwwwwwwwwwwwwwwwwwwwwwwwwwwwwwwwwwwwwwwwwwwwwwwwwwwwwwwwwwwwwwwwwwwwwwwwwwwwwwwwwwwwwwwwwwwwwwwwwwwwwwwwwwwwwwwwwwwwwwwwwwwwwwwwwwwwwwwwwwwwwwwwwwwwwwwwwwwwwwwwwwwwwwwwwwwwwwwwwwwwwwwwwwwwwwwwwwwwwwwwwwwwwwwwwwwwwwwwwwwwwwwwwwwwwwwwwwwwwwwwwwwwwwwwwwwwwwwwwwwwwwwwwwwwwwwwwwwwwwwwwwwwwwwwwwwwwwwwwwwwwwwwwwwwwwwwwwwwwwwwwwwwwwwwwwwwwwwwwwwwwwwwwwwwwwwwwwwwwwwwwwwwwwwwwwwwwwwwwwwwwwwwwwwwwwwwwwwwwwwwwwwwwwwwwwwwwwwwwwwwwwwwwwwwwwwwwwwwwwwwwwwwwwwwwwwwwwwwwwwwwwwwwwwwwwwwwwwwwwwwwwwwwwwwwwwwwwwwwwwwwwwwwwwwwwwwwwwwwwwwwwwwwwwwwwwwwwwwwwwwwwwwwwwwwwwwwwwwwwwwwwwwwwwwwwwwwwwwwwwwwwwwwwwwwwwwwwwwwwwwwwwwwwwwwwwwwwwwwwwwwwwwwwwwwwwwwwwwwwwwwwwwwwwwwwwwwwwwwwwwwwwwwwwwwwwwwwwwwwwwwwwwwwwwwwwwwwwwwwwwwwwwwwwwwwwwwwwwwwwwwwwwwwwwwwwwwwwwwwwwwwwwwwwwwwwwwwwwwwwwwwwwwwwwwwwwwwwwwwwwwwwwwwwwwwwwwwwwwwwwwwwwwwwwwwwwwwwwwwwwwwwwwwwwwwwwwwwwwwwwwwwwwwwwwwwwwwwwwwwwwwwwwwwwwwwwwwwwwwwwwwwwwwwwwwwwwwwwwwwwwwwwwwwwwwwwwwwwwwwwwwwwwwwwwwwwwwwwwwwwwwwwwwwwwwwwwwwwwwwwwwwwwwwwwwwwwwwwwwwwwwwwwwwwwwwwwwwwwwwwwwwwwwwwwwwwwwwwwwwwwwwwwwwwwwwwwwwwwwwwwwwwwwwwwwwwwwwwwwwwwwwwwwwwwwwwwwwwwwwwwwwwwwwwwwwwwwwwwwwwwwwwwwwwwwwwwwwwwwwwwwwwwwwwwwwwwwwwwwwwwwwwwwwwwwwwwwwwwwwwwwwwwwwwwwwwwwwwwwwwwwwwwwwwwwwwwwwwwwwwwwwwwwwwwwwwwwwwwwwwwwwwwwwwwwwwwwwwwwwwwwwwwwwwwwwwwwwwwwwwwwwwwwwwwwwwwwwwwwwwwwwwwwwwwwwwwwwwwwwwwwwwwwwwwwwwwwwwwwwwwwwwwwwwwwwwwwwwwwwwwwwwwwwwwwwwwwwwwwwwwwwwwwwwwwwwwwwwwwwwwwwwwwwwwwwwwwwwwwwwwwwwwwwwwwwwwwwwwwwwwwwwwwwwwwwwwwwwwwwwwwwwwwwwwwwwwwwwwwwwwwwwwwwwwwwwwwwwwwwwwwwwwwwwwwwwwwwwwwwwwwwwwwwwwwwwwwwwwwwwwwwwwwwwwwwwwwwwwwwwwwwwwwwwwwwwwwwwwwwwwwwwwwwwwwwwwwwwwwwwwwwwwwwwwwwwwwwwwwwwwwwwwwwwwwwwwwwwwwwwwwwwwwwwwwwwwwwwwwwwwwwwwwwwwwwwwwwwwwwwwwwwwwwwwwwwwwwwwwwwwwwwwwwwwwwwwwwwwwwwwwwwwwwwwwwwwwwwwwwwwwwwwwwwwwwwwwwwwwwwwwwwwwwwwwwwwwwwwwwwwwwwwwwwwwwwwwwwwwwwwwwwwwwwwwwwwwwwwwwwwwwwwwwwwwwwwwwwwwwwwwwwwwwwwwwwwwwwwwwwwwwwwwwwwwwwwwwwwwwwwwwwwwwwwwwwwwwwwwwwwwwwwwwwwwwwwwwwwwwwwwwwwwwwwwwwwwwwwwwwwwwwwwwwwwwwwwwwwwwwwwwwwwwwwwwwwwwwwwwwwwwwwwwwwwwwwwwwwwwwwwwwwwwwwwwwwwwwwwwwwwwwwwwwwwwwwwwwwwwwwwwwwwwwwwwwwwwwwwwwwwwwwwwwwwwwwwwwwwwwwwwwwwwwwwwwwwwwwwwwwwwwwwwwwwwwwwwwwwwwwwwwwwwwwwwwwwwwwwwwwwwwwwwwwwwwwwwwwwwwwwwwwwwwwwwwwwwwwwwwwwwwwwwwwwwwwwwwwwwwwwwwwwwwwwwwwwwwwwwwwwwwwwwwwwwwwwwwwwwwwwwwwwwwwwwwwwwwwwwwwwwwwwwwwwwwwwwwwwwwwwwwwwwwwwwwwwwwwwwwwwwwwwwwwwwwwwwwwwwwwwwwwwwwwwwwwwwwwwwwwwwwwwwwwwwwwwwwwwwwwwwwwwwwwwwwwwwwwwwwwwwwwwwwwwwwwwwwwwwwwwwwwwwwwwwwwwwwwwwwwwwwwwwwwwwwwwwwwwwwwwwwwwwwwwwwwwwwwwwwwwwwwwwwwwwwwwwwwwwwwwwwwwwwwwwwwwwwwwwwwwwwwwwwwwwwwwwwwwwwwwwwwwwwwwwwwwwwwwwwwwwwwwwwwwwwwwwwwwwwwwwwwwwwwwwwwwwwwwwwwwwwwwwwwwwwwwwwwwwwwwwwwwwwwwwwwwwwwwwwwwwwwwwwwwwwwwwwwwwwwwwwwwwwwwwwwwwwwwwwwwwwwwwwwwwwwwwwwwwwwwwwwwwwwwwwwwwwwwwwwwwwwwwwwwwwwwwwwwwwwwwwwwwwwwwwwwwwwwwwwwwwwwwwwwwwwwwwwwwwwwwwwwwwwwwwwwwwwwwwwwwwwwwwwwwwwwwwwwwwwwwwwwwwwwwwwwwwwwwwwwwwwwwwwwwwwwwwwwwwwwwwwwwwwwwwwwwwwwwwwwwwwwwwwwwwwwwwwwwwwwwwwwwwwwwwwwwwwwwwwwwwwww................................................................wwwwwwwwwwwwwwwwwwwwwwwwwwwwwwwwwwwwwwwwwwwwwwwwwwwwwwwwwwwwwwwwwwwwwwwwwwwwwwwwwwwwwwwwwwwwwwwwwwwwwwwwwwwwwwwwwwwwwwwwwwwwwwwwwwwwwwwwwwwwwwwwwwwwwwwwwwwwwwwwwwwwwwwwwwwwwwwwwwwwwwwwwwwwwwwwwwwwwwwwwwwwwwwwwwwwwwwwwwwwwwwwwwwwwwwwwwwwwwwwwwwwwwwwwwwwwwwwwwwwwwwwwwwwwwwwwwwwwwwwwwwwwwwwwwwwwwwwwwwwwwwwwwwwwwwwwwwwwwwwwwwwwwwwwwwwwwwwwwwwwwwwwwwwwwwwwwwwwwwwwwwwwwwwwwwwwwwwwwwwwwwwwwwwwwwwwwwwwwwwwwwwwwwwwwwwwwwwwwwwwwwwwwwwwwwwwwwwwwwwwwwwwwwwwwwwwwwwwwwwwwwwwwwwwwwwwwwwwwwwwwwwwwwwwwwwwwwwwwwwwwwwwwwwwwwwwwwwwwwwwwwwwwwwwwwwwwwwwwwwwwwwwwwwwwwwwwwwwwwwwwwwwwwwwwwwwwwwwwwwwwwwwwwwwwwwwwwwwwwwwwwwwwwwwwwwwwwwwwwwwwwwwwwwwwwwwwwwwwwwwwwwwwwwwwwwwwwwwwwwwwwwwwwwwwwwwwwwwwwwwwwwwwwwwwwwwwwwwwwwwwwwwwwwwwwwwwwwwwwwwwwwwwwwwwwwwwwwwwwwwwwwwwwwwwwwwwwwwwwwwwwwwwwwwwwwwwwwwwwwwwwwwwwwwwwwwwwwwwwwwwwwwwwwwwwwwwwwwwwwwwwwwwwwwwwwwwwwwwwwwwwwwwwwwwwwwwwwwwwwwwwwwwwwwwwwwwwwwwwwwwwwwwwwwwwwwwwwwwwwwwwwwwwwwwwwwwwwwwwwwwwwwwwwwwwwwwwwwwwwwwwwwwwwwwwwwwwwwwwwwwwwwwwwwwwwwwwwwwwwwwwwwwwwwwwwwwwwwwwwwwwwwwwwwwwwwwwwwwwwwwwwwwwwwwwwwwwwwwwwwwwwwwwwwwwwwwwwwwwwwwwwwwwwwwwwwwwwwwwwwwwwwwwwwwwwwwwwwwwwwwwwwwwwwwwwwwwwwwwwwwwwwwwwwwwwwwwwwwwwwwwwwwwwwwwwwwwwwwwwwwwwwwwwwwwwwwwwwwwwwwwwwwwwwwwwwwwwwwwwwwwwwwwwwwwwwwwwwwwwwwwwwwwwwwwwwwwwwwwwwwwwwwwwwwwwwwwwwwwwwwwwwwwwwwwwwwwwwwwwwwwwwwwwwwwwwwwwwwwwwwwwwwwwwwwwwwwwwwwwwwwwwwwwwwwwwwwwwwwwwwwwwwwwwwwwwwwwwwwwwwwwwwwwwwwwwwwwwwwwwwwwwwwwwwwwwwwwwwwwwwwwwwwwwwwwwwwwwwwwwwwwwwwwwwwwwwwwwwwwwwwwwwwwwwwwwwwwwwwwwwwwwwwwwwwwwwwwwwwwwwwwwwwwwwwwwwwwwwwwwwwwwwwwwwwwwwwwwwwwwwwwwwwwwwwwwwwwwwwwwwwwwwwwwwwwwwwwwwwwwwwwwwwwwwwwwwwwwwwwwwwwwwwwwwwwwwwwwwwwwwwwwwwwwwwwwwwwwwwwwwwwwwwwwwwwwwwwwwwwwwwwwwwwwwwwwwwwwwwwwwwwwwwwwwwwwwwwwwwwwwwwwwwwwwwwwwwwwwwwwwwwwwwwwwwwwwwwwwwwwwwwwwwwwwwwwwwwwwwwwwwwwwwwwwwwwwwwwwwwwwwwwwwwwwwwwwwwwwwwwwwwwwwwwwwwwwwwwwwwwwwwwwwwwwwwwwwwwwwwwwwwwwwwwwwwwwwwwwwwwwwwwwwwwwwwwwwwwwwwwwwwwwwwwwwwwwwwwwwwwwwwwwwwwwwwwwwwwwwwwwwwwwwwwwwwwwwwwwwwwwwwwwwwwwwwwwwwwwwwwwwwwwwwwwwwwwwwwwwwwwwwwwwwwwwwwwwwwwwwwwwwwwwwwwwwwwwwwwwwwwwwwwwwwwwwwwwwwwwwwwwwwwwwwwwwwwwwwwwwwwwwwwwwwwwwwwwwwwwwwwwwwwwwwwwwwwwwwwwwwwwwwwwwwwwwwwwwwwwwwwwwwwwwwwwwwwwwwwwwwwwwwwwwwwwwwwwwwwwwwwwwwwwwwwwwwwwwwwwwwwwwwwwwwwwwwwwwwwwwwwwwwwwwwwwwwwwwwwwwwwwwwwwwwwwwwwwwwwwwwwwwwwwwwwwwwwwwwwwwwwwwwwwwwwwwwwwwwwwwwwwwwwwwwwwwwwwwwwwwwwwwwwwwwwwwwwwwwwwwwwwwwwwwwwwwwwwwwwwwwwwwwwwwwwwwwwwwwwwwwwwwwwwwwwwwwwwwwwwwwwwwwwwwwwwwwwwwwwwwwwwwwwwwwwwwwwwwwwwwwwwwwwwwwwwwwwwwwwwwwwwwwwwwwwwwwwwwwwwwwwwwwwwwwwwwwwwwwwwwwwwwwwwwwwwwwwwwwwwwwwwwwwwwwwwwwwwwwwwwwwwwwwwwwwwwwwwwwwwwwwwwwwwwwwwwwwwwwwwwwwwwwwwwwwwwwwwwwwwwwwwwwwwwwwwwwwwwwwwwwwwwwwwwwwwwwwwwwwwwwwwwwwwwwwwwwwwwwwwwwwwwwwwwwwwwwwwwwwwwwwwwwwwwwwwwwwwwwwwwwwwwwwwwwwwwwwwwwwwwwwwwwwwwwwwwwwwwwwwwwwwwwwwwwwwwwwwwwwwwwwwwwwwwwwwwwwwwwwwwwwwwwwwwwwwwwwwwwwwwwwwwwwwwwwwwwwwwwwwwwwwwwwwwwwwwwwwwwwwwwwwwwwwwwwwwwwwwwwwwwwwwwwwwwwwwwwwwwwwwwwwwwwwwwwwwwwwwwwwwwwwwwwwwwwwwwwwwwwwwwwwwwwwwwwwwwwwwwwwwwwwwwwwwwwwwwwwwwwwwwwwwwwwwwwwwwwwwwwwwwwwwwwwwwwwwwwwwwwwwwwwwwwwwwwwwwwwwwwwwwwwwwwwwwwwwwwwwwwwwwwwwwwwwwwwwwwwwwwwwwwwwwwwwwwwwwwwwwwwwwwwwwwwwwwwwwwwwwwwwwwwwwwwwwwwwwwwwwwwwwwwwwwwwwwwwwwwwwwwwwwwwwwwwwwwwwwwwwwwwwwwwwwwwwwwwwwwwwwwwwwwwwwwwwwwwwwwwwwwwwwwwwwwwwwwwwwwwwwwwwwwwwwwwwwwwwwwwwwwwwwwwwwwwwwwwwwwwwwwwwwwwwwwwwwwwwwwwwwwwwwwwwwwwwwwwwwwwwwwwwwwwwwwwwwwwwwwwwwwwwwwwwwwwwwwwwwwwwwwwwwwwwwwwwwwwwwwwwwwwwwwwwwwwwwwwwwwwwwwwwwwwwwwwwwwwwwwwwwwwwwwwwwwwwwwwwwwwwwwwwwwwwwwwwwwwwwwwwwwwwwwwwwwwwwwwwwwwwwwwwwwwwwwwwwwwwwwwwwwwwwwwwwwwwwwwwwwwwwwwwwwwwwwwwwwwwwwwwwwwwwwwwwwwwwwwwwwwwwwwwwwwwwwwwwwwwwwwwwwwwwwwwwwwwwwwwwwwwwwwwwwwwwwwwwwwwwwwwwwwwwwwwwwwwwwwwwwwwwwwwwwwwwwwwwwwwwwwwwwwwwwwwwwwwwwwwwwwwwwwwwwwwwwwwwwwwwwwwwwwwwwwwwwwwwwwwwwwwwwwwwwwwwwwwwwwwwwwwwwwwwwwwwwwwwwwwwwwwwwwwwwwwwwwwwwwwwwwwwwwwwwwwwwwwwwwwwwwwwwwwwwwwwwwwwwwwwwwwwwwwwwwwwwwwwwwwwwwwwwwwwwwwwwwwwwwwwwwwwwwwwwwwwwwwwwwwwwwwwwwwwwwwwwwwwwwwwwwwwwwwwwwwwwwwwwwwwwwwwwwwwwwwwwwwwwwwwwwwwwwwwwwwwwwwwwwwwwwwwwwwwwwwwwwwwwwwwwwwwwwwwwwwwwwwwwwwwwwwwwwwwwwwwwwwwwwwwwwwwwwwwwwwwwwwwwwwwwwwwwwwwwwwwwwwwwwwwwwwwwwwwwwwwwwwwwwwwwwwwwwwwwwwwwwwwwwwwwwwwwwwwwwwwwwwwwwwwwwwwwwwwwwwwwwwwwwwwwwwwwwwwwwwwwwwwwwwwwwwwwwwwwwwwwwwwwwwwwwwwwwwwwwwwwwwwwwwwwwwwwwwwwwwwwwwwwwwwwwwwwwwwwwwwwwwwwwwwwwwwwwwwwwwwwwwwwwwwwwwwwwwwwwwwwwwwwwwwwwwwwwwwwwwwwwwwwwwwwwwwwwwwwwwwwwwwwwwwwwwwwwwwwwwwwwwwwwwwwwwwwwwwwwwwwwwwwwwwwwwwwwwwwwwwwwwwwwwwwwwwwwwwwwwwwwwwwwwwwwwwwwwwwwwwwwwwwwwwwwwwwwwwwwwwwwwwwwwwwwwwwwwwwwwwwwwwwwwwwwwwwwwwwwwwwwwwwwwwwwwwwwwwwwwwwwwwwwwwwwwwwwwwwwwwwwwwwwwwwwwwwwwwwwwwwwwwwwwwwwwwwwwwwwwwwwwwwwwwwwwwwwwwwwwwwwwwwwwwwwwwwwwwwwwwwwwwwwwwwwwwwwwwwwwwwwwwwwwwwwwwwwwwwwwwwwwwwwwwwwwwwwwwwwwwwwwwwwwwwwwwwwwwwwwwwwwwwwwwwwwwwwwwwwwwwwwwwwwwwwwwwwwwwwwwwwwwwwwwwwwwwwwwwwwwwwwwwwwwwwwwwwwwwwwwwwwwwwwwwwwwwwwwwwwwwwwwwwwwwwwwwwwwwwwwwwwwwwwwwwwwwwwwwwwwwwwwwwwwwwwwwwwwwwwwwwwwwwwwwwwwwwwwwwwwwwwwwwwwwwwwwwwwwwwwwwwwwwwwwwwwwwwwwwwwwwwwwwwwwwwwwwwwwwwwwwwwwwwwwwwwwwwwwwwwwwwwwwwwwwwwwwwwwwwwwwwwwwwwwwwwwwwwwwwwwwwwwwwwwwwwwwwwwwwwwwwwwwwwwwwwwwwwwwwwwwwwwwwwwwwwwwwwwwwwwwwwwwwwwwwwwwwwwwwwwwwwwwwwwwwwwwwwwwwwwwwwwwwwwwwwwwwwwwwwwwwwwwwwwwwwwwwwwwwwwwwwwwwwwwwwwwwwwwwwwwwwwwwwwwwwwwwwwwwwwwwwwwwwwwwwwwwwwwwwwwwwwwwwwwwwwwwwwwwwwwwwwwwwwwwwwwwwwwwwwwwwwwwwwwwwwwwwwwwwwwwwwwwwwwwwwwwwwwwwwwwwwwwwwwwwwwwwwwwwwwwwwwwwwwwwwwwwwwwwwwwwwwwwwwwwwwwwwwwwwwwwwwwwwwwwwwwwwwwwwwwwwwwwwwwwwwwwwwwwwwwwwwwwwwwwwwwwwwwwwwwwwwwwwwwwwwwwwwwwwwwwwwwwwwwwwwwwwwwwwwwwwwwwwwwwwwwwwwwwwwwwwwwwwwwwwwwwwwwwwwwwwwwwwwwwwwwwwwwwwwwwwwwwwwwwwwwwwwwwwwwwwwwwwwwwwwwwwwwwwwwwwwwwwwwwwwwwwwwwwwwwwwwwwwwwwwwwwwwwwwwwwwwwwwwwwwwwwwwwwwwwwwwwwwwwwwwwwwwwwwwwwwwwwwwwwwwwwwwwwwwwwwwwwwwwwwwwwwwwwwwwwwwwwwwwwwwwwwwwwwwwwwwwwwwwwwwwwwwwwwwwwwwwwwwwwwwwwwwwwwwwwwwwwwwwwwwwwwwwwwwwwwwwwwwwwwwwwwwwwwwwwwwwwwwwwwwwwwwwwwwwwwwwwwwwwwwwwwwwwwwwwwwwwwwwwwwwwwwwwwwwwwwwwwwwwwwwwwwwwwwwwwwwwwwwwwwwwwwwwwwwwwwwwwwwwwwwwwwwwwwwwwwwwwwwwwwwwwwwwwwwwwwwwwwwwwwwwwwwwwwwwwwwwwwwwwwwwwwwwwwwwwwwwwwwwwwwwwwwwwwwwwwwwwwwwwwwwwwwwwwwwwwwwwwwwwwwwwwwwwwwwwwwwwwwwwwwwwwwwwwwwwwwwwwwwwwwwwwwwwwwwwwwwwwwwwwwwwwwwwwwwwwwwwwwwwwwwwwwwwwwwwwwwwwwwwwwwwwwwwwwwwwwwwwwwwwwwwwwwwwwwwwwwwwwwwwwwwwwwwwwwwwwwwwwwwwwwwwwwwwwwwwwwwwwwwwwwwwwwwwwwwwwwwwwwwwwwwwwwwwwwwwwwwwwwwwwwwwwwwwwwwwwwwwwwwwwwwwwwwwwwwwwwwwwwwwwwwwwwwwwwwwwwwwwwwwwwwwwwwwwwwwwwwwwwwwwwwwwwwwwwwwwwwwwwwwwwwwwwwwwwwwwwwwwwwwwwwwwwwwwwwwwwwwwwwwwwwwwwwwwwwwwwwwwwwwwwwwwwwwwwwwwwwwwwwwwwwwwwwwwwwwwwwwwwwwwwwwwwwwwwwwwwwwwwwwwwwwwwwwwwwwwwwwwwwwwwwwwwwwwwwwwwwwwwwwwwwwwwwwwwwwwwwwwwwwwwwwwwwwwwwwwwwwwwwwwwwwwwwwwwwwwwwwwwwwwwwwwwwwwwwwwwwwwwwwwwwwwwwwwwwwwwwwwwwwwwwwwwwwwwwwwwwwwwwwwwwwwwwwwwwwwwwwwwwwwwwwwwwwwwwwwwwwwwwwwwwwwwwwwwwwwwwwwwwwwwwwwwwwwwwwwwwwwwwwwwwwwwwwwwwwwwwwwwwwwwwwwwwwwwwwwwwwwwwwwwwwwwwwwwwwwwwwwwwwwwwwwwwwwwwwwwwwwwwwwwwwwwwwwwwwwwwwwwwwwwwwwwwwwwwwwwwwwwwwwwwwwwwwwwwwwwwwwwwwwwwwwwwwwwwwwwwwwwwwwwwwwwwwwwwwwwwwwwwwwwwwwwwwwwwwwwwwwwwwwwwwwwwwwwwwwwwwwwwwwwwwwwwwwwwwwwwwwwwwwwwwwwwwwwwwwwwwwwwwwwwwwwwwwwwwwwwwwwwwwwwwwwwwwwwwwwwwwwwwwwwwwwwwwwwwwwwwwwwwwwwwwwwwwwwwwwwwwwwwwwwwwwwwwwwwwwwwwwwwwwwwwwwwwwwwwwwwwwwwwwwwwwwwwwwwwwwwwwwwwwwwwwwwwwwwwwwwwwwwwwwwwwwwwwwwwwwwwwwwwwwwwwwwwwwwwwwwwwwwwwwwwwwwwwwwwwwwwwwwwwwwwwwwwwwwwwwwwwwwwwwwwwwwwwwwwwwwwwwwwwwwwwwwwwwwwwwwwwwwwwwwwwwwwwwwwwwwwwwwwwwwwwwwwwwwwwwwwwwwwwwwwwwwwwwwwwwwwwwwwwwwwwwwwwwwwwwwwwwwwwwwwwwwwwwwwwwwwwwwwwwwwwwwwwwwwwwwwwwwwwwwwwwwwwwwwwwwwwwwwwwwwwwwwwwwwwwwwwwwwwwwwwwwwwwwwwwwwwwwwwwwwwwwwwwwwwwwwwwwwwwwwwwwwwwwwwwwwwwwwwwwwwwwwwwwwwwwwwwwwwwwwwwwwwwwwwwwwwwwwwwwwwwwwwwwwwwwwwwwwwwwwwwwwwwwwwwwwwwwwwwwwwwwwwwwwwwwwwwwwwwwwwwwwwwwwwwwwwwwwwwwwwwwwwwwwwwwwwwwwwwwwwwwwwwwwwwwwwwwwwwwwwwwwwwwwwwwwwwwwwwwwwwwwwwwwwwwwwwwwwwwwwwwwwwwwwwwwwwwwwwwwwwwwwwwwwwwwwwwwwwwwwwwwwwwwwwwwwwwwwwwwwwwwwwwwwwwwwwwwwwwwwwwwwwwwwwwwwwwwwwwwwwwwwwwwwwwwwwwwwwwwwwwwwwwwwwwwwwwwwwwwwwwwwwwwwwwwwwwwwwwwwwwwwwwwwwwwwwwwwwwwwwwwwwwwwwwwwwwwwwwwwwwwwwwwwwwwwwwwwwwwwwwwwwwwwwwwwwwwwwwwwwwwwwwwwwwwwwwwwwwwwwwwwwwwwwwwwwwwwwwwwwwwwwwwwwwwwwwwwwwwwwwwwwwwwwwwwwwwwwwwwwwwwwwwwwwwwwwwwwwwwwwwwwwwwwwwwwwwwwwwwwwwwwwwwwwwwwwwwwwwwwwwwwwwwwwwwwwwwwwwwwwwwwwwwwwwwwwwwwwwwwwwwwwwwwwwwwwwwwwwwwwwwwwwwwwwwwwwwwwwwwwwwwwwwwwwwwwwwwwwwwwwwwwwwwwwwwwwwwwwwwwwwwwwwwwwwwwwwwwwwwwwwwwwwwwwwwwwwwwwwwwwwwwwwwwwwwwwwwwwwwwwwwwwwwwwwwwwwwwwwwwwwwwwwwwwwwwwwwwwwwwwwwwwwwwwwwwwwwwwwwwwwwwwwwwwwwwwwwwwwwwwwwwwwwwwwwwwwwwwwwwwwwwwwwwwwwwwwwwwwwwwwwwwwwwwwwwwwwwwwwwwwwwwwwwwwwwwwwwwwwwwwwwwwwwwwwwwwwwwwwwwwwwwwwwwwwwwwwwwwwwwwwwwwwwwwwwwwwwwwwwwwwwwwwwwwwwwwwwwwwwwwwwwwwwwwwwwwwwwwwwwwwwwwwwwwwwwwwwwwwwwwwwwwwwwwwwwwwwwwwwwwwwwwwwwwwwwwwwwwwwwwwwwwwwwwwwwwwwwwwwwwwwwwwwwwwwwwwwwwwwwwwwwwwwwwwwwwwwwwwwwwwwwwwwwwwwwwwwwwwwwwwwwwwwwwwwwwwwwwwwwwwwwwwwwwwwwwwwwwwwwwwwwwwwwwwwwwwwwwwwwwwwwwwwwwwwwwwwwwwwwwwwwwwwwwwwwwwwwwwwwwwwwwwwwwwwwwwwwwwwwwwwwwwwwwwwwwwwwwwwwwwwwwwwwwwwwwwwwwwwwwwwwwwwwwwwwwwwwwwwwwwwwwwwwwwwwwwwwwwwwwwwwwwwwwwwwwwwwwwwwwwwwwwwwwwwwwwwwwwwwwwwwwwwwwwwwwwwwwwwwwwwwwwwwwwwwwwwwwwwwwwwwwwwwwwwwwwwwwwwwwwwwwwwwwwwwwwwwwwwwwwwwwwwwwwwwwwwwwwwwwwwwwwwwwwwwwwwwwwwwwwwwwwwwwwwwwwwwwwwwwwwwwwwwwwwwwwwwwwwwwwwwwwwwwwwwwwwwwwwwwwwwwwwwwwwwwwwwwwwwwwwwwwwwwwwwwwwwwwwwwwwwwwwwwwwwwwwwwwwwwwwwwwwwwwwwwwwwwwwwwwwwwwwwwwwwwwwwwwwwwwwwwwwwwwwwwwwwwwwwwwwwwwwwwwwwwwwwwwwwwwwwwwwwwwwwwwwwwwwwwwwwwwwwwwwwwwwwwwwwwwwwwwwwwwwwwwwwwwwwwwwwwwwwwwwwwwwwwwwwwwwwwwwwwwwwwwwwwwwwwwwwwwwwwwwwwwwwwwwwwwwwwwwwwwwwwwwwwwwwwwwwwwwwwwwwwwwwwwwwwwwwwwwwwwwwwwwwwwwwwwwwwwwwwwwwwwwwwwwwwwwwwwwwwwwwwwwwwwwwwwwwwwwwwwwwwwwwwwwwwwwwwwwwwwwwwwwwwwwwwwwwwwwwwwwwwwwwwwwwwwwwwwwwwwwwwwwwwwwwwwwwwwwwwwwwwwwwwwwwwwwwwwwwwwwwwwwwwwwwwwwwwwwwwwwwwwwwwwwwwwwwwwwwwwwwwwwwwwwwwwwwwwwwwwwwwwwwwwwwwwwwwwwwwwwwwwwwwwwwwwwwwwwwwwwwwwwwwwwwwwwwwwwwwwwwwwwwwwwwwwwwwwwwwwwwwwwwwwwwwwwwwwwwwwwwwwwwwwwwwwwwwwwwwwwwwwwwwwwwwwwwwwwwwwwwwwwwwwwwwwwwwwwwwwwwwwwwwwwwwwwwwwwwwwwwwwwwwwwwwwwwwwwwwwwwwwwwwwwwwwwwwwwwwwwwwwwwwwwwwwwwwwwwwwwwwwwwwwwwwwwwwwwwwwwwwwwwwwwwwwwwwwwwwwwwwwwwwwwwwwwwwwwwwwwwwwwwwwwwwwwwwwwwwwwwwwwwwwwwwwwwwwwwwwwwwwwwwwwwwwwwwwwwwwwwwwwwwwwwwwwwwwwwwwwwwwwwwwwwwwwwwwwwwwwwwwwwwwwwwwwwwwwwwwwwwwwwwwwwwwwwwwwwwwwwwwwwwwwwwwwwwwwwwwwwwwwwwwwwwwwwwwwwwwwwwwwwwwwwwwwwwwwwwwwwwwwwwwwwwwwwwwwwwwwwwwwwwwwwwwwwwwwwwwwwwwwwwwwwwwwwwwwwwwwwwwwwwwwwwwwwwwwwwwwwwwwwwwwwwwwwwwwwwwwwwwwwwwwwwwwwwwwwwwwwwwwwwwwwwwwwwwwwwwwwwwwwwwwwwwwwwwwwwwwwwwwwwwwwwwwwwwwwwwwwwwwwwwwwwwwwwwwwwwwwwwwwwwwwwwwwwwwwwwwwwwwwwwwwwwwwwwwwwwwwwwwwwwwwwwwwwwwwwwwwwwwwwwwwwwwwwwwwwwwwwwwwwwwwwwwwwwwwwwwwwwwwwwwwwwwwwwwwwwwwwwwwwwwwwwwwwwwwwwwwwwwwwwwwwwwwwwwwwwwwwwwwwwwwwwwwwwwwwwwwwwwwwwwwwwwwwwwwwwwwwwwwwwwwwwwwwwwwwwwwwwwwwwwwwwwwwwwwwwwwwwwwwwwwwwwwwwwwwwwwwwwwwwwwwwwwwwwwwwwwwwwwwwwwwwwwwwwwwwwwwwwwwwwwwwwwwwwwwwwwwwwwwwwwwwwwwwwwwwwwwwwwwwwwwwwwwwwwwwwwwwwwwwwwwwwwwwwwwwwwwwwwwwwwwwwwwwwwwwwwwwwwwwwwwwwwwwwwwwwwwwwwwwwwwwwwwwwwwwwwwwwwwwwwwwwwwwwwwwwwwwwwwwwwwwwwwwwwwwwwwwwwwwwwwwwwwwwwwwwwwwwwwwwwwwwwwwwwwwwwwwwwwwwwwwwwwwwwwwwwwwwwwwwwwwwwwwwwwwwwwwwwwwwwwwwwwwwwwwwwwwwwwwwwwwwwwwwwwwwwwwwwwwwwwwwwwwwwwwwwwwwwwwwwwwwwwwwwwwwwwwwwwwwwwwwwwwwwwwwwwwwwwwwwwwwwwwwwwwwwwwwwwwwwwwwwwwwwwwwwwwwwwwwwwwwwwwwwwwwwwwwwwwwwwwwwwwwwwwwwwwwwwwwwwwwwwwwwwwwwwwwwwwwwwwwwwwwwwwwwwwwwwwwwwwwwwwwwwwwwwwwwwwwwwwwwwwwwwwwwwwwwwwwwwwwwwwwwwwwwwwwwwwwwwwwwwwwwwwwwwwwwwwwwwwwwwwwwwwwwwwwwwwwwwwwwwwwwwwwwwwwwwwwwwwwwwwwwwwwwwwwwwwwwwwwwwwwwwwwwwwwwwwwwwwwwwwwwwwwwwwwwwwwwwwwwwwwwwwwwwwwwwwwwwwwwwwwwwwwwwwwwwwwwwwwwwwwwwwwwwwwwwwwwwwwwwwwwwwwwwwwwwwwwwwwwwwwwwwwwwwwwwwwwwwwwwwwwwwwwwwwwwwwwwwwwwwwwwwwwwwwwwwwwwwwwwwwwwwwwwwwwwwwwwwwwwwwwwwwwwwwwwwwwwwwwwwwwwwwwwwwwwwwwwwwwwwwwwwwwwwwwwwwwwwwwwwwwwwwwwwwwwwwwwwwwwwwwwwwwwwwwwwwwwwwwwwwwwwwwwwwwwwwwwwwwwwwwwwwwwwwwwwwwwwwwwwwwwwwwwwwwwwwwwwwwwwwwwwwwwwwwwwwwwwwwwwwwwwwwwwwwwwwwwwwwwwwwwwwwwwwwwwwwwwwwwwwwwwwwwwwwwwwwwwwwwwwwwwwwwwwwwwwwwwwwwwwwwwwwwwwwwwwwwwwwwwwwwwwwwwwwwwwwwwwwwwwwwwwwwwwwwwwwwwwwwwwwwwwwwwwwwwwwwwwwwwwwwwwwwwwwwwwwwwwwwwwwwwwwwwwwwwwwwwwwwwwwwwwwwwwwwwwwwwwwwwwwwwwwwwwwwwwwwwwwwwwwwwwwwwwwwwwwwwwwwwwwwwwwwwwwwwwwwwwwwwwwwwwwwwwwwwwwwwwwwwwwwwwwwwwwwwwwwwwwwwwwwwwwwwwwwwwwwwwwwwwwwwwwwwwwwwwwwwwwwwwwwwwwwwwwwwwwwwwwwwwwwwwwwwwwwwwwwwwwwwwwwwwwwwwwwwwwwwwwwwwwwwwwwwwwwwwwwwwwwwwwwwwwwwwwwwwwwwwwwwwwwwwwwwwwwwwwwwwwwwwwwwwwwwwwwwwwwwwwwwwwwwwwwwwwwwwwwwwwwwwwwwwwwwwwwwwwwwwwwwwwwwwwwwwwwwwwwwwwwwwwwwwwwwwwwwwwwwwwwwwwwwwwwwwwwwwwwwwwwwwwwwwwwwwwwwwwwwwwwwwwwwwwwwwwwwwwwwwwwwwwwwwwwwwwwwwwwwwwwwwwwwwwwwwwwwwwwwwwwwwwwwwwwwwwwwwwwwwwwwwwwwwwwwwwwwwwwwwwwwwwwwwwwwwwwwwwwwwwwwwwwwwwwwwwwwwwwwwwwwwwwwwwwwwwwwwwwwwwwwwwwwwwwwwwwwwwwwwwwwwwwwwwwwwwwwwwwwwwwwwwwwwwwwwwwwwwwwwwwwwwwwwwwwwwwwwwwwwwwwwwwwwwwwwwwwwwwwwwwwwwwwwwwwwwwwwwwwwwwwwwwwwwwwwwwwwwwwwwwwwwwwwwwwwwwwwwwwwwwwwwwwwwwwwwwwwwwwwwwwwwwwwwwwwwwwwwwwwwwwwwwwwwwwwwwwwwwwwwwwwwwwwwwwwwwwwwwwwwwwwwwwwwwwwwwwwwwwwwwwwwwwwwwwwwwwwwwwwwwwwwwwwwwwwwwwwwwwwwwwwwwwwwwwwwwwwwwwwwwwwwwwwwwwwwwwwwwwwwwwwwwwwwwwwwwwwwwwwwwwwwwwwwwwwwwwwwwwwwwwwwwwwwwwwwwwwwwwwwwwwwwwwwwwwwwwwwwwwwwwwwwwwwwwwwwwwwwwwwwwwwwwwwwwwwwwwwwwwwwwwwwwwwwwwwwwwwwwwwwwwwwwwwwwwwwwwwwwwwwwwwwwwwwwwwwwwwwwwwwwwwwwwwwwwwwwwwwwwwwwwwwwwwwwwwwwwwwwwwwwwwwwwwwwwwwwwwwwwwwwwwwwwwwwwwwwwwwwwwwwwwwwwwwwwwwwwwwwwwwwwwwwwwwwwwwwwwwwwwwwwwwwwwwwwwwwwwwwwwwwwwwwwwwwwwwwwwwwwwwwwwwwwwwwwwwwwwwwwwwwwwwwwwwwwwwwwwwwwwwwwwwwwwwwwwwwwwwwwwwwwwwwwwwwwwwwwwwwwwwwwwwwwwwwwwwwwwwwwwwwwwwwwwwwwwwwwwwwwwwwwwwwwwwwwwwwwwwwwwwwwwwwwwwwwwwwwwwwwwwwwwwwwwwwwwwwwwwwwwwwwwwwwwwwwwwwwwwwwwwwwwwwwwwwwwwwwwwwwwwwwwwwwwwwwwwwwwwwwwwwwwwwwwwwwwwwwwwwwwwwwwwwwwwwwwwwwwwwwwwwwwwwwwwwwwwwwwwwwwwwwwwwwwwwwwwwwwwwwwwwwwwwwwwwwwwwwwwwwwwwwwwwwwwwwwwwwwwwwwwwwwwwwwwwwwwwwwwwwwwwwwwwwwwwwwwwwwwwwwwwwwwwwwwwwwwwwwwwwwwwwwwwwwwwwwwwwwwwwwwwwwwwwwwwwwwwwwwwwwwwwwwwwwwwwwwwwwwwwwwwwwwwwwwwwwwwwwwwwwwwwwwwwwwwwwwwwwwwwwwwwwwwwwwwwwwwwwwwwwwwwwwwwwwwwwwwwwwwwwwwwwwwwwwwwwwwwwwwwwwwwwwwwwwwwwwwwwwwwwwwwwwwwwwwwwwwwwwwwwwwwwwwwwwwwwwwwwwwwwwwwwwwwwwwwwwwwwwwwwwwwwwwwwwwwwwwwwwwwwwwwwwwwwwwwwwwwwwwwwwwwwwwwwwwwwwwwwwwwwwwwwwwwwwwwwwwwwwwwwwwwwwwwwwwwwwwwwwwwwwwwwwwwwwwwwwwwwwwwwwwwwwwwwwwwwwwwwwwwwwwwwwwwwwwwwwwwwwwwwwwwwwwwwwwwwwwwwwwwwwwwwwwwwwwwwwwwwwwwwwwwwwwwwwwwwwwwwwwwwwwwwwwwwwwwwwwwwwwwwwwwwwwwwwwwwwwwwwwwwwwwwwwwwwwwwwwwwwwwwwwwwwwwwwwwwwwwwwwwwwwwwwwwwwwwwwwwwwwwwwwwwwwwwwwwwwwwwwwwwwwwwwwwwwwwwwwwwwwwwwwwwwwwwwwwwwwwwwwwwwwwwwwwwwwwwwwwwwwwwwwwwwwwwwwwwwwwwwwwwwwwwwwwwwwwwwwwwwwwwwwwwwwwwwwwwwwwwwwwwwwwwwwwwwwwwwwwwwwwwwwwwwwwwwwwwwwwwwwwwwwwwwwwwwwwwwwwwwwwwwwwwwwwwwwwwwwwwwwwwwwwwwwwwwwwwwwwwwwwwwwwwwwwwwwwwwwwwwwwwwwwwwwwwwwwwwwwwwwwwwwwwwwwwwwwwwwwwwwwwwwwwwwwwwwwwwwwwwwwwwwwwwwwwwwwwwwwwwwwwwwwwwwwwwwwwwwwwwwwwwwwwwwwwwwwwwwwwwwwwwwwwwwwwwwwwwwwwwwwwwwwwwwwwwwwwwwwwwwwwwwwwwwwwwwwwwwwwwwwwwwwwwwwwwwwwwwwwwwwwwwwwwwwwwwwwwwwwwwwwwwwwwwwwwwwwwwwwwwwwwwwwwwwwwwwwwwwwwwwwwwwwwwwwwwwwwwwwwwwwwwwwwwwwwwwwwwwwwwwwwwwwwwwwwwwwwwwwwwwwwwwwwwwwwwwwwwwwwwwwwwwwwwwwwwwwwwwwwwwwwwwwwwwwwwwwwwwwwwwwwwwwwwwwwwwwwwwwwwwwwwwwwwwwwwwwwwwwwwwwwwwwwwwwwwwwwwwwwwwwwwwwwwwwwwwwwwwwwwwwwwwwwwwwwwwwwwwwwwwwwwwwwwwwwwwwwwwwwwwwwwwwwwwwwwwwwwwwwwwwwwwwwwwwwwwwwwwwwwwwwwwwwwwwwwwwwwwwwwwwwwwwwwwwwwwwwwwwwwwwwwwwwwwwwwwwwwwwwwwwwwwwwwwwwwwwwwwwwwwwwwwwwwwwwwwwwwwwwwwwwwwwwwwwwwwwwwwwwwwwwwwwwwwwwwwwwwwwwwwwwwwwwwwwwwwwwwwwwwwwwwwwwwwwwwwwwwwwwwwwwwwwwwwwwwwwwwwwwwwwwwwwwwwwwwwwwwwwwwwwwwwwwwwwwwwwwwwwwwwwwwwwwwwwwwwwwwwwwwwwwwwwwwwwwwwwwwwwwwwwwwwwwwwwwwwwwwwwwwwwwwwwwwwwwwwwwwwwwwwwwwwwwwwwwwwwwwwwwwwwwwwwwwwwwwwwwwwwwwwwwwwwwwwwwwwwwwwwwwwwwwwwwwwwwwwwwwwwwwwwwwwwwwwwwwwwwwwwwwwwwwwwwwwwwwwwwwwwwwwwwwwwwwwwwwwwwwwwwwwwwwwwwwwwwwwwwwwwwwwwwwwwwwwwwwwwwwwwwwwwwwwwwwwwwwwwwwwwwwwwwwwwwwwwwwwwwwwwwwwwwwwwwwwwwwwwwwwwwwwwwwwwwwwwwwwwwwwwwwwwwwwwwwwwwwwwwwwwwwwwwwwwwwwwwwwwwwwwwwwwwwwwwwwwwwwwwwwwwwwwwwwwwwwwwwwwwwwwwwwwwwwwwwwwwwwwwwwwwwwwwwwwwwwwwwwwwwwwwwwwwwwwwwwwwwwwwwwwwwwwwwwwwwwwwwwwwwwwwwwwwwwwwwwwwwwwwwwwwwwwwwwwwwwwwwwwwwwwwwwwwwwwwwwwwwwwwwwwwwwwwwwwwwwwwwwwwwwwwwwwwwwwwwwwwwwwwwwwwwwwwwwwwwwwwwwwwwwwwwwwwwwwwwwwwwwwwwwwwwwwwwwwwwwwwwwwwwwwwwwwwwwwwwwwwwwwwwwwwwwwwwwwwwwwwwwwwwwwwwwwwwwwwwwwwwwwwwwwwwwwwwwwwwwwwwwwwwwwwwwwwwwwwwwwwwwwwwwwwwwwwwwwwwwwwwwwwwwwwwwwwwwwwwwwwwwwwwwwwwwwwwwwwwwwwwwwwwwwwwwwwwwwwwwwwwwwwwwwwwwwwwwwwwwwwwwwwwwwwwwwwwwwwwwwwwwwwwwwwwwwwwwwwwwwwwwwwwwwwwwwwwwwwwwwwwwwwwwwwwwwwwwwwwwwwwwwwwwwwwwwwwwwwwwwwwwwwwwwwwwwwwwwwwwwwwwwwwwwwwwwwwwwwwwwwwwwwwwwwwwwwwwwwwwwwwwwwwwwwwwwwwwwwwwwwwwwwwwwwwwwwwwwwwwwwwwwwwwwwwwwwwwwwwwwwwwwwwwwwwwwwwwwwwwwwwwwwwwwwwwwwwwwwwwwwwwwwwwwwwwwwwwwwwwwwwwwwwwwwwwwwwwwwwwwwwwwwwwwwwwwwwwwwwwwwwwwwwwwwwwwwwwwwwwwwwwwwwwwwwwwwwwwwwwwwwwwwwwwwwwwwwwwwwwwwwwwwwwwwwwwwwwwwwwwwwwwwwwwwwwwwwwwwwwwwwwwwwwwwwwwwwwwwwwwwwwwwwwwwwwwwwwwwwwwwwwwwwwwwwwwwwwwwwwwwwwwwwwwwwwwwwwwwwwwwwwwwwwwwwwwwwwwwwwwwwwwwwwwwwwwwwwwwwwwwwwwwwwwwwwwwwwwwwwwwwwwwwwwwwwwwwwwwwwwwwwwwwwwwwwwwwwwwwwwwwwwwwwwwwwwwwwwwwwwwwwwwwwwwwwwwwwwwwwwwwwwwwwwwwwwwwwwwwwwwwwwwwwwwwwwwwwwwwwwwwwwwwwwwwwwwwwwwwwwwwwwwwwwwwwwwwwwwwwwwwwwwwwwwwwwwwwwwwwwwwwwwwwwwwwwwwwwwwwwwwwwwwwwwwwwwwwwwwwwwwwwwwwwwwwwwwwwwwwwwwwwwwwwwwwwwwwwwwwwwwwwwwwwwwwwwwwwwwwwwwwwwwwwwwwwwwwwwwwwwwwwwwwwwwwwwwwwwwwwwwwwwwwwwwwwwwwwwwwwwwwwwwwwwwwwwwwwwwwwwwwwwwwwwwwwwwwwwwwwwwwwwwwwwwwwwwwwwwwwwwwwwwwwwwwwwwwwwwwwwwwwwwwwwwwwwwwwwwwwwwwwwwwwwwwwwwwwwwwwwwwwwwwwwwwwwwwwwwwwwwwwwwwwwwwwwwwwwwwwwwwwwwwwwwwwwwwwwwwwwwwwwwwwwwwwwwwwwwwwwwwwwwwwwwwwwwwwwwwwwwwwwwwwwwwwwwwwwwwwwwwwwwwwwwwwwwwwwwwwwwwwwwwwwwwwwwwwwwwwwwwwwwwwwwwwwwwwwwwwwwwwwwwwwwwwwwwwwwwwwwwwwwwwwwwwwwwwwwwwwwwwwwwwwwwwwwwwwwwwwwwwwwwwwwwwwwwwwwwwwwwwwwwwwwwwwwwwwwwwwwwwwwwwwwwwwwwwwwwwwwwwwwwwwwwwwwwwwwwwwwwwwwwwwwwwwwwwwwwwwwwwwwwwwwwwwwwwwwwwwwwwwwwwwwwwwwwwwwwwwwwwwwwwwwwwwwwwwwwwwwwwwwwwwwwwwwwwwwwwwwwwwwwwwwwwwwwwwwwwwwwwwwwwwwwwwwwwwwwwwwwwwwwwwwwwwwwwwwwwwwwwwwwwwwwwwwwwwwwwwwwwwwwwwwwwwwwwwwwwwwwwwwwwwwwwwwwwwwwwwwwwwwwwwwwwwwwwwwwwwwwwwwwwwwwwwwwwwwwwwwwwwwwwwwwwwwwwwwwwwwwwwwwwwwwwwwwwwwwwwwwwwwwwwwwwwwwwwwwwwwwwwwwwwwwwwwwwwwwwwwwwwwwwwwwwwwwwwwwwwwwwwwwwwwwwwwwwwwwwwwwwwwwwwwwwwwwwwwwwwwwwwwwwwwwwwwwwwwwwwwwwwwwwwwwwwwwwwwwwwwwwwwwwwwwwwwwwwwwwwwwwwwwwwwwwwwwwwwwwwwwwwwwwwwwwwwwwwwwwwwwwwwwwwwwwwwwwwwwwwwwwwwwwwwwwwwwwwwwwwwwwwwwwwwwwwwwwwwwwwwwwwwwwwwwwwwwwwwwwwwwwwwwwwwwwwwwwwwwwwwwwwwwwwwwwwwwwwwwwwwwwwwwwwwwwwwwwwwwwwwwwwwwwwwwwwwwwwwwwwwwwwwwwwwwwwwwwwwwwwwwwwwwwwwwwwwwwwwwwwwwwwwwwwwwwwwwwwwwwwwwwwwwwwwwwwwwwwwwwwwwwwwwwwwwwwwwwwwwwwwwwwwwwwwwwwwwwwwwwwwwwwwwwwwwwwwwwwwwwwwwwwwwwwwwwwwwwwwwwwwwwwwwwwwwwwwwwwwwwwwwwwwwwwwwwwwwwwwwwwwwwwwwwwwwwwwwwwwwwwwwwwwwwwwwwwwwwwwwwwwwwwwwwwwwwwwwwwwwwwwwwwwwwwwwwwwwwwwwwwwwwwwwwwwwwwwwwwwwwwwwwwwwwwwwwwwwwwwwwwwwwwwwwwwwwwwwwwwwwwwwwwwwwwwwwwwwwwwwwwwwwwwwwwwwwwwwwwwwwwwwwwwwwwwwwwwwwwwwwwwwwwwwwwwwwwwwwwwwwwwwwwwwwwwwwwwwwwwwwwwwwwwwwwwwwwwwwwwwwwwwwwwwwwwwwwwwwwwwwwwwwwwwwwwwwwwwwwwwwwwwwwwwwwwwwwwwwwwwwwwwwwwwwwwwwwwwwwwwwwwwwwwwwwwwwwwwwwwwwwwwwwwwwwwwwwwwwwwwwwwwwwwwwwwwwwwwwwwwwwwwwwwwwwwwwwwwwwwwwwwwwwwwwwwwwwwwwwwwwwwwwwwwwwwwwwwwwwwwwwwwwwwwwwwwwwwwwwwwwwwwwwwwwwwwwwwwwwwwwwwwwwwwwwwwwwwwwwwwwwwwwwwwwwwwwwwwwwwwwwwwwwwwwwwwwwwwwwwwwwwwwwwwwwwwwwwwwwwwwwwwwwwwwwwwwwwwwwwwwwwwwwwwwwwwwwwwwwwwwwwwwwwwwwwwwwwwwwwwwwwwwwwwwwwwwwwwwwwwwwwwwwwwwwwwwwwwwwwwwwwwwwwwwwwwwwwwwwwwwwwwwwwwwwwwwwwwwwwwwwwwwwwwwwwwwwwwwwwwwwwwwwwwwwwwwwwwwwwwwwwwwwwwwwwwwwwwwwwwwwwwwwwwwwwwwwwwwwwwwwwwwwwwwwwwwwwwwwwwwwwwwwwwwwwwwwwwwwwwwwwwwwwwwwwwwwwwwwwwwwwwwwwwwwwwwwwwwwwwwwwwwwwwwwwwwwwwwwwwwwwwwwwwwwwwwwwwwwwwwwwwwwwwwwwwwwwwwwwwwwwwwwwwwwwwwwwwwwwwwwwwwwwwwwwwwwwwwwwwwwwwwwwwwwwwwwwwwwwwwwwwwwwwwwwwwwwwwwwwwwwwwwwwwwwwwwwwwwwwwwwwwwwwwwwwwwwwwwwwwwwwwwwwwwwwwwwwwwwwwwwwwwwwwwwwwwwwwwwwwwwwwwwwwwwwwwwwwwwwwwwwwwwwwwwwwwwwwwwwwwwwwwwwwwwwwwwwwwwwwwwwwwwwwwwwwwwwwwwwwwwwwwwwwwwwwwwwwwwwwwwwwwwwwwwwwwwwwwwwwwwwwwwwwwwwwwwwwwwwwwwwwwwwwwwwwwwwwwwwwwwwwwwwwwwwwwwwwwwwwwwwwwwwwwwwwwwwwwwwwwwwwwwwwwwwwwwwwwwwwwwwwwwwwwwwwwwwwwwwwwwwwwwwwwwwwwwwwwwwwwwwwwwwwwwwwwwwwwwwwwwwwwwwwwwwwwwwwwwwwwwwwwwwwwwwwwwwwwwwwwwwwwwwwwwwwwwwwwwwwwwwwwwwwwwwwwwwwwwwwwwwwwwwwwwwwwwwwwwwwwwwwwwwwwwwwwwwwwwwwwwwwwwwwwwwwwwwwwwwwwwwwwwwwwwwwwwwwwwwwwwwwwwwwwwwwwwwwwwwwwwwwwwwwwwwwwwwwwwwwwwwwwwwwwwwwwwwwwwwwwwwwwwwwwwwwwwwwwwwwwwwwwwwwwwwwwwwwwwwwwwwwwwwwwwwwwwwwwwwwwwwwwwwwwwwwwwwwwwwwwwwwwwwwwwwwwwwwwwwwwwwwwwwwwwwwwwwwwwwwwwwwwwwwwwwwwwwwwwwwwwwwwwwwwwwwwwwwwwwwwwwwwwwwwwwwwwwwwwwwwwwwwwwwwwwwwwwwwwwwwwwwwwwwwwwwwwwwwwwwwwwwwwwwwwwwwwwwwwwwwwwwwwwwwwwwwwwwwwwwwwwwwwwwwwwwwwwwwwwwwwwwwwwwwwwwwwwwwwwwwwwwwwwwwwwwwwwwwwwwwwwwwwwwwwwwwwwwwwwwwwwwwwwwwwwwwwwwwwwwwwwwwwwwwwwwwwwwwwwwwwwwwwwwwwwwwwwwwwwwwwwwwwwwwwwwwwwwwwwwwwwwwwwwwwwwwwwwwwwwwwwwwwwwwwwwwwwwwwwwwwwwwwwwwwwwwwwwwwwwwwwwwwwwwwwwwwwwwwwwwwwwwwwwwwwwwwwwwwwwwwwwwwwwwwwwwwwwwwwwwwwwwwwwwwwwwwwwwwwwwwwwwwwwwwwwwwwwwwwwwwwwwwwwwwwwwwwwwwwwwwwwwwwwwwwwwwwwwwwwwwwwwwwwwwwwwwwwwwwwwwwwwwwwwwwwwwwwwwwwwwwwwwwwwwwwwwwwwwwwwwwwwwwwwwwwwwwwwwwwwwwwwwwwwwwwwwwwwwwwwwwwwwwwwwwwwwwwwwwwwwwwwwwwwwwwwwwwwwwwwwwwwwwwwwwwwwwwwwwwwwwwwwwwwwwwwwwwwwwwwwwwwwwwwwwwwwwwwwwwwwwwwwwwwwwwwwwwwwwwwwwwwwwwwwwwwwwwwwwwwwwwwwwwwwwwwwwwwwwwwwwwwwwwwwwwwwwwwwwwwwwwwwwwwwwwwwwwwwwwwwwwwwwwwwwwwwwwwwwwwwwwwwwwwwwwwwwwwwwwwwwwwwwwwwwwwwwwwwwwwwwwwwwwwwwwwwwwwwwwwwwwwwwwwwwwwwwwwwwwwwwwwwwwwwwwwwwwwwwwwwwwwwwwwwwwwwwwwwwwwwwwwwwwwwwwwwwwwwwwwwwwwwwwwwwwwwwwwwwwwwwwwwwwwwwwwwwwwwwwwwwwwwwwwwwwwwwwwwwwwwwwwwwwwwwwwwwwwwwwwwwwwwwwwwwwwwwwwwwwwwwwwwwwwwwwwwwwwwwwwwwwwwwwwwwwwwwwwwwwwwwwwwwwwwwwwwwwwwwwwwwwwwwwwwwwwwwwwwwwwwwwwwwwwwwwwwwwwwwwwwwwwwwwwwwwwwwwwwwwwwwwwwwwwwwwwwwwwwwwwwwwwwwwwwwwwwwwwwwwwwwwwwwwwwwwwwwwwwwwwwwwwwwwwwwwwwwwwwwwwwwwwwwwwwwwwwwwwwwwwwwwwwwwwwwwwwwwwwwwwwwwwwwwwwwwwwwwwwwwwwwwwwwwwwwwwwwwwwwwwwwwwwwwwwwwwwwwwwwwwwwwwwwwwwwwwwwwwwwwwwwwwwwwwwwwwwwwwwwwwwwwwwwwwwwwwwwwwwwwwwwwwwwwwwwwwwwwwwwwwwwwwwwwwwwwwwwwwwwwwwwwwwwwwwwwwwwwwwwwwwwwwwwwwwwwwwwwwwwwwwwwwwwwwwwwwwwwwwwwwwwwwwwwwwwwwwwwwwwwwwwwwwwwwwwwwwwwwwwwwwwwwwwwwwwwwwwwwwwwwwwwwwwwwwwwwwwwwwwwwwwwwwwwwwwwwwwwwwwwwwwwwwwwwwwwwwwwwwwwwwwwwwwwwwwwwwwwwwwwwwwwwwwwwwwwwwwwwwwwwwwwwwwwwwwwwwwwwwwwwwwwwwwwwwwwwwwwwwwwwwwwwwwwwwwwwwwwwwwwwwwwwwwwwwwwwwwwwwwwwwwwwwwwwwwwwwwwwwwwwwwwwwwwwwwwwwwwwwwwwwwwwwwwwwwwwwwwwwwwwwwwwwwwwwwwwwwwwwwwwwwwwwwwwwwwwwwwwwwwwwwwwwwwwwwwwwwwwwwwwwwwwwwwwwwwwwwwwwwwwwwwwwwwwwwwwwwwwwwwwwwwwwwwwwwwwwwwwwwwwwwwwwwwwwwwwwwwwwwwwwwwwwwwwwwwwwwwwwwwwwwwwwwwwwwwwwwwwwwwwwwwwwwwwwwwwwwwwwwwwwwwwwwwwwwwwwwwwwwwwwwwwwwwwwwwwwwwwwwwwwwwwwwwwwwwwwwwwwwwwwwwwwwwwwwwwwwwwwwwwwwwwwwwwwwwwwwwwwwwwwwwwwwwwwwwwwwwwwwwwwwwwwwwwwwwwwwwwwwwwwwwwwwwwwwwwwwwwwwwwwwwwwwwwwwwwwwwwwwwwwwwwwwwwwwwwwwwwwwwwwwwwwwwwwwwwwwwwwwwwwwwwwwwwwwwwwwwwwwwwwwwwwwwwwwwwwwwwwwwwwwwwwwwwwwwwwwwwwwwwwwwwwwwwwwwwwwwwwwwwwwwwwwwwwwwwwwwwwwwwwwwwwwwwwwwwwwwwwwwwwwwwwwwwwwwwwwwwwwwwwwwwwwwwwwwwwwwwwwwwwwwwwwwwwwwwwwwwwwwwwwwwwwwwwwwwww...................................................................wwwwwwwwwwwwwwwwwwwwwwwwwwwwwwwwwwwwwwwwwwwwww..wwwwwwwwwwwwwwwwwwwwwwwwwwwwwwwwwwwwwwwwwwwwwwwwwwwwwwwwwwwwwwwwwwwwwwwwwwwwwwwwwwwwwwwwwwwwwwwwwwwwwwwwwwwwwwwwwwwwwwwwwwwwwwwwwwwwwwwwwwwwwwwwwwwwwwwwwwwwwwwwwwwwwwwwwwwwwwwwwwwwwwwwwwwwwwwwwwwwwwwwwwwwwwwwwwwwwwwwwwwwwwwwwwwwwwwwwwwwwwwwwwwwwwwwwwwwwwwwwwwwwwwwwwwww...wwwwwwwwwwwwwwwwabcdefghijww....................wwwwwwwwwwwwwwwwwwwwwwwwwwwwwwwwwwwwwwwwwwwwwww................wwwwwwwwwwwwwwwwwwwwwwwwwwwwwww..wwwwwwwwwwwwwwwwwwwwwwwwwwwwwwwwwwwwwwwwwwwwwwwwwwwwwwwwwwwwwwwwwwwwwwwwwwwwwwww.......................................wwwwwwwww..wwwwwwwwwwwwwwwwwwwwwwwwwwwwwwwwwwwwwwwwwwwwwwwwwwwwwwwwwwwwwwwwwwwwwwwwwwwwwwwwwwwwwwwwwwwwwwwwwwwwwww..wwwwwwwwwwwwwwwwwwwwwwwwwwwwwwwwwwwwwwwwwwwwwwwwwwwwwwwwwwwwwwww.....ww.w.wwwww........................wwwwwwwwwwwwwwww.www.wwww.wwwwwwwwwwwwwwwwwwwwwww.............wwwwww..........wwwwwwwwwwwwwwwwwwwwwwwwwwwwwwwwwwwwwwwwwwwwwwwwwwww..............wwwwwwwwwwwwwwwwwwwwwwwwwwwwwwwwwwwwwwwwwwwwwwwwww............................abcdefghij........................wwwwww...w.ww.abcdefghijwwwwwwwwwwwwwwwwwwwwwwwwwwww..........wwwwwwwwwwwwwwwwwwwwwww.........................wwwwwwwwwwwwwwwwwwwwwwwwwwwww.......wwwwwwwwwwwwwwwwwwwwwwwwwwwwwwwwwwwwwwwwwwwwwww............................wabcdefghij......wwwww.wwwwwwwwwwabcdefghijwwwww.wwwwwwwwwwwwwwwwwwwwwwwwwwwwwwwwwwwwwwwww.......................www.wwwwwwww....abcdefghij......wwwwwwwwwwwwwwwwwwwwwww...w...wwwwwwwwwwwwwwwwwwwwwwwwwwwwwwwwwwwwwwwwwwwwwwwwww.w...ww..wwwww..w.w........................www..wwwwwwwwwww.......www............wwwwww..wwwwww..wwwwww.........wwwwwww.wwwwwww.wwwwwwwwwwwwwwwwwwwwwwwwwwwwwwwwwwwwwwwwwww.wwwwwwwwwwwwww......wwwwwwwwwwwwwwwwwwwwwwwwwwwwwwwwwwwwwwwwwwwwwwwwwwwwwwwwwwwwwwwwwwwwwwwwwwwwwwwwwwwwwwwwwwwwwwwwwwwwwwwwwwwwwwwwwww.............abcdefghij......wwwwwwwwwwwwwwwwwwwwwwwwwwwwwwwwwwwwwwwwwwwwwwwwwwwwwwwwwwwwwwwwwwwwwwwwwwwwwwwwwwwwwwwwwwwwwwwwwwwwwwwwwwwwwwwwwwwwwwwwwwwwwwwwwwwwwwwwwwwwwwwwwwwwwwwwwwwwwwwwwwwwwwwwwwwwwwwwwwwwwwwwwwwwwwwwwwwwwwwwwwwwwwwwwwwwwwwwwwwwwwwwwwwwwwwwwwwwwwwwwwwwwwwwwwwwwwwwwwwwwwwwwwwwwwwwwwwwwwwwwwwwwwwwwwwwwwwwwwwwwwwwwwwwwwwwwwwwwwwwwwwwwwwwwwwwwwwwwwwwwwwwwwwwwwwwwwwwwwwwwwwwwwwwwwwwwwwwwwwwwwwwwwwwwwwwwwwwwwwwwwwwwwwwwwwwwwwwwwwwwwwwwwwwwwwwwwwwwwwwwwwwwwwwwwwwwwwwwwwwwwwwwwwwwwwwwwwwwwwwwwwwwwwwwwwwwwwwwwwwwwwwwwwwwwwwwwwwwwwwwwwwwwwwwwwwwwwwwwwwwwwwwwwwwwwwwwwwwwwwwwwwwwwwwwwwwwwwwwwwwwwwwwwwwwwwwwwwwwwwwwwwwwwwwwwwwwwwwwwwwwwwwwwwwwwwwwwwwwwwwwwwwwwwwwwwwwwwwwwwwwwwwwwwwwwwwwwwwwwwwwwwwwwwwwwwwwwwwwwwwwwwwwwwwwwwwwwwwwwwwwwwwwwwwwwwwwwwwwwwwwwwwwwwwwwwwwwwwwwwwwwwwwwwwwwwwwwwwwwwwwwwwwwwwwwwwwwwwwwwwwwwwwwwwwwwwwwwwwwwwwwwwwwwwwwwwwwwwwwwwwwwwwwwwwwwwwwwwwwwwwwwwwwwwwwwwwwwwwwwwwwwwwwwwwwwwwwwwwwwwwwwwwwwwwwwwwwwwwwwwwwwwwwwwwwwwwwwwwwwwwwwwwwwwwwwwwwwwwwwwwwwwwwwwwwwwwwwwwwwwwwwwwwwwwwwwwwwwwwwwwwwwwwwwwwwwwwwwwwwwwwwwwwwwwwwwwwwwwwwwwwwwwwwwwwwwwwwwwwwwwwwwwwwwwwwwwwwwwwwwwwwwwwwwwwwwwwwwwwwwwwwwwwwwwwwwwwwwwwwwwwwwwwwwwwwwwwwwwwwwwwwwwwwwwwwwwwwwwwwwwwwwwwwwwwwwwwwwwwwwwwwwwwwwwwwwwwwwwwwwwwwwwwwwwwwwwwwwwwwwwwwwwwwwwwwwwwwwwwwwwwwwwwwwwwwwwwwwwwwwwwwwwwwwwwwwwwwwwwwwwwwwwwwwwwwwwwwwwwwwwwwwwwwwwwwwwwwwwwwwwwwwwwwwwwwwwwwwwwwwwwwwwwwwwwwwwwwwwwwwwwwwwwwwwwwwwwwwwwwwwwwwwwwwwwwwwwwwwwwwwwwwwwwwwwwwwwwwwwwwwwwwwwwwwwwwwwwwwwwwwwwwwwwwwwwwwwwwwwwwwwwwwwwwwwwwwwwwwwwwwwwwwwwwwwwwwwwwwwwwwwwwwwwwwwwwwwwwwwwwwwwwwwwwwwwwwwwwwwwwwwwwwwwwwwwwwwwwwwwwwwwwwwwwwwwwwwwwwwwwwwwwwwwwwwwwwwwwwwwwwwwwwwwwwwwwwwwwwwwwwwwwwwwwwwwwwwwwwwwwwwwwwwwwwwwwwwwwwwwwwwwwwwwwwwwwwwwwwwwwwwwwwwwwwwwwwwwwwwwwwwwwwwwwwwwwwwwwwwwwwwwwwwwwwwwwwwwwwwwwwwwwwwwwwwwwwwwwwwwwwwwwwwwwwwwwwwwwwwwwwwwwwwwwwwwwwwwwwwwwwwwwwwwwwwwwwwwwwwwwwwwwwwwwwwwwwwwwwwwwwwwwwwwwwwwwwwwwwwwwwwwwwwwwwwwwwwwwwwwwwwwwwwwwwwwwwwwwwwwwwwwwwwwwwwwwwwwwwwwwwwwwwwwwwwwwwwwwwwwwwwwwwwwwwwwwwwwwwwwwwwwwwwwwwwwwwwwwwwwwwwwwwwwwwwwwwwwwwwwwwwwwwwwwwwwwwwwwwwwwwwwwwwwwwwwwwwwwwwwwwwwwwwwwwwwwwwwwwwwwwwwwwwwwwwwwwwwwwwwwwwwwwwwwwwwwwwwwwwwwwwwwwwwwwwwwwwwwwwwwwwwwwwwwwwwwwwwwwwwwwwwwwwwwwwwwwwwwwwwwwwwwwwwwwwwwwwwwwwwwwwwwwwwwwwwwwwwwwwwwwwwwwwwwwwwwwwwwwwwwwwwwwwwwwwwwwwwwwwwwwwwwwwwwwwwwwwwwwwwwwwwwwwwwwwwwwwwwwwwwwwwwwwwwwwwwwwwwwwwwwwwwwwwwwwwwwwwwwwwwwwwwwwwwwwwwwwwwwwwwwwwwwwwwwwwwwwwwwwwwwwwwwwwwwwwwwwwwwwwwwwwwwwwwwwwwwwwwwwwwwwwwwwwwwwwwwwwwwwwwwwwwwwwwwwwwwwwwwwwwwwwwwwwwwwwwwwwwwwwwwwwwwwwwwwwwwwwwwwwwwwwwwwwwwwwwwwwwwwwwwwwwwwwwwwwwwwwwwwwwwwwwwwwwwwwwwwwwwwwwwwwwwwwwwwwwwwwwwwwwwwwwwwwwwwwwwwwwwwwwwwwwwwwwwwwwwwwwwwwwwwwwwwwwwwwwwwwwwwwwwwwwwwwwwwwwwwwwwwwwwwwwwwwwwwwwwwwwwwwwwwwwwwwwwwwwwwwwwwwwwwwwwwwwwwwwwwwwwwwwwwwwwwwwwwwwwwwwwwwwwwwwwwwwwwwwwwwwwwwwwwwwwwwwwwwwwwwwwwwwwwwwwwwwwwwwwwwwwwwwwwwwwwwwwwwwwwwwwwwwwwwwwwwwwwwwwwwwwwwwwwwwwwwwwwwwwwwwwwwwwwwwwwwwwwwwwwwwwwwwwwwwwwwwwwwwwwwwwwwwwwwwwwwwwwwwwwwwwwwwwwwwwwwwwwwwwwwwwwwwwwwwwwwwwwwwwwwwwwwwwwwwwwwwwwwwwwwwwwwwwwwwwwwwwwwwwwwwwwwwwwwwwwwwwwwwwwwwwwwwwwwwwwwwwwwwwwwwwwwwwwwwwwwwwwwwwwwwwwwwwwwwwwwwwwwwwwwwwwwwwwwwwwwwwwwwwwwwwwwwwwwwwwwwwwwwwwwwwwwwwwwwwwwwwwwwwwwwwwwwwwwwwwwwwwwwwwwwwwwwwwwwwwwwwwwwwwwwwwwwwwwwwwwwwwwwwwwwwwwwwwwwwwwwwwwwwwwwwwwwwwwwwwwwwwwwwwwwwwwwwwwwwwwwwwwwwwwwwwwwwwwwwwwwwwwwwwwwwwwwwwwwwwwwwwwwwwwwwwwwwwwwwwwwwwwwwwwwwwwwwwwwwwwwwwwwwwwwwwwwwwwwwwwwwwwwwwwwwwwwwwwwwwwwwwwwwwwwwwwwwwwwwwwwwwwwwwwwwwwwwwwwwwwwwwwwwwwwwwwwwwwwwwwwwwwwwwwwwwwwwwwwwwwwwwwwwwwwwwwwwwwwwwwwwwwwwwwwwwwwwwwwwwwwwwwwwwwwwwwwwwwwwwwwwwwwwwwwwwwwwwwwwwwwwwwwwwwwwwwwwwwwwwwwwwwwwwwwwwwwwwwwwwwwwwwwwwwwwwwwwwwwwwwwwwwwwwwwwwwwwwwwwwwwwwwwwwwwwwwwwwwwwwwwwwwwwwwwwwwwwwwwwwwwwwwwwwwwwwwwwwwwwwwwwwwwwwwwwwwwwwwwwwwwwwwwwwwwwwwwwwwwwwwwwwwwwwwwwwwwwwwwwwwwwwwwwwwwwwwwwwwwwwwwwwwwwwwwwwwwwwwwwwwwwwwwwwwwwwwwwwwwwwwwwwwwwwwwwwwwwwwwwwwwwwwwwwwwwwwwwwwwwwwwwwwwwwwwwwwwwwwwwwwwwwwwwwwwwwwwwwwwwwwwwwwwwwwwwwwwwwwwwwwwwwwwwwwwwwwwwwwwwwwwwwwwwwwwwwwwwwwwwwwwwwwwwwwwwwwwwwwwwwwwwwwwwwwwwwwwwwwwwwwwwwwwwwwwwwwwwwwwwwwwwwwwwwwwwwwwwwwwwwwwwwwwwwwwwwwwwwwwwwwwwwwwwwwwwwwwwwwwwwwwwwwwwwwwwwwwwwwwwwwwwwwwwwwwwwwwwwwwwwwwwwwwwwwwwwwwwwwwwwwwwwwwwwwwwwwwwwwwwwwwwwwwwwwwwwwwwwwwwwwwwwwwwwwwwwwwwwwwwwwwwwwwwwwwwwwwwwwwwwwwwwwwwwwwwwwwwwwwwwwwwwwwwwwwwwwwwwwwwwwwwwwwwwwwwwwwwwwwwwwwwwwwwwwwwwwwwwwwwwwwwwwwwwwwwwwwwwwwwwwwwwwwwwwwwwwwwwwwwwwwwwwwwwwwwwwwwwwwwwwwwwwwwwwwwwwwwwwwwwwwwwwwwwwwwwwwwwwwwwwwwwwwwwwwwwwwwwwwwwwwwwwwwwwwwwwwwwwwwwwwwwwwwwwwwwwwwwwwwwwwwwwwwwwwwwwwwwwwwwwwwwwwwwwwwwwwwwwwwwwwwwwwwwwwwwwwwwwwwwwwwwwwwwwwwwwwwwwwwwwwwwwwwwwwwwwwwwwwwwwwwwwwwwwwwwwwwwwwwwwwwwwwwwwwwwwwwwwwwwwwwwwwwwwwwwwwwwwwwwwwwwwwwwwwwwwwwwwwwwwwwwwwwwwwwwwwwwwwwwwwwwwwwwwwwwwwwwwwwwwwwwwwwwwwwwwwwwwwwwwwwwwwwwwwwwwwwwwwwwwwwwwwwwwwwwwwwwwwwwwwwwwwwwwwwwwwwwwwwwwwwwwwwwwwwwwwwwwwwwwwwwwwwwwwwwwwwwwwwwwwwwwwwwwwwwwwwwwwwwwwwwwwwwwwwwwwwwwwwwwwwwwwwwwwwwwwwwwwwwwwwwwwwwwwwwwwwwwwwwwwwwwwwwwwwwwwwwwwwwwwwwwwwwwwwwwwwwwwwwwwwwwwwwwwwwwwwwwwwwwwwwwwwwwwwwwwwwwwwwwwwwwwwwwwwwwwwwwwwwwwwwwwwwwwwwwwwwwwwwwwwwwwwwwwwwwwwwwwwwwwwwwwwwwwwwwwwwwwwwwwwwwwwwwwwwwwwwwwwwwwwwwwwwwwwwwwwwwwwwwwwwwwwwwwwwwwwwwwwwwwwwwwwwwwwwwwwwwwwwwwwwwwwwwwwwwwwwwwwwwwwwwwwwwwwwwwwwwwwwwwwwwwwwwwwwwwwwwwwwwwwwwwwwwwwwwwwwwwwwwwwwwwwwwwwwwwwwwwwwwwwwwwwwwwwwwwwwwwwwwwwwwwwwwwwwwwwwwwwwwwwwwwwwwwwwwwwwwwwwwwwwwwwwwwwwwwwwwwwwwwwwwwwwwwwwwwwwwwwwwwwwwwwwwwwwwwwwwwwwwwwwwwwwwwwwwwwwwwwwwwwwwwwwwwwwwwwwwwwwwwwwwwwwwwwwwwwwwwwwwwwwwwwwwwwwwwwwwwwwwwwwwwwwwwwwwwwwwwwwwwwwwwwwwwwwwwwwwwwwwwwwwwwwwwwwwwwwwwwwwwwwwwwwwwwwwwwwwwwwwwwwwwwwwwwwwwwwwwwwwwwwwwwwwwwwwwwwwwwwwwwwwwwwwwwwwwwwwwwwwwwwwwwwwwwwwwwwwwwwwwwwwwwwwwwwwwwwwwwwwwwwwwwwwwwwwwwwwwwwwwwwwwwwwwwwwwwwwwwwwwwwwwwwwwwwwwwwwwwwwwwwwwwwwwwwwwwwwwwwwwwwwwwwwwwwwwwwwwwwwwwwwwwwwwwwwwwwwwwwwwwwwwwwwwwwwwwwwwwwwwwwwwwwwwwwwwwwwwwwwwwwwwwwwwwwwwwwwwwwwwwwwwwwwwwwwwwwwwwwwwwwwwwwwwwwwwwwwwwwwwwwwwwwwwwwwwwwwwwwwwwwwwwwwwwwwwwwwwwwwwwwwwwwwwwwwwwwwwwwwwwwwwwwwwwwwwwwwwwwwwwwwwwwwwwwwwwwwwwwwwwwwwwwwwwwwwwwwwwwwwwwwwwwwwwwwwwwwwwwwwwwwwwwwwwwwwwwwwwwwwwwwwwwwwwwwwwwwwwwwwwwwwwwwwwwwwwwwwwwwwwwwwwwwwwwwwwwwwwwwwwwwwwwwwwwwwwwwwwwwwwwwwwwwwwwwwwwwwwwwwwwwwwwwwwwwwwwwwwwwwwwwwwwwwwwwwwwwwwwwwwwwwwwwwwwwwwwwwwwwwwwwwwwwwwwwwwwwwwwwwwwwwwwwwwwwwwwwwwwwwwwwwwwwwwwwwwwwwwwwwwwwwwwwwwwwwwwwwwwwwwwwwwwwwwwwwwwwwwwwwwwwwwwwwwwwwwwwwwwwwwwwwwwwwwwwwwwwwwwwwwwwwwwwwwwwwwwwwwwwwwwwwwwwwwwwwwwwwwwwwwwwwwwwwwwwwwwwwwwwwwwwwwwwwwwwwwwwwwwwwwwwwwwwwwwwwwwwwwwwwwwwwwwwwwwwwwwwwwwwwwwwwwwwwwwwwwwwwwwwwwwwwwwwwwwwwwwwwwwwwwwwwwwwwwwwwwwwwwwwwwwwwwwwwwwwwwwwwwwwwwwwwwwwwwwwwwwwwwwwwwwwwwwwwwwwwwwwwwwwwwwwwwwwwwwwwwwwwwwwwwwwwwwwwwwwwwwwwwwwwwwwwwwwwwwwwwwwwwwwwwwwwwwwwwwwwwwwwwwwwwwwwwwwwwwwwwwwwwwwwwwwwwwwwwwwwwwwwwwwwwwwwwwwwwwwwwwwwwwwwwwwwwwwwwwwwwwwwwwwwwwwwwwwwwwwwwwwwwwwwwwwwwwwwwwwwwwwwwwwwwwwwwwwwwwwwwwwwwwwwwwwwwwwwwwwwwwwwwwwwwwwwwwwwwwwwwwwwwwwwwwwwwwwwwwwwwwwwwwwwwwwwwwwwwwwwwwwwwwwwwwwwwwwwwwwwwwwwwwwwwwwwwwwwwwwwwwwwwwwwwwwwwwwwwwwwwwwwwwwwwwwwwwwwwwwwwwwwwwwwwwwwwwwwwwwwwwwwwwwwwwwwwwwwwwwwwwwwwwwwwwwwwwwwwwwwwwwwwwwwwwwwwwwwwwwwwwwwwwwwwwwwwwwwwwwwwwwwwwwwwwwwwwwwwwwwwwwwwwwwwwwwwwwwwwwwwwwwwwwwwwwwwwwwwwwwwwwwwwwwwwwwwwwwwwwwwwwwwwwwwwwwwwwwwwwwwwwwwwwwwwwwwwwwwwwwwwwwwwwwwwwwwwwwwwwwwwwwwwwwwwwwwwwwwwwwwwwwwwwwwwwwwwwwwwwwwwwwwwwwwwwwwwwwwwwwwwwwwwwwwwwwwwwwwwwwwwwwwwwwwwwwwwwwwwwwwwwwwwwwwwwwwwwwwwwwwwwwwwwwwwwwwwwwwwwwwwwwwwwwwwwwwwwwwwwwwwwwwwwwwwwwwwwwwwwwwwwwwwwwwwwwwwwwwwwwwwwwwwwwwwwwwwwwwwwwwwwwwwwwwwwwwwwwwwwwwwwwwwwwwwwwwwwwwwwwwwwwwwwwwwwwwwwwwwwwwwwwwwwwwwwwwwwwwwwwwwwwwwwwwwwwwwwwwwwwwwwwwwwwwwwwwwwwwwwwwwwwwwwwwwwwwwwwwwwwwwwwwwwwwwwwwwwwwwwwwwwwwwwwwwwwwwwwwwwwwwwwwwwwwwwwwwwwwwwwwwwwwwwwwwwwwwwwwwwwwwwwwwwwwwwwwwwwwwwwwwwwwwwwwwwwwwwwwwwwwwwwwwwwwwwwwwwwwwwwwwwwwwwwwwwwwwwwwwwwwwwwwwwwwwwwwwwwwwwwwwwwwwwwwwwwwwwwwwwwwwwwwwwwwwwwwwwwwwwwwwwwwwwwwwwwwwwwwwwwwwwwwwwwwwwwwwwwwwwwwwwwwwwwwwwwwwwwwwwwwwwwwwwwwwwwwwwwwwwwwwwwwwwwwwwwwwwwwwwwwwwwwwwwwwwwwwwwwwwwwwwwwwwwwwwwwwwwwwwwwwwwwwwwwwwwwwwwwwwwwwwwwwwwwwwwwwwwwwwwwwwwwwwwwwwwwwwwwwwwwwwwwwwwwwwwwwwwwwwwwwwwwwwwwwwwwwwwwwwwwwwwwwwwwwwwwwwwwwwwwwwwwwwwwwwwwwwwwwwwwwwwwwwwwwwwwwwwwwwwwwwwwwwwwwwwwwwwwwwwwwwwwwwwwwwwwwwwwwwwwwwwwwwwwwwwwwwwwwwwwwwwwwwwwwwwwwwwwwwwwwwwwwwwwwwwwwwwwwwwwwwwwwwwwwwwwwwwwwwwwwwwwwwwwwwwwwwwwwwwwwwwwwwwwwwwwwwwwwwwwwwwwwwwwwwwwwwwwwwwwwwwwwwwwwwwwwwwwwwwwwwwwwwwwwwwwwwwwwwwwwwwwwwwwwwwwwwwwwwwwwwwwwwwwwwwwwwwwwwwwwwwwwwwwwwwwwwwwwwwwwwwwwwwwwwwwwwwwwwwwwwwwwwwwwwwwwwwwwwwwwwwwwwwwwwwwwwwwwwwwwwwwwwwwwwwwwwwwwwwwwwwwwwwwwwwwwwwwwwwwwwwwwwwwwwwwwwwwwwwwwwwwwwwwwwwwwwwwwwwwwwwwwwwwwwwwwwwwwwwwwwwwwwwwwwwwwwwwwwwwwwwwwwwwwwwwwwwwwwwwwwwwwwwwwwwwwwwwwwwwwwwwwwwwwwwwwwwwwwwwwwwwwwwwwwwwwwwwwwwwwwwwwwwwwwwwwwwwwwwwwwwwwwwwwwwwwwwwwwwwwwwwwwwwwwwwwwwwwwwwwwwwwwwwwwwwwwwwwwwwwwwwwwwwwwwwwwwwwwwwwwwwwwwwwwwwwwwwwwwwwwwwwwwwwwwwwwwwwwwwwwwwwwwwwwwwwwwwwwwwwwwwwwwwwwwwwwwwwwwwwwwwwwwwwwwwwwwwwwwwwwwwwwwwwwwwwwwwwwwwwwwwwwwwwwwwwwwwwwwwwwwwwwwwwwwwwwwwwwwwwwwwwwwwwwwwwwwwwwwwwwwwwwwwwwwwwwwwwwwwwwwwwwwwwwwwwwwwwwwwwwwwwwwwwwwwwwwwwwwwwwwwwwwwwwwwwwwwwwwwwwwwwwwwwwwwwwwwwwwwwwwwwwwwwwwwwwwwwwwwwwwwwwwwwwwwwwwwwwwwwwwwwwwwwwwwwwwwwwwwwwwwwwwwwwwwwwwwwwwwwwwwwwwwwwwwwwwwwwwwwwwwwwwwwwwwwwwwwwwwwwwwwwwwwwwwwwwwwwwwwwwwwwwwwwwwwwwwwwwwwwwwwwwwwwwwwwwwwwwwwwwwwwwwwwwwwwwwwwwwwwwwwwwwwwwwwwwwwwwwwwwwwwwwwwwwwwwwwwwwwwwwwwwwwwwwwwwwwwwwwwwwwwwwwwwwwwwwwwwwwwwwwwwwwwwwwwwwwwwwwwwwwwwwwwwwwwwwwwwwwwwwwwwwwwwwwwwwwwwwwwwwwwwwwwwwwwwwwwwwwwwwwwwwwwwwwwwwwwwwwwwwwwwwwwwwwwwwwwwwwwwwwwwwwwwwwwwwwwwwwwwwwwwwwwwwwwwwwwwwwwwwwwwwwwwwwwwwwwwwwwwwwwwwwwwwwwwwwwwwwwwwwwwwwwwwwwwwwwwwwwwwwwwwwwwwwwwwwwwwwwwwwwwwwwwwwwwwwwwwwwwwwwwwwwwwwwwwwwwwwwwwwwwwwwwwwwwwwwwwwwwwwwwwwwwwwwwwwwwwwwwwwwwwwwwwwwwwwwwwwwwwwwwwwwwwwwwwwwwwwwwwwwwwwwwwwwwwwwwwwwwwwwwwwwwwwwwwwwwwwwwwwwwwwwwwwwwwwwwwwwwwwwwwwwwwwwwwwwwwwwwwwwwwwwwwwwwwwwwwwwwwwwwwwwwwwwwwwwwwwwwwwwwwwwwwwwwwwwwwwwwwwwwwwwwwwwwwwwwwwwwwwwwwwwwwwwwwwwwwwwwwwwwwwwwwwwwwwwwwwwwwwwwwwwwwwwwwwwwwwwwwwwwwwwwwwwwwwwwwwwwwwwwwwwwwwwwwwwwwwwwwwwwwwwwwwwwwwwwwwwwwwwwwwwwwwwwwwwwwwwwwwwwwwwwwwwwwwwwwwwwwwwwwwwwwwwwwwwwwwwwwwwwwwwwwwwwwwwwwwwwwwwwwwwwwwwwwwwwwwwwwwwwwwwwwwwwwwwwwwwwwwwwwwwwwwwwwwwwwwwwwwwwwwwwwwwwwwwwwwwwwwwwwwwwwwwwwwwwwwwwwwwwwwwwwwwwwwwwwwwwwwwwwwwwwwwwwwwwwwwwwwwwwwwwwwwwwwwwwwwwwwwwwwwwwwwwwwwwwwwwwwwwwwwwwwwwwwwwwwwwwwwwwwwwwwwwwwwwwwwwwwwwwwwwwwwwwwwwwwwwwwwwwwwwwwwwwwwwwwwwwwwwwwwwwwwwwwwwwwwwwwwwwwwwwwwwwwwwwwwwwwwwwwwwwwwwwwwwwwwwwwwwwwwwwwwwwwwwwwwwwwwwwwwwwwwwwwwwwwwwwwwwwwwwwwwwwwwwwwwwwwwwwwwwwwwwwwwwwwwwwwwwwwwwwwwwwwwwwwwwwwwwwwwwwwwwwwwwwwwwwwwwwwwwwwwwwwwwwwwwwwwwwwwwwwwwwwwwwwwwwwwwwwwwwwwwwwwwwwwwwwwwwwwwwwwwwwwwwwwwwwwwwwwwwwwwwwwwwwwwwwwwwwwwwwwwwwwwwwwwwwwwwwwwwwwwwwwwwwwwwwwwwwwwwwwwwwwwwwwwwwwwwwwwwwwwwwwwwwwwwwwwwwwwwwwwwwwwwwwwwwwwwwwwwwwwwwwwwwwwwwwwwwwwwwwwwwwwwwwwwwwwwwwwwwwwwwwwwwwwwwwwwwwwwwwwwwwwwwwwwwwwwwwwwwwwwwwwwwwwwwwwwwwwwwwwwwwwwwwwwwwwwwwwwwwwwwwwwwwwwwwwwwwwwwwwwwwwwwwwwwwwwwwwwwwwwwwwwwwwwwwwwwwwwwwwwwwwwwwwwwwwwwwwwwwwwwwwwwwwwwwwwwwwwwwwwwwwwwwwwwwwwwwwwwwwwwwwwwwwwwwwwwwwwwwwwwwwwwwwwwwwwwwwwwwwwwwwwwwwwwwwwwwwwwwwwwwwwwwwwwwwwwwwwwwwwwwwwwwwwwwwwwwwwwwwwwwwwwwwwwwwwwwwwwwwwwwwwwwwwwwwwwwwwwwwwwwwwwwwwwwwwwwwwwwwwwwwwwwwwwwwwwwwwwwwwwwwwwwwwwwwwwwwwwwwwwwwwwwwwwwwwwwwwwwwwwwwwwwwwwwwwwwwwwwwwwwwwwwwwwwwwwwwwwwwwwwwwwwwwwwwwwwwwwwwwwwwwwwwwwwwwwwwwwwwwwwwwwwwwwwwwwwwwwwwwwwwwwwwwwwwwwwwwwwwwwwwwwwwwwwwwwwwwwwwwwwwwwwwwwwwwwwwwwwwwwwwwwwwwwwwwww............wwwwwwwwwwwwwwwwwwwwwww....wwwwwwwwwwwwwwwwwwwwwwwwwwwwwwwwwwwwwwwwwwwwwwwww....................................................................................................................................................................................................................................................................................................................................................................................................................................................................................................................................................................................................................................................................................................................................................................................................................................................................................................................................................................................................................................................................................................................................................................................................................................................................................................................................................................................................................................................................................................................................................................................................................................................................................................................................................................................................................................................................................................................................................................................................................................................................................................................................................................................................................................................................................................................................................................................................................................................................................................................................................................................................................................................................................................................................................................................................................................................................................................................................................................................................................................................................................................................................................................................................................................................................................................................................................................................................................................................................................................................................................................................................................................................................................................................................................................................................................................................................................................................................................................................................................................................................................................................................................................................................................................................................................................................................................................................................................................................................................................................................................................................................................................................................................................................................................................................................................................................................................................................................................................................................................................................................................................................................................................................................................................................................................................................................................................................................................................................................................................................................................................................................................................................................................................................................................................................................................................................................................................................................................................................................................................................................................................................................................................................................................................................................................................................................................................................................................................................................................................................................................................................................................................................................................................................................................................................................................................................................................................................................................................................................................................................................................................................................................................................................................................................................................................................................................................................................................................................................................................................................................................................................................................................................................................................................................................................................................................................................................................................................................................................................................................................................................................................................................................................................................................................................................................................................................................................................................................................................................................................................................................................................................................................................................................................................................................................................wwwwwwwwwwwwwwwwwwwwwwwwwwwwwwwwwwwwwwwwwwwwwwwwwwwwwwwwwwwwwwwwwwwwwwwwwwwwwwwwwwwwwwwwwwwwwwwwwwwwwwwwwwwwwwwwwwwwwwwwwwwwwwwwwwwwwwwwwwwwwwwwwwwwwwwwwwwwwwwwwwwwwwwwwwwwwwwwwwwwwwwwwwwwwwwwwwwwwwwwwwwwwwwwwwwwwwwwwwwwwwwwwwwwwwwwwwwwwwwwwwwwwwwwwwwwwwwwwwwwwwwwwwwwwwwwwwwwwwwwwwwwwwwwwwwwwwwwwwwwwwwwwwwwwwwwwwwwwwwwwwwwwwwwwwwwwwwwwwwwwwwwwwwwwwwwwwwwwwwwwwwwww..wwwwwwwwwwwwwwwwwwwwwwwwwwwwwwwwwwwwwwwwwwwwwwwwwwwwwwwwwwwwwwwwwwwwwwwwwwwwwwwwwwwwwwwwwwwwwwwwwwwwwwwwww......................................wwwwwww............wwwww.....w.wwwwwwwwww.wwwwwwwwwwwww.wwwww.w.ww.ww.wwwwwwwwwwwwwwwwwwwwwwwwwwwwwwwwwwwwwwwwwwwwwwwwwwwwwwwwwwwwwwwwwwwwwwwwwwwwwwwwwwwwwwwwwwwwwwwwwwwwwwwwwwww.................................wwwwwwwwwwwwwwwwwwwwwwwwwwwwwwwwwwwwwwwwwwwwwwwwwwwwwwwwwwwwwwwwwwwwwwwwwwwwwwwwwwwwwwwwwwwwwwwwwwwwwwwwwwwwwwwwwwwwwwwwwwwwwwwwwwwwwwwwwwwwwwwwwwwwwwwwwwwwwwwwwwwwwwwwwwwwwwwwwwwwwwwwwwwwwwwwwwwwwwwwwwwwwwwwwwwwwwwwwwwwwwwwwwwwwwwwwwwwwwwwwwwwwwwwwwwwwwwwwwwwwwwwwwwwwwwwwwwwwwwwwwwwwwwwwwwwwwwwwwwwwwwwwwwwwwwwwwwwwwwwwwwwwwwwwwwwwwwwwwwwwwwwwwwwwwwwwwwwwwwwwww..................wwwwwwwwwwwwwwwwwwwwwwwwwwwwwwwwwwwwwwwwwwwwwwwwwwwwwwwwwwwwwwww..wwwwwwwwwwwwwwwwwwwwwwwwwwwwwwwwwwwwwwwwwwwwwwwwwwwwww........................................wwwwwwwwwwww....................................................................................................................wwwww.wwwwwwwwwwwwwwwwwwwwwwwwwwwwwwwwwwwwwwwwwwwwwwwwwwwwwwwwwwwwwwwwwwwwwwwwwwwwwwwwwwwwwwwwwwwwwwwwwwwwwwwwwwwwwwwwwwwwwwwwwwwwwwwwwwwwwww...................abcdefghij.......wwwwwwwwwwwwwwwwwwwwwwwwww......wwwwwwwwwwwwwwwwwwwwwwwwww...........wwwwwwwwwwwwwwwwwwwwwwwwwwwwwwwwwwwwwwwwwwwwwwwwwwwwwwwwwwwwwwwwwwwwwwwwwwwwwwwwwwwwwwwww...wwwwww..wwwwww..wwwwww..www...................................wwwwwwwwwwww.wwwwwwwwwwwwwwwwwwwwwwwwww.wwwwwwwwwwwwwwwwwww.ww.wwwwwwwwwwwwwww..wwwwwwwwwwwwww..................................wwwwwwwwwwwwwwwwwwwwwwwwwwwwwwwwwwwwwwwwwwwwwwwwwwwwwwwwwwwwwwwwwwwwwwwwwwwwwwwwwwwwwwwwwwwwwwwwwwwwwwwwwwwwwwwwwwwwwwwwwww............wwwwwwwwwwwwwwwwwwwwwwwwwwwwwwwwwwwwwwwwwwwww............wwwwwwwwwwwwwwwwwwwwwwwwwwwwwwwwwwwwwwwwwwwwwwwwwwwwwwwww.................ww....................................................................................................................................................................................................................................................wwwwwwwwwwwwwwwwwwwwwwwwwwwww...wwwwwwwwwwwwwwwwwwwwwwwwwwwwwwwwwwwwwwwwwwwwwwwww................wwwwwwwwwwwwwwwwwwwwwwwwwww....wwwwwwwwwwwwwwwwwwwwwwwwwwwwwwwwwwww.........wwwwwwwwwwwwwwwwwwwwwwwwwwwwww.....wwwwwwwwwwwwwwwwwwwwwwwwwwwwwwwwwwwwww..........wwwwwwwwwwwwwwwwwwwwwwwwwwwwww..wwwwwwwwwwwwwwwwwwwwwwwwwwwwwwwwwwww....wwwwwwww.wwwww..........................................wwwwwwwwwwwwwwwwwwwwwwwwwwwwwwwwwwwwwwwwwwwwwwwwwwwwwwwwwwwwwwwwwwwwwwwwwwwwwwwwwwwwwwwwwwwwwwwwwwwwwwwwwwwwwwwwwwwwwwwwwwwwwwwwwwwwwwwwwwwwwwwwwwwwwwwwwwwwww..abcdefghij......wwwwwwwwwwwwwwwwwwwwwwwwwwwwwwwwwwww....wwwwwwwwwwwwwwwwwwwwwwwwwwwwwwwwwwww....wwwwwwwwwwwwwwwwwwwwwwwwwwwwwwwwwwwwwwww........wwwwwwwwwwwwwwwwwwwwwwwwwwwwwwwwwwwwwwwwwwwwwwwwwwww............wwwwwwwwwww.wwwwwwwwwwwwwww.wwwwwww.ww.wwwwwwwwwww.wwwwwwwwwwwwwww.wwwwwww.ww...................................................................wwwwwwwwwwwwwwwwwwwwwwwwwwwwwwwwwwwwwwwwwwwwwwwwwwwwwwwwwwwwwwwwwwwwwwwwwwwwwwwwwwwwwwwwwwwwwwwwwwwwwwwwwwwwwwwwwwwwwwwwwwwwwwwwwwwwwwwwwwwwwwwwwwwwwwwwwwwwwwwwwwwwwwwwwwwwwwwwwwwwwwwwwwwwwwwwwwwwwwwwwwwwwwwwwwwwwwwwwwwwwwwwwwwwwwwwwwwwwwwwwwwwwwwwwwwwwwwwwwwwwwwwwwwwwwwwwwwwwwwwwwwwwwwwwwwwwwwwwwwwwwwwwwwwwww.........wwwwwwwwwwwwwwwwwwwwww..........wwwwwwww........................wwwwww.wwwwwwwwwwwwwwwwwwwwwwwwwwwwwwwwwwwwwwwwww.wwwwwwwww.....................................................................wwwwww..w.wwwwwwwwwwwwwwwwwwwwwwwwwwwwwwwwwwwwwwwwwwww.ww...w..wwwwwwwwwwwwwwwwwwwwwww..wwwwwwwwwwwwwwwwwwwwwwwwwwwwwww..wwwwwwwwwwwwwwwwwwwwwwwwwwwwwwwwwwwwww........wwwwwwwww................................................wwwwwwwwwwwwwwwwwww.ww.....wwwwwwwwwwwwwwwwwwwwwwwwwwwwwwwww....wwwwwwwwwwwwwwwwwwwwwwwwww......................................................................wwwwwwwwwwwwwwwwwwwwwwwwwwwwwwwwwwwwwwwwwwwwwwwwwwwwwwww....wwwwwwwwwwwwwwwwwwww..wwwwwwwwwwwwwwwwwwwwwwwwwwwwwwwwwwwwwwwwwwwwwww...............wwww.www.wwwwwwwwwwwwwwwwwwwwwwwwwwwww..........wwwwwwwww.......................wwwwwwwwwwwwwwwwwwwwwwwwwwwwwww.wwwwwwwwwwwwwwwwwwwwwwwwwwwwwwww................................wwwwwwww.wwwwwwwwwwwwwwwwwwwwwwwwwwww......wwwww................wwwwwwwwwwwwwwwwwwwwwwwwwwwwwwwwwwwwwwwwwwwwwwwwwwwwww..........wwwwwwwwwwwwwwwwwwwwww..wwwwwwwwwwwwwwwwwwwwwwwwwww.....wwwwwwwwwwwwwwwwwwwwwwwwww.......................wwwwwww................................................................................wwwwwwwwwwwwwwwwwwwwwwwwwwwwwwwwwwwwwwwwwwwwwwwwwwwwwwwwwwwwwwwwwwwwwwwww.......................................................wwwwwwwwwwwwwwwwwwwwwwwwwwwwwwwwwwwwwwwwwwwwwwwwwww.............wwwwwwwwwwwwwwwwwwwwwwwwwwwwwwwwwwwwwwwwwwwwwwwwwww.......wwwwwwwwwwwwwwwwwwwwwwwwwwwwwwwwwwwwwwwwww............abcdefghij......................................................................................................................................................................................................................................................................................................wwwwwwwwwwwwwwwwwwwwwwwwwwwwwww.wwwwwwwwwwwwwwwwwwwwwwwwwwwwwwwwwwwwwwwwww......ww..............................................................................wwwwwwwwwwwwwwwwwwwwwwwwwwwwwwwwwwwwwwww........wwwwwwwwwwwwwwwwwwwwww...........wwww...........................wwwwwwwwwwwwwwwwww..............................................wwwwwwwwwwwwwwwwwwwwwwwwwwww....................wwwwwwwwwwwwwwwwwwwwwww............wwwwwwwwwwwwwwwwwwwwwwwwwwwwwwwwwwwwwwwwwwwwwwwwwwwww..........................wwwwwwwwwwwwwwwwwwwwabcdefghij.ww..w.............wwwwwwwwwwwwwwwwwwwwwwwwwwwwwwwwwwwwwwwwwwwww................................wwwwwwwwwwwwwwwwwwwwwwwww.......abcdefghij.........wwwwwwwwwwwwwwwwwwwwwwwwwwwwwwwwwwww...............abcdefghij....w..w........wwwwwwwwwwwwwwwwwwwwwwwwwwwwwwwwwww...w............wwwwwwwwwwwwwwwwwwwwwwwwwwwwwwwwwwwwwwwwwwwwwwww..............wwww...........abcdefghijw.w....wwwwwwwwwwwwwwwwwwww...........wwwwwwwwwwwwwwwwww.wwwwwwwwwwwwwwwwwwwwwwwww....................................................................................wwwwwww.w.wwww.wwwwwwwwwwwwwww.wwwwwwwwww.......wwwwwwwwwwwwwwwwwwwwwwwwwwwwwwwwwwwwwwwwwwwwwww.................abcdefghij...........wwwwwwww..ww..wwwwwwwwwwwwwwwwwwwwww.wwwwwww.ww.wwwww...w..................w............wwwww..............................................................................................................................................................wwwwwwwwwwwwwwwwwwwwwwwwwwwwwwwwwwwwwwwwwwwwwwwwwwwww..................wwww.....abcdefghij.....www..............................wwwwwwwwwwwwwwwwwwwwwwwwwwwwwwwwwwwwwwwwwwwwwwww....................ww.w........abcdefghij......................................................................................................................................................................wwwwwwwwwwwwwwwwwwwwwwwwwwwwwwwwwwwwwwwwwwwwwww.........................................wwww....................................wwwwwwwwwwwwwwwwwwwwwwwwwwwwwwwwwwwwwwwwwwwwwwww....................w...........abcdefghij......................................wwwwwwwwwwwwwwwwwwwwwwwwwwwwwwwwwwwwwwwwwww.............w.......abcdefghij......................................................wwwwwwwwwwwwwwwwwwwwwwwwwww.....................abcdefghijww....wwwwwww.........................................................................................................................................................................................wwwwwwwwwwwwwwwwwwwwwwwwwwwwwwwwwwwwwwwwwwww....................................................................................................................wwwwwwwwwwwwwwwwwwwwwwwwwwwwwwwwwwwwwwwwwwwwwwwwwwwwwwwwwwwwwwwwabcdefghijwwwwwwwww............wwwwwwww..w..wwwwwwww.ww.wwwwwwwwwwwwwwwwwwwwwwww...............w.w..............abcdefghij......................................................................wwwwwwww..wwwwwwwwwwwwwwwwwwwwwwwwwwwwwwwwwwwwwww................w.w............................w..........wwwwwwwwwwwwwwwwwwwwwwwwwwwwwwwwwwwwwwww.......w.....................w...........wwwwwwwwwwwwwwwwwwwwwwwwwwwwwwwwwwwwwwwwwwwwww...................w..................wwwwwwwwwwwwwwwwwwwwwwwwwwwwwwwwwwwwwwwwwwwwwwwwwwwwwwwwwwwwwwwwwwwwwwwww.......................................................................................................................................................................................................................................................................wwwwwwwww.wwwwwwwwwwwwwwwwwwwwwwwwwwwwwwwwwwwww.................w...............abcdefghijwwwwwwwwwwwwwwwwwww.....wwwwwwwwwwwwwwwwwwwwwwwwwwwwww................................................................................................................wwwwwww.ww.wwwwwwwwwwwwwwwwwwwwwwwwwwwwwwwwwwwwww.....................w.........abcdefghij......wwwwww.ww.wwwwwwwwwwwwwwwwwwwwwwwwwwwwwwww..............w.......abcdefghij......................................................................................................................................................................................................................................................................................................................wwwwwwwwwwwwwwwwwww.............................................................................................................................................................................................w...............wwwwwwwwwwwwwwwwwwwww...........................................wwwwwwwwwwwwwwwwwwwwwwwwwwwwwwwwwwwwwwwwwwwwwwwwwwwwwwwwwwwwwwwwwwwwwwwwwwwwwwwwwwwwwwwwwwwwwwwwwwwwwwwwwwwwwwwwwwwwwwwwwwwwwwwwwwwwwwwwwwwwwwwwwwwwwwwwwwwwwwwwwwwwwwwwwwwwwwwwwwwwwwwwwwwwwwwwwwwwwwwwwwwwwwwwwwwwwwwwwwwwwwwwwwwwwwwwwwwwwwwwwwwwwwwwwwwwwwwwwwwwwwwwwwwwwwwwwwwwwwwwwwwwwwwwwwwwwwwwwwwwwwwwwwwwwwwwwwwwwwwwwwwwwwwwwwwwwwwwwwwwwwwwwwwwwwwwwwwwwwwwwwwwwwwwwwwwwwwwwwwwwwwwwwwwwwwwwwwwwwwwwwwwwwwwwwwwwwwwwwwwwwwwwwwwwwwwwwwwwwwwwwwwwwwwwwwwwwwwwwwwwwwwwwwwwwwwwwwwwwwwwwwwwwwwwwwwwwwwwwwwwwwwwwwwwwwwwwwwwwwwwwwwwwwwwwwwwwwwwwwwwwwwwwwwwwwwwwwwwwwwwwwwwwwwwwwwwwwwwwwwwwwwwwwwwwwwwwwwwwwwwwwwwwwwwwwwwwwwwwwwwwwwwwwwwwwwwwwwwwwwwwwwwwwwwwwwwwwwwwwwwwwwwwwwwwwwwwwwwwwwwwwwwwwwwwwwwwwwwwwwwwwwwwwwwwwwwwwwwwwwwwwwwwwwwwwwwwwwwwwwwwwwwwwwwwwwwwwwwwwwwwwwwwwwwwwwwwwwwwwwwwwwwwwwwwwwwwwwwwwwwwwwwwwwwwwwwwwwwwwwwwwwwwwwwwwwwwwwwwwwwwwwwwwwwwwwwwwwwwwwwwwwwwwwwwwwwwwwwwwwwwwwwwwwwwwwwwwwwwwwwwwwwwwwwwwwwwwwwwwwww......................................................................................................wwwwwwwwwwwwwwwwwwwwwwwwwwwwwwwwwwwwwwwwwwwwwwwwwwwwwwwwwwwwwwwwwwwwwwwwwwwwwwwwwwwwwwwwwwwwwwwwwwwwwwwwwwwwwww.................wwwwwwwwwwwwwwwwwwwwwwwwwwwwwwwwwwwwwwwwwwwwwwwwwwwwwwwwwwwwwwwwwwwwwwwwwwwwwwwwwwwwwwwwwwwwwwwwwwwwwwwwwwwwwwwwwwwwwwwwwwwwwwwwwwwwwwwwwwwwwwwwwwwwwwwwwwwwwwwwwwwwwwwwwwwwwwwwwwwwwwwwwwwwwwwwwwww............................................................................................................................................................................................................................................................................................................................................................................................................................................................................................................................................................................................................................................................................................................................................................................................................................................................................................................................................................................................................................................................................................................................................................................................................................................................................................................................................................................................................................................................................................................................................................................................................................................................................................................................................................................................................................................................................................................................................................................................................................................................................................................................................................................................................................................................................................................................................................................................................................................................................................................................................................................................................................................................................................................................................wwwwwwwwwwwwwwwwwwwwwwwwwwwwwwwwwwwwwwwwwwwwwwwwwwwwwwwwwwwwwwwwwwwwwwwwwwwwwwwwwwwwwwwwwwwwwwwww...............wwwwwwwwwwwwwwwwwwwwwwwwwwwwwwwwwwwwwwwwwwwwwwwwwwwwwwwwwwwwwwwwwwwwwwwwwwwwwwwwwwwwwwwwwwwwwwwwwwwwwwwwwwwwwwwwwwwwwwwwwwwwwwwwwwwwwwwwwwwwwwwwwwwwwwwwwwwwwwwwwwwwwwwwwwwwwwwwwwwwwwwwwwwwwwwwwwwwwwwwwwwwwwwwwwwwwwwwwwwwwwwwwwwwwwwwwwwwwwwwwwwwwwwwwwwwwwwwwwwwwwwwwwwwwwwwwwwwwwwwwwwwwwwwwwwwwwwwwwwwwwwwwwwwwwwwwwwwwwwwwwwwwwwwwwwwwwwwwwwwwwwwwwwwwwwwwwwwwwwwwwwwwwwwwwwwwwwwwwwwwwwwwwwwwwwwwwwwwwwwwwwwwwwwwwwwwwwwwwwwwwwwwwwwwwwwwwwwwwwwwwwwwwwwwwwwwwwwwwwwwwwwwwwwwwwwwwwwwwwwwwwwwwwwwwwwwwwwwwwwwwwwwwwwwwwwwwwwwwwwwwwwwwwwwwwwwwwwwwwwwwwwwwwwwwwwwwwwwwwwwwwwwwwwwwwwwwwwwwwwwwwwwwwwwwwwwwwwwwwwwwwwwwwwwwwwwwwwwwwwwwwwwwwwwwwwwwwwwwwwwwwwwwwwwwwwwwwwwwwwwwwwwwwwwwwwwwwwwwwwwwwwwwwwwwwwwwwwwwwwwwwwwwwwwwwwwwwwwwwwwwwwwwwwwwwwwwwwwwwwwwwwwwwwwwwwwwwwwwwwwwwwwwwwwwwwwwwwwwwwwwwwwwwwwwwwwwwwwwwwwwwwwwwwwwwwwwwwwwwwwwwwwwwwwwwwwwwwwwwwwwwwwwwwwwwwwwwwwwwwwwwwwwwwwwwwwwwwwwwwwwwwwwwwwwwwwwwwwwwwwwwwwwwwwwwwwwwwwwwwwwwwwwwwwwwwwwwwwwwwwwwwwwwwwwwwwwwwwwwwwwwwwwwwwwwwwwwwwwwwwwwwwwwwwwwwwwwwwwwwwwwwwwwwwwwwwwwwwwwwwwwwwwwwwwwwwwwwwwwwwwwwwwwwwwwwwwwwwwwwwwwwwwwwwww.................................................................................................................................................................................................................................................................................................................................................................................................................................................................................................................................................................................................................................................................................................................................................................................................................................................................................................................................................................................................................................................................................................................................................................................................................................................................................................................................................................................................................................................................................................................................................................................................................................................................................................................................................................................................................................................................................................................................................................................................................................................................................................................................................................................................................................................................................................................................................................................................................................................................................................................................................................................................................................................................................................................................................................................................................................................................................................................................................................................................................................................................................................................................................................................................................................................................................................................................................................................................................................................................................................................................................................................................................................................................................................................................................................................................................................................................................................................................................................................................................................................................................................................................................................................................................wwwwwwwwwwwwwwwwwwwwwwwwwwwwwwwwwwwwwwwwwwwwwwwwwwwwwwwwwwwwwwwwwwwwwwwwwwwwwwwwwwwwwwwwwwwwwwwwwwwwwwwwwwwwwwwwwwwwwwwwwwwwwwwwwwwwwwwwwwwwwwwwwwwwwwwwwwwwwwwwwwwwwwwwwwwwwwwwwwwwwwwwwwwwwwwwwwwwwwwwwwwwwwwwwwwwwwwwwwwwwwwwwwwwwwwwwwwwwwwwwwwwwwwwwwwwwwwwwwwwwwwwwwwwwwwwwwwwwwwwwwwwwwwwwwwwwwwwwwwwwwwwwwwwwwwwwwwwwwwwwwwwwwwwwwwwwwwwwwwwwwwwwwwwwwwwwwwwwwwwwwwwwwwwwwwwwwwwwwwwwwwwwwwwwwwwwwwwwwwwwwwwwwwwwwwwwwwwwwwwwwwwwwwwwwwwwwwwwwwwwwwwwwwwwwwwwwwwwwwwwwwwwwwwwwwwwwwwwwwwwwwwwwwwwwwwwwwwwwwwwwwwwwwwwwwwwwwwwwwwwwwwwwwwwwwwwwwwwwwwwwwwwwwwwwwwwwwwwwwwwwwwwwwwwwwwwwwwwwwwwww.........................................................................................................................................................................................................................................................................................................................................................................................................................................................................................................................................................................................................................................................................................................................................................................................................................................................................................................................................................................................................................................................................................................................................................................................................................................................................................................................................................................................................................................................................................................................................................................................................................................................................................................................................................................................................................................................................................................................................................................................................................................................................................................................................................................................................................................................................................................................................................................................................................................................................................................................................................................................................................................................................................................................................................................................................................................................................................................................................................................................................................................................................................................................................................................................................................................................................................................................................................................................................................................................................................................................................................................................................................................................................................................................................................................................................................................................................................................................................................................................................................................................................................................................................................................................................................................................................................................................................................................................................................................................................................................................................................................................................................................................................................................................................................................................................................................................................................................................................................................................................................................................................................................................................................................................................................................................................................................................................................................................................................................................................................................................................................................................................................................................................................................................................................................................................................................................................................................................................................................................................................................................................................................................................................................................................................................................................................................................................................................................................................................................................................................................................................................................................................................................................................................................................................................................................................................................................................................................................................................................................................................................................................................................................................................................................................................................................................................................................................................................................................................................................................................................................................................................................................................................................................................................................................................................................................................................................................................................................................................................................................................................................................................................................................................................................................................................................................................................................................................................................................................................................................................................................................................................................................................................................................................................................................................................................................................................................................................................................................................................wwwwwwwwwwwwwwwwwwwwwwwwwwwwwwwwwwwwwwwwwwwwwwwwwwwwwwwwwwwwwwwwwwwwwwwwwwwwwwwwwwwwwwwwwwwwwwwwwwwwwwwwwwwwwwwwwwwwwwwwwwwwwwwwwwwwwwwwwwwwwwwwwwwwwwwwwwwwwwwwwwwwwwwwwwwwwwwwwwwwwwwwwwwwwwwwwwwwwwwwwwwwwwwwwwwwwwwwwwwwwwwwwwwwwwwwwwwwwwwwwwwwwwwwwwwwwwwwwwwwwwwwwwwwwwwwwwwwwwwwwwwwwwwwwwwwwwwwwwwwwwwwwwwwwwwwwwwwwwwwwwwwwwwwwwwwwwwwwwwwwwwwwwwwwwwwwwwwwwwwwwwwwwwwwwwwwwwwwwwwwwwwwwwwwwwwwwwwwwwwwwwwwwwwwwwwwwwwwwwwwwwwwwwwwwwwwwwwwwwwwwwwwwwwwwwwwwwwwwwwwwwwwwwwwwwwwwwwwwwwwwwwwwwwwwwwwwwwwwwwwwwwwwwwwwwwwwwwwwwwwwwwwwwwwwwwwwwwwwwwwwwwwwwwwwwwwwwwwwwwwwwwwwwww.......wwwwwwwwwwwwwwwwwwwwwwwwwwwwwww.abcdefghij......wwwwwwwwwwwwwwwwwwwwwwwwwwwwwwwwwwwwwwwwwwwwwwwwwwwwwwwwwwwwwwwwwwwwwwwwwwwwwww.abcdefghij......wwwwwwwwwwwwwwwwwwwwwwwwwwwwww..................wwwwwwwwwwwwwwwwwwwwwwwwwwwwwwwwwwwwwwwwwwwwwwww................wwww............abcdefghij.wwwwwww.wwwwwwwwwwwwwwwwwwwww.....wwwwwwwwwwwwwwwwwww................................................................................................................................................................................................................................................................................................................................................................................................................................................................................................................................................................................................................................................................................................................wwwwwwwwwwwwwwwwwwwwwwwwwwwwwwwwwwwwwwwwwwwwwwwwwwwwwwwwwwwwwwwwwwwwwwwwwwwwwwwwwwwwwww.........................................................................................................wwwwwwwwwwwwwwwwwwwwwwwwwwwwwwwwwwwwwwwwwwwwwwwwwwwwwwwwwwwwwwwwwwwwwwwwwww.....w..................................................................wwwwwwwwwwwww................................................................ww.w............................wwwwwwwwwwwwwwwwwwwwwwwwwwwwwwwwwwwwwwwwwwwwwwwwwwwwwwwwwwwwwwwwwwwwwwwwwwwwwwwwwwwwwwwwwwwwwwwwwwwwwwwwwwwwwwwwwwwwwwwwwwwwwwwwwwwwwwwwwwwwwwwwwwwwwwwwwwwwwwwwwwwwwwwwwwwwwwwwwwwwwwwwwwwwwwwwwwwwwwwwwwwwwwwwwwwwwwwwwwwwwwwwwwwwwwwwwwwwwwwwwwwwwwwwwwwwwwwwwwwwwwwwwwwwwwwwwwwwwwwwwwwwwwwwwwwwwwwwwwwwwwwwwwwwwwwwwwwwwwwwwwwwwwwwwwwwwwwwwwwwwwwwwwwwwwwwwwwwwwwwwwwwwwwwwwwwwwwwwwwwwwwwwwwwwwwwwwwwwwwwwwwwwwwwwwwwwwwwwwwwwwwwwwwwwwwwwwwwwwwwwwwwwwwwwwwwwwwwwwwwwwwwwwwwwwwwwwwwwwwwwwwwwwwwwwwwwwwwwwwwwwwwwwwwwwwwwwwwwwwwwwwwwwwwwwwwwwwwwwwwwwwwwwwwwwwwwwwwwwwwwwwwwwwwwwwwwwwwwwwwwwwwwwwwwwwwwwwwwwwwwwwwwwwwwwwwwwwwwwwwwwwwwwwwwwwwwwwwwwwwwwwwwwwwwwwwwwwwwwwwwwwwwwwwwwwwwwwwwwwwwwwwwwwwwwwwwwwwwwwwwwwwwwwwwwwwwwwwwwwwwwwwwwwwwwwwwwwwwwwwwwwwwwwwwwwwwwwwwwwwwwwwwwwwwwwwwwwwwwwwwwwwwwwwwwwwwwwwwwwwwwwwwwwwwwwwwwwwwwwwwwwwwwwwwwwwwwwwwwwwwwwwwwwwwwwwwwwwwwwwwwwwwwwwwwwwwwwwwwwwwwwwwwwwwwwwwwwwwwwwwwwwwwwwwwwwwwwwwwwwwwwwwwwwwwwwwwwwwwwwwwwwwwwwwwwwwwwwwwwwwwwwwwwwwwwwwwwwwwwwwwwwwwwwwwwwwwwwwwwwwwwwwwwwwwwwwwwwwwwwwwwwwwwwwwwwwwwwwwwwwwwwwwwwwwwwwwwwwwwwwwwwwwwwwwwwwwwwwwwwwwwwwwwwwwwwwwwwwwwwwwwwwwwwwwwwwwwwwwwwwwwwwwwwwwwwwwwwwwwwwwwwwwwwwwwwwwwwwwwwwwwwwwwwwwwwwwwwwwwwwwwwwwwwwwwwwwwwwwwwwwwwwwwwwwwwwwwwwwwwwwwwwwwwwwwwwwwwwwwwwwwwwwwwwwwwwwwwwwwwwwwwwwwwwwwwwwwwwwwwwwwwwwwwwwwwwwwwwwwwwwwwwwwwwwwwwwwwwwwwwwwwwwwwwwwwwwwwwwwwwwwwwwwwwwwwwwwwwwwwwwwwwwwwwwwwwwwwwwwwwwwwwwwwwwwwwwwwwwwwwwwwwwwwwwwwwwwwwwwwwwwwwwwwwwwwwwwwwwwwwwwwwwwwwwwwwwwwwwwwwwwwwwwwwwwwwwwwwwwwwwwwwwwwwwwwwwwwwwwwwwwwwwwwwwwwwwwwwwwwwwwwwwwwwwwwwwwwwwwwwwwwwwwwwwwwwwwwwwwwwwwwwwwwwwwwwwwwwwwwwwwwwwwwwwwwwwwwwwwwwwwwwwwwwwwwwwwwwwwwwwwwwwwwwwwwwwwwwwwwwwwwwwwwwwwwwwwwwwwwwwwwwwwwwwwwwwwwwwwwwwwwwwwwwwwwwwwwwwwwwwwwwwwwwwwwwwwwwwwwwwwwwwwwwwwwwwwwwwwwwwwwwwwwwwwwwwwwwwwwwwwwwwwwwwwwwwwwwwwwwwwwwwwwwwwwwwwwwwwwwwwwwwwwwwwwwwwwwwwwwwwwwwwwwwwwwwwwwwwwwwwwwwwwwwwwwwwwwwwwwwwwwwwwwwwwwwwwwwwwwwwwwwwwwwwwwwwwwwwwwwwwwwwwwwwwwwwwwwwwwwwwwwwwwwwwwwwwwwwwwwwwwwwwwwwwwwwwwwwwwwwwwwwwwwwwwwwwwwwwwwwwwwwwwwwwwwwwwwwwwwwwwwwwwwwwwwwwwwwwwwwwwwwwwwwwwwwwwwwwwwwwwwwwwwwwwwwwwwwwwwwwwwwwwwwwwwwwwwwwwwwwwwwwwwwwwwwwwwwwwwwwwwwwwwwwwwwwwwwwwwwwwwwwwwwwwwwwwwwwwwwwwwwwwwwwwwwwwwwwwwwwwwwwwwwwwwwwwwwwwwwwwwwwwwwwwwwwwwwwwwwwwwwwwwwwwwwwwwwwwwwwwwwwwwwwwwwwwwwwwwwwwwwwwwwwwwwwwwwwwwwwwwwwwwwwwwwwwwwwwwwwwwwwwwwwwwwwwwwwwwwwwwwwwwwwwwwwwwwwwwwwwwwwwwwwwwwwwwwwwwwwwwwwwwwwwwwwwwwwwwwwwwwwwwwwwwwwwwwwwwwwwwwwwwwwwwwwwwwwwwwwwwwwwwwwwwwwwwwwwwwwwwwwwwwwwwwwwwwwwwwwwwwwwwwwwwwwwwwwwwwwwwwwwwwwwwwwwwwwwwwwwwwwwwwwwwwwwwwwwwwwwwwwwwwwwwwwwwwwwwwwwwwwwwwwwwwwwwwwwwwwwwwwwwwwwwwwwwwwwwwwwwwwwwwwwwwwwwwwwwwwwwwwwwwwwwwwwwwwwwwwwwwwwwwwwwwwwwwwwwwwwwwwwwwwwwwwwwwwwwwwwwwwwwwwwwwwwwwwwwwwwwwwwwwwwwwwwwwwwwwwwwwwwwwwwwwwwwwwwwwwwwwwwwwwwwwwwwwwwwwwwwwwwwwwwwwwwwwwwwwwwwwwwwwwwwwwwwwwwwwwwwwwwwwwwwwwwwwwwwwwwwwwwwwwwwwwwwwwwwwwwwwwwwwwwwwwwwwwwwwwwwwwwwwwwwwwwwwwwwwwwwwwwwwwwwwwwwwwwwwwwwwwwwwwwwwwwwwwwwwwwwwwwwwwwwwwwwwwwwwwwwwwwwwwwwwwwwwwwwwwwwwwwwwwwwwwwwwwwwwwwwwwwwwwwwwwwwwwwwwwwwwwwwwwwwwwwwwwwwwwwwwwwwwwwwwwwwwwwwwwwwwwwwwwwwwwwwwwwwwwwwwwwwwwwwwwwwwwwwwwwwwwwwwwwwwwwwwwwwwwwwwwwwwwwwwwwwwwwwwwwwwwwwwwwwwwwwwwwwwwwwwwwwwwwwwwwwwwwwwwwwwwwwwwwwwwwwwwwwwwwwwwwwwwwwwwwwwwwwwwwwwwwwwwwwwwwwwwwwwwwwwwwwwwwwwwwwwwwwwwwwwwwwwwwwwwwwwwwwwwwwwwwwwwwwwwwwwwwwwwwwwwwwwwwwwwwwwwwwwwwwwwwwwwwwwwwwwwwwwwwwwwwwwwwwwwwwwwwwwwwwwwwwwwwwwwwwwwwwwwwwwwwwwwwwwwwwwwwwwwwwwwwwwwwwwwwwwwwwwwwwwwwwwwwwwwwwwwwwwwwwwwwwwwwwwwwwwwwwwwwwwwwwwwwwwwwwwwwwwwwwwwwwwwwwwwwwwwwwwwwwwwwwwwwwwwwwwwwwwwwwwwwwwwwwwwwwwwwwwwwwwwwwwwwwwwwwwwwwwwwwwwwwwwwwwwwwwwwwwwwwwwwwwwwwwwwwwwwwwwwwwwwwwwwwwwwwwwwwwwwwwwwwwwwwwwwwwwwwwwwwwwwwwwwwwwwwwwwwwwwwwwwwwwwwwwwwwwwwwwwwwwwwwwwwwwwwwwwwwwwwwwwwwwwwwwwwwwwwwwwwwwwwwwwwwwwwwwwwwwwwwwwwwwwwwwwwwwwwwwwwwwwwwwwwwwwwwwwwwwwwwwwwwwwwwwwwwwwwwwwwwwwwwwwwwwwwwwwwwwwwwwwwwwwwwwwwwwwwwwwwwwwwwwwwwwwwwwwwwwwwwwwwwwwwwwwwwwwwwwwwwwwwwwwwwwwwwwwwwwwwwwwwwwwwwwwwwwwwwwwwwwwwwwwwwwwwwwwwwwwwwwwwwwwwwwwwwwwwwwwwwwwwwwwwwwwwwwwwwwwwwwwwwwwwwwwwwwwwwwwwwwwwwwwwwwwwwwwwwwwwwwwwwwwwwwwwwwwwwwwwwwwwwwwwwwwwwwwwwwwwwwwwwwwwwwwwwwwwwwwwwwwwwwwwwwwwwwwwwwwwwwwwwwwwwwwwwwwwwwwwwwwwwwwwwwwwwwwwwwwwwwwwwwwwwwwwwwwwwwwwwwwwwwwwwwwwwwwwwwwwwwwwwwwwwwwwwwwwwwwwwwwwwwwwwwwwwwwwwwwwwwwwwwwwwwwwwwwwwwwwwwwwwwwwwwwwwwwwwwwwwwwwwwwwwwwwwwwwwwwwwwwwwwwwwwwwwwwwwwwwwwwwwwwwwwwwwwwwwwwwwwwwwwwwwwwwwwwwwwwwwwwwwwwwwwwwwwwwwwwwwwwwwwwwwwwwwwwwwwwwwwwwwwwwwwwwwwwwwwwwwwwwwwwwwwwwwwwwwwwwwwwwwwwwwwwwwwwwwwwwwwwwwwwwwwwwwwwwwwwwwwwwwwwwwwwwwwwwwwwwwwwwwwwwwwwwwwwwwwwwwwwwwwwwwwwwwwwwwwwwwwwwwwwwwwwwwwwwwwwwwwwwwwwwwwwwwwwwwwwwwwwwwwwwwwwwwwwwwwwwwwwwwwwwwwwwwwwwwwwwwwwwwwwwwwwwwwwwwwwwwwwwwwwwwwwwwwwwwwwwwwwwwwwwwwwwwwwwwwwwwwwwwwwwwwwwwwwwwwwwwwwwwwwwwwwwwwwwwwwwwwwwwwwwwwwwwwwwwwwwwwwwwwwwwwwwwwwwwwwwwwwwwwwwwwwwwwwwwwwwwwwwwwwwwwwwwwwwwwwwwwwwwwwwwwwwwwwwwwwwwwwwwwwwwwwwwwwwwwwwwwwwwwwwwwwwwwwwwwwwwwwwwwwwwwwwwwwwwwwwwwwwwwwwwwwwwwwwwwwwwwwwwwwwwwwwwwwwwwwwwwwwwwwwwwwwwwwwwwwwwwwwwwwwwwwwwwwwwwwwwwwwwwwwwwwwwwwwwwwwwwwwwwwwwwwwwwwwwwwwwwwwwwwwwwwwwwwwwwwwwwwwwwwwwwwwwwwwwwwwwwwwwwwwwwwwwwwwwwwwwwwwwwwwwwwwwwwwwwwwwwwwwwwwwwwwwwwwwwwwwwwwwwwwwwwwwwwwwwwwwwwwwwwwwwwwwwwwwwwwwwwwwwwwwwwwwwwwwwwwwwwwwwwwwwwwwwwwwwwwwwwwwwwwwwwwwwwwwwwwwwwwwwwwwwwwwwwwwwwwwwwwwwwwwwwwwwwwwwwwwwwwwwwwwwwwwwwwwwwwwwwwwwwwwwwwwwwwwwwwwwwwwwwwwwwwwwwwwwwwwwwwwwwwwwwwwwwwwwwwwwwwwwwwwwwwwwwwwwwwwwwwwwwwwwwwwwwwwwwwwwwwwwwwwwwwwwwwwwwwwwwwwwwwwwwwwwwwwwwwwwwwwwwwwwwwwwwwwwwwwwwwwwwwwwwwwwwwwwwwwwwwwwwwwwwwwwwwwwwwwwwwwwwwwwwwwwwwwwwwwwwwwwwwwwwwwwwwwwwwwwwwwwwwwwwwwwwwwwwwwwwwwwwwwwwwwwwwwwwwwwwwwwwwwwwwwwwwwwwwwwwwwwwwwwwwwwwwwwwwwwwwwwwwwwwwwwwwwwwwwwwwwwwwwwwwwwwwwwwwwwwwwwwwwwwwwwwwwwwwwwwwwwwwwwwwwwwwwwwwwwwwwwwwwwwwwwwwwwwwwwwwwwwwwwwwwwwwwwwwwwwwwwwwwwwwwwwwwwwwwwwwwwwwwwwwwwwwwwwwwwwwwwwwwwwwwwwwwwwwwwwwwwwwwwwwwwwwwwwwwwwwwwwwwwwwwwwwwwwwwwwwwwwwwwwwwwwwwwwwwwwwwwwwwwwwwwwwwwwwwwwwwwwwwwwwwwwwwwwwwwwwwwwwwwwwwwwwwwwwwwwwwwwwwwwwwwwwwwwwwwwwwwwwwwwwwwwwwwwwwwwwwwwwwwwwwwwwwwwwwwwwwwwwwwwwwwwwwwwwwwwwwwwwwwwwwwwwwwwwwwwwwwwwwwwwwwwwwwwwwwwwwwwwwwwwwwwwwwwwwwwwwwwwwwwwwwwwwwwwwwwwwwwwwwwwwwwwwwwwwwwwwwwwwwwwwwwwwwwwwwwwwwwwwwwwwwwwwwwwwwwwwwwwwwwwwwwwwwwwwwwwwwwwwwwwwwwwwwwwwwwwwwwwwwwwwwwwwwwwwwwwwwwwwwwwwwwwwwwwwwwwwwwwwwwwwwwwwwwwwwwwwwwwww........wwwwwwwwwwwwwwwwwwwwwwwwwwwwwwwwwwwwwwwwwwwwwwwwwwwwwwwwwwwwwwwwwwwwwwwwwwwwwwwwwwwwwwwwwwwwwwwwwwwwwwwwwwwwwwwwwwwwwwwwwwwwwwwwwwwwwwwwwwwwwwwwwwwwwwwwwwwwwwwwwwwwwwwwwwwwwwwwwwwwwwwwwwwwwwwwwwwwwwwwwwwwwwwwwwwwwwwwwwwwwwwwwwwwwwwwwwwwwwwwwwwwwwwwwwwwwwwwwwwwwwwwwwwwwwwwwwwwwwwwwwwwwwwwwwwwwwwwwwwwwwwwwwwwwwwwwwwwwwwwwwwwwwwwwwwwwwwwwwwwwwwwwwwwwwwwwwwwwwwwwwwwwwwwwwwwwwwwwwwwwwwwwwwwwwwwwwwwwwwwwwwwwwwwwwwwwwwwwwwwwwwwwwwwwwwwwwwwwwwwwwwwwwwwwwwwwwwwwwwwwwwwwwwwwwwwwwwwwwwwwwwwwwwwwwwwwwwwwwwwwwwwwwwwwwwwwwwwwwwwwwwwwwwwwwwwwwwwwwwwwwwwwwwwwwwwwwwwwwwwwwwwwwwwwwwwwwwwwwwwwwwwwwwwwwwwwwwwwwwwwwwwwwwwwwwwwwwwwwwwwwwwwwwwwwwwwwwwwwwwwwwwwwwwwwwwwwwwwwwwwwwwwwwwwwwwwwwwwwwwwwwwwwwwwwwwwwwwwwwwwwwwwwwwwwwwwwwwwwwwwwwwwwwwwwwwwwwwwwwwwwwwwwwwwwwwwwwwwwwwwwwwwwwwwwwwwwwwwwwwwwwwwwwwwwwwwwwwwwwwwwwwwwwwwwwwwwwwwwwwwwwwwwwwwwwwwwwwwwwwwwwwwwwwwwwwwwwwwwwwwwwwwwwwwwwwwwwwwwwwwwwwwwwwwwwwwwwwwwwwwwwwwwwwwwwwwwwwwwwwwwwwwwwwwwwwwwwwwwwwwwwwwwwwwwwwwwwwwwwwwwwwwwwwwwwwwwwwwwwwwwwwwwwwwwwwwwwwwwwwwwwwwwwwwwwwwwwwwwwwwwwwwwwwwwwwwwwwwwwwwwwwwwwwwwwwwwwwwwwwwwwwwwwwwwwwwwwwwwwwwwwwwwwwwwwwwwwwwwwwwwwwwwwwwwwwwwwwwwwwwwwwwwwwwwwwwwwwwwwwwwwwwwwwwwwwwwwwwwwwwwwwwwwwwwwwwwwwwwwwwwwwwwwwwwwwwwwwwwwwwwwwwwwwwwwwwwwwwwwwwwwwwwwwwwwwwwwwww..........................................wwwwwwwww.......................................................................................................................................................................................................................................................................................................................................................................................................................................................................................................................................................................................................................................................................................................................................................................................................................................................................................................................................................................................................................................................................................................................................................................................................................................................................................................................................................................................................................................................................................................................................................................................................................................................................................................................................................................................................................................................................................................................................................................................................................................................................................................................................................................................................................................................................................................................................................................................................................................................................................................................................................................................................................................................................................................................................................................................................................................................................................................................................................................................................................................................................................................................................................................................................................................................................................................................................................................................................................................................................................................................................................................................................................................................................................................................................................................................................................................................................................................................................................................................................................................................................................................................................................................................................................................................................................................................................................................................................................................................................................................................................................................................................................................................................................................................................................................................................................................................................................................................................................................................................................................................................................................................................................................................................................................................................................................................................................................................................................................................................................................................................................................................................................................................................................................................................................................................................................................................................................................................................................................................................................................................................................................................................................................................................................................................................................................................................................................................................................................................................................................................................................................................................................................................................................................................................................................................................................................................................................................................................................................................................................................................................................................................................................................................................................................................................................................................................................................................................................................................................................................................................................................................................................................................................................................................................................................................................................................................................................................................................................................................................................................................................................................................................................................................................................................................................................................................................................................................................................................................................................................................................................................................................................................................................................................................................................................................................................................................................................................................................................................................................................................................................................................................................................................................................................................................................................................wwww.wwwwwww.ww.wwwwwwwwwwwwwwwwwwwwwwwwwwwwwwwwwwwwwwwwwwwwwwwwwwwwwwwwwwwwwwwwwwwwwwwwwwwwwwwwwwwwwwwwwwwwwwwwwwwwwwwwwwwwwwwwwwwwwwwwwwwwwwwwwwwwwwwwwwwwwwwwwwwwwwwwwwwwwwwwwwwwwwwwwwwwwwwwwwwwwwwwwwwwwwwwwwwwwwwwwwwwwwwwwwwwwwwwwwwwwwwwwwwwwwwwwwwwwwwwwwwwwwwwwwwwwwwwwwwwwwwwwwwwwwwwwwwwwwwwwwwwwwwwwww.............................................www.................wwww........wwwwwwwwwwwwwwwwwwwwwwwwwwwwwwwwwwwwwwwwwwwwwwwwwwwwwwwwwwwwwwwwwwwwwwwwwwwwwwwwwwwwwwwwwwwwwwwwwwwwwwwwwwwwwwwwwwwwwwwwwwwwwwwwwwwwwwwwwwwwwwwwwwwwwwwwwwwwwwwwwwwwwwwwwwwwwwwwwwwwwwwwwwwwwwwwwwwwwwwwwwwwwwwwwwwwwwwwwwwwwwwwwwwwwwwwwwwwwwwwwwwwwwwwwwwwwwwwwwwwwwwwwwwwwwwwwwwwwwwwwwwwwwwwwwwwwwwwwwwwwwwwwwwwwwwwwwwwwwwwwwwwwwwwwwwwwwwwwwwwwwwwwwwwwwwwwwwwwwwwwwwwwwwwwwwwwwwwwwwwwwwwwwwwwwwwwwww....................................................................................................................................................................................................................................................................................................................................................................................................................................................................................................................................................................................................................................................................................................................................................................................................................................................................................................................................................................................................................................................................................................................................................................................................................................................................................................................................................................................................................................................................................................................................................................................................................................................................................................................................................................................................................................................................................................................................................................................................................................................................................................................................................................................................................................................................................................................................................................................................wwwwwwwwwwwwwwwwwwwwwwwwwwwwwwwwwwwwwwwwwwwwwwwwwwwwwwwwwwwwwwwwwwwwwwwwwwwwwwwwwwwwwwwwwwwwwwwwwwwwwwwwwww.....wwwwwwwwwwwww...wwwwwwwww.......wwwwwwwwww......................................................................................................................................................................................................................................................................................................................................................................................................................................................................................................................................................................................................................................................................................................................................................................................................................................................................................................................................................................................................................................................................................................................................................................................................................................................................................................................................................................................................................................................................................................................................................................................................................................................................................................................................................................................................................................................................................................................................................................................................................................................................................................................................................................................................................................................................................................................................................................................................................................................................................................................................................................................................................................................................................................................................................................................................................................................................................................................................................................................................................................................................................................................................................................................................................................................................................................................................................................................................................................................................................................................................................................................................................................................................................................................................................................................................................................................................................................................................................................................................................................................................................................................................................................................................................................................................................................................................................................................................................................................................................................................................................................................................................................................................................................................................................................................................................................................................................................................................................................................................................................................................................................................................................................................................................................................................................................................................................................................................................................................................................................................................................................................................................................................................................................................................................................................................................................................................................................................................wwwwwwwwwwwwwwwwwwww............................................................................................................wwwwwwwwwwwwwwwwwwwwwwwww.......................................................................................................................................wwwwwwwwwwwwwwwwwwwwwwwwwwwwwwwwwwwwwwwwwwwwwwwwwwwwwwwwwwwwwwwwwwwwwwwwwwwwwwwwwwwww.wwwwwwwwwwwwwwwwwwwwwwwwwwwwwwwwwwwwwwwwwwwwwwwwwwwwwwwwwwwwwwwwwwwwwww.ww..w..ww..wwww.wwwwwwwwwwww.w.wwwwwww.wwwwwwwwwwwwwwwwwwwwwwwwwwwwwwwwwwwwwwwwwwwwwwwwwwwwwwwwwwwwwwwww.wwww..wwwwwwww.wwwwwww.wwwwwwwwwwwwwwwwwwwwwwwwwwww.wwww.wwwww.w...wwwwwww.wwwwwwwwwwwwwwwwwwwwwwwwwwwwwwwwwwwwwwwwwwwwwwwwwwwwwwwwwwwwwwwwwwwwwwwwwwwwwwwwwwwwwwwwwwwwwwwwwwwwwwwwwwwwwwwwwwwwwwwwwwwwwwwwwwwwwwwwwwwwwwwwwwwwwwwwwwwwwwwwwwwwwwwwwwwwwwwwwwwwwwwwwwwwwwwwwwwwwwwwwwwwwwwwwwwwwwwwwwwwwwwwwwwwwwwwwwwwwwwwwwwwwwwwwwwwwwwwwwwwwwwwwwwwwwwwwwwwwwwwwwwwwwwwwwwwwwwwwwwwwwwwwwwwwwwwwwwwwwwwwwwwwwwwwwwwwwwwwwww..wwwwwwwwwwwwwwwwwwwwwwwww.wwwwwwwwwwwwwwwwwwwwwwwww.wwwwwwwwwwwwwwwwwwwwwwwwwwwwwww.wwwwwwwwwwwwwwwwwwwwwwwww.wwwwwwwwwwwwwwwwwwwwwwwwwwwwwww.wwwwwwwwwwwwwwwwwwwwwwwww.wwwwwwwwwwwwwwwwwwwwwwwwwwwwwww.wwwwwwwwwwwwwwwwwwwwwwwww.wwwwwwwwwwwwwwwwwwwwwwwwwwwwwww.wwwwwwwwwwwwwwwwwwwwwwwww.wwwwwwww..abcdefghijabcdefghijabcdefghijabcdefghijabcdefghij................................................................................................................................................................................................................................................................................................................................................................................................................................................................................................................................................................................................................................................................................................................................................................................................................................................................................................................................................................................................................................................................................................................................................................................................................................................................................................................................................................................................................................................................................................................................................................................................................................................................................................................................................................................................................................................................wwwwwwwwwwwwwwwwwwwwwwwwwwwwwww.................................................................................................................................................................................................................................................................................................................................................................................................................................................................................................wwwwwwwwwwwwwwwwwwwwwwwwwwwwwwwwwwwwwwwwwwwww..........wwwwwww..abcdefghij....w.................................................................................................................................................................................................................................................................................................................................wwwwwwwwwwwwwwwwwwwwwwwwwwwwww..................wwwwwwwwwwwwwwwwwwwwwwwwwwwwwwwwwwwwwwwwwwww....abcdefghij......................................................................................................................................................................................................................................................................................................................................................................................................................................................................................................................................................................................................................................................................................................................................................................................................................................................................................................................................................................................................................................................................................................................................................................................................................................................................................................wwwwwww.wwww.ww.wwwwwwwwwwwwwww.wwwwwwwwwwwwwwwwwwwwwwwwwwwwwwwwwwwwwwwwwwwwwwwwwwwwwwwwwwwwwwwwwwwwwwwwwwwwwwwwwwwwwwwwwwwwwwwwwwwwwwwwwwwwwwwwwwwwwwwwwwwwwwwwwwwwwwwwwwwwwwwwwwwwwwwwwwwwwwwwwwwwwwwwwwwwwwwwwwwwwwwwwwwwwwwwwwwww..wwwwwwwww................................................wwwwwwwwwwwwwwwwwwwwwwwwwwwwwwwwwwwwwwwwwwwwwwwwwwwwwwwwwwwwwwwwwwww.......w....abcdefghij.......................................................................................................................................................................................................................................................................................................................................................................................................................................................................................................................................................................................................................................................................................................................................................................................................................wwwwwwwwwwwwwwwwwwwwwwwwwwwwwwwwwwwwwwwwwwwwwwwwwwwwwwwwwww.www.wwww............................................................................wwwwwwwwwwwwwwwwwwwwwwwwwwwwwwwwwwwwwwwwwwwww.wwwwwwwwwwwwwww..................................................................................................................................................................................................wwww.wwwwwwwwwwwwwwwwwwwwwwwwwww.ww.w..w.wwwwwwwwww.wwww.w.w......w....w.w.w.www.ww.w..w.w.w.w.w.ww.w..wwww.wwwwwww.wwww.wwww.w.wwwwwwwwww.wwwwwwwwwwwwwwwww.....www.wwwww.wwwwwwwwwwwwwwwww....................................................................................................................................................................................................................................................................................................................................................................................................................................................................................................................................................................................................wwwwwwwwwwwww...................................................................................................................................................................................................................................................................................................................................................................................................................................................................................................................................................................................................................................................................................................................................................................................................................................................................................................................................................................................................................................................................................................................................................................................................................................................................................................................................................................................................................................................................................................................................................................................................................................................................................................................................................................................................................................................................................................................................................................................................................................................................................................................................................................................................................................................................................................................................................................................................................................................................................................................................................................................................................................................................................................................................................................................................................................................................................................abcdefghij......................................................................................................................................................................................................................................................................................................................................................................................................................................................................................................................................................................................................................................................................................................................................................................................................................................................................................................................................................................................................................................................................"
CategoryOf(c) ==
  IF c \in 0..(Len(Category) - 1) THEN SubSeq(Category, c + 1, c + 1) ELSE "."

\* \d of a str pattern: the decimal digits of every script, which are also
\* the characters that int() takes as digits.
IsDigit(c) == CategoryOf(c) \in DOMAIN DigitValue

\* The value of the digit c.
DigitVal(c) == DigitValue[CategoryOf(c)]

\* \s of a str pattern, which is also what str.strip() strips: the
\* characters c with c.isspace().
Whitespace ==
  { 9, 10, 11, 12, 13, 28, 29, 30, 31, 32, 133, 160, 5760, 8192, 8193, 8194,
   8195, 8196, 8197, 8198, 8199, 8200, 8201, 8202, 8232, 8233, 8239, 8287,
   12288 }

\* The characters beyond the table that \w of a str pattern takes, as
\* ranges <<first, last>>.
HighWordRanges ==
  { <<131072, 173791>>, <<173824, 177976>>, <<177984, 178205>>,
    <<178208, 183969>>, <<183984, 191456>>, <<194560, 195101>>,
    <<196608, 201546>> }

\* \w of a str pattern: c.isalnum() or "_"; no character is outside the text
\* (c = -1).
IsWordChar(c) ==
  IF c < Len(Category) THEN CategoryOf(c) # "."
  ELSE InRanges(c, HighWordRanges)

\* The number that the five letters of the table tab for character c stand
\* for: the letters at positions 5 * c + 1 to 5 * c + 5 are the decimal
\* digits of the number plus 50000.
Delta(tab, c) ==
  LET n == 5 * c
  IN  10000 * DigitValue[SubSeq(tab, n + 1, n + 1)]
        + 1000 * DigitValue[SubSeq(tab, n + 2, n + 2)]
        + 100 * DigitValue[SubSeq(tab, n + 3, n + 3)]
        + 10 * DigitValue[SubSeq(tab, n + 4, n + 4)]
        + DigitValue[SubSeq(tab, n + 5, n + 5)] - 50000

\* For each character c of the table, its lower case (one character to one)
\* minus c.
LowerDelta ==
  "faaaafaaaafaaaafaaaafaaaafaaaafaaaafaaaafaaaafaaaafaaaafaaaafaaaafaaaafaaaafaaaafaaaafaaaafaaaafaaaafaaaafaaaafaaaafaaaafaaaafaaaafaaaafaaaafaaaafaaaafaaaafaaaafaaaafaaaafaaaafaaaafaaaafaaaafaaaafaaaafaaaafaaaafaaaafaaaafaaaafaaaafaaaafaaaafaaaafaaaafaaaafaaaafaaaafaaaafaaaafaaaafaaaafaaaafaaaafaaaafaaaafaaaafaaaafaaaafaaaafaadcfaadcfaadcfaadcfaadcfaadcfaadcfaadcfaadcfaadcfaadcfaadcfaadcfaadcfaadcfaadcfaadcfaadcfaadcfaadcfaadcfaadcfaadcfaadcfaadcfaadcfaaaafaaaafaaaafaaaafaaaafaaaafaaaafaaaafaaaafaaaafaaaafaaaafaaaafaaaafaaaafaaaafaaaafaaaafaaaafaaaafaaaafaaaafaaaafaaaafaaaafaaaafaaaafaaaafaaaafaaaafaaaafaaaafaaaafaaaafaaaafaaaafaaaafaaaafaaaafaaaafaaaafaaaafaaaafaaaafaaaafaaaafaaaafaaaafaaaafaaaafaaaafaaaafaaaafaaaafaaaafaaaafaaaafaaaafaaaafaaaafaaaafaaaafaaaafaaaafaaaafaaaafaaaafaaaafaaaafaaaafaaaafaaaafaaaafaaaafaaaafaaaafaaaafaaaafaaaafaaaafaaaafaaaafaaaafaaaafaaaafaaaafaaaafaaaafaaaafaaaafaaaafaaaafaaaafaaaafaaaafaaaafaaaafaaaafaaaafaaaafaaaafaadcfaadcfaadcfaadcfaadcfaadcfaadcfaadcfaadcfaadcfaadcfaadcfaadcfaadcfaadcfaadcfaadcfaadcfaadcfaadcfaadcfaadcfaadcfaaaafaadcfaadcfaadcfaadcfaadcfaadcfaadcfaaaafaaaafaaaafaaaafaaaafaaaafaaaafaaaafaaaafaaaafaaaafaaaafaaaafaaaafaaaafaaaafaaaafaaaafaaaafaaaafaaaafaaaafaaaafaaaafaaaafaaaafaaaafaaaafaaaafaaaafaaaafaaaafaaaafaaabfaaaafaaabfaaaafaaabfaaaafaaabfaaaafaaabfaaaafaaabfaaaafaaabfaaaafaaabfaaaafaaabfaaaafaaabfaaaafaaabfaaaafaaabfaaaafaaabfaaaafaaabfaaaafaaabfaaaafaaabfaaaafaaabfaaaafaaabfaaaafaaabfaaaafaaabfaaaafaaabfaaaafaaabfaaaafaaabfaaaafaaabfaaaaejiabfaaaafaaabfaaaafaaabfaaaafaaabfaaaafaaaafaaabfaaaafaaabfaaaafaaabfaaaafaaabfaaaafaaabfaaaafaaabfaaaafaaabfaaaafaaabfaaaafaaaafaaabfaaaafaaabfaaaafaaabfaaaafaaabfaaaafaaabfaaaafaaabfaaaafaaabfaaaafaaabfaaaafaaabfaaaafaaabfaaaafaaabfaaaafaaabfaaaafaaabfaaaafaaabfaaaafaaabfaaaafaaabfaaaafaaabfaaaafaaabfaaaafaaabfaaaafaaabfaaaafaaabfaaaafaaabfaaaafaaabfaaaaejihjfaaabfaaaafaaabfaaaafaaabfaaaafaaaafaaaafacbafaaabfaaaafaaabfaaaafacagfaaabfaaaafacaffacaffaaabfaaaafaaaafaahjfacacfacadfaaabfaaaafacaffacahfaaaafacbbfacajfaaabfaaaafaaaafaaaafacbbfacbdfaaaafacbefaaabfaaaafaaabfaaaafaaabfaaaafacbifaaabfaaaafacbifaaaafaaaafaaabfaaaafacbifaaabfaaaafacbhfacbhfaaabfaaaafaaabfaaaafacbjfaaabfaaaafaaaafaaaafaaabfaaaafaaaafaaaafaaaafaaaafaaaafaaaafaaacfaaabfaaaafaaacfaaabfaaaafaaacfaaabfaaaafaaabfaaaafaaabfaaaafaaabfaaaafaaabfaaaafaaabfaaaafaaabfaaaafaaabfaaaafaaabfaaaafaaaafaaabfaaaafaaabfaaaafaaabfaaaafaaabfaaaafaaabfaaaafaaabfaaaafaaabfaaaafaaabfaaaafaaabfaaaafaaaafaaacfaaabfaaaafaaabfaaaaejjadejjeefaaabfaaaafaaabfaaaafaaabfaaaafaaabfaaaafaaabfaaaafaaabfaaaafaaabfaaaafaaabfaaaafaaabfaaaafaaabfaaaafaaabfaaaafaaabfaaaafaaabfaaaafaaabfaaaafaaabfaaaafaaabfaaaafaaabfaaaafaaabfaaaafaaabfaaaafaaabfaaaaejihafaaaafaaabfaaaafaaabfaaaafaaabfaaaafaaabfaaaafaaabfaaaafaaabfaaaafaaabfaaaafaaabfaaaafaaabfaaaafaaaafaaaafaaaafaaaafaaaafaaaagahjffaaabfaaaaejidhgahjcfaaaafaaaafaaabfaaaaejiaffaagjfaahbfaaabfaaaafaaabfaaaafaaabfaaaafaaabfaaaafaaabfaaaafaaaafaaaafaaaafaaaafaaaafaaaafaaaafaaaafaaaafaaaafaaaafaaaafaaaafaaaafaaaafaaaafaaaafaaaafaaaafaaaafaaaafaaaafaaaafaaaafaaaafaaaafaaaafaaaafaaaafaaaafaaaafaaaafaaaafaaaafaaaafaaaafaaaafaaaafaaaafaaaafaaaafaaaafaaaafaaaafaaaafaaaafaaaafaaaafaaaafaaaafaaaafaaaafaaaafaaaafaaaafaaaafaaaafaaaafaaaafaaaafaaaafaaaafaaaafaaaafaaaafaaaafaaaafaaaafaaaafaaaafaaaafaaaafaaaafaaaafaaaafaaaafaaaafaaaafaaaafaaaafaaaafaaaafaaaafaaaafaaaafaaaafaaaafaaaafaaaafaaaafaaaafaaaafaaaafaaaafaaaafaaaafaaaafaaaafaaaafaaaafaaaafaaaafaaaafaaaafaaaafaaaafaaaafaaaafaaaafaaaafaaaafaaaafaaaafaaaafaaaafaaaafaaaafaaaafaaaafaaaafaaaafaaaafaaaafaaaafaaaafaaaafaaaafaaaafaaaafaaaafaaaafaaaafaaaafaaaafaaaafaaaafaaaafaaaafaaaafaaaafaaaafaaaafaaaafaaaafaaaafaaaafaaaafaaaafaaaafaaaafaaaafaaaafaaaafaaaafaaaafaaaafaaaafaaaafaaaafaaaafaaaafaaaafaaaafaaaafaaaafaaaafaaaafaaaafaaaafaaaafaaaafaaaafaaaafaaaafaaaafaaaafaaaafaaaafaaaafaaaafaaaafaaaafaaaafaaaafaaaafaaaafaaaafaaaafaaaafaaaafaaaafaaaafaaaafaaaafaaaafaaaafaaaafaaaafaaaafaaaafaaaafaaaafaaaafaaaafaaaafaaaafaaaafaaaafaaaafaaaafaaaafaaaafaaaafaaaafaaaafaaaafaaaafaaaafaaaafaaaafaaaafaaaafaaaafaaaafaaaafaaaafaaaafaaaafaaaafaaaafaaaafaaaafaaaafaaaafaaaafaaaafaaaafaaaafaaaafaaaafaaaafaaaafaaaafaaaafaaaafaaaafaaaafaaaafaaaafaaaafaaaafaaaafaaaafaaaafaaaafaaaafaaaafaaaafaaaafaaaafaaaafaaaafaaaafaaaafaaaafaaaafaaaafaaaafaaaafaaaafaaaafaaaafaaaafaaaafaaaafaaaafaaaafaaaafaaaafaaaafaaaafaaaafaaaafaaaafaaaafaaaafaaaafaaaafaaabfaaaafaaabfaaaafaaaafaaaafaaabfaaaafaaaafaaaafaaaafaaaafaaaafaaaafaaaafabbgfaaaafaaaafaaaafaaaafaaaafaaaafaadifaaaafaadhfaadhfaadhfaaaafaagefaaaafaagdfaagdfaaaafaadcfaadcfaadcfaadcfaadcfaadcfaadcfaadcfaadcfaadcfaadcfaadcfaadcfaadcfaadcfaadcfaadcfaaaafaadcfaadcfaadcfaadcfaadcfaadcfaadcfaadcfaadcfaaaafaaaafaaaafaaaafaaaafaaaafaaaafaaaafaaaafaaaafaaaafaaaafaaaafaaaafaaaafaaaafaaaafaaaafaaaafaaaafaaaafaaaafaaaafaaaafaaaafaaaafaaaafaaaafaaaafaaaafaaaafaaaafaaaafaaaafaaaafaaaifaaaafaaaafaaaafaaaafaaaafaaaafaaaafaaaafaaabfaaaafaaabfaaaafaaabfaaaafaaabfaaaafaaabfaaaafaaabfaaaafaaabfaaaafaaabfaaaafaaabfaaaafaaabfaaaafaaabfaaaafaaabfaaaafaaaafaaaafaaaafaaaaejjeafaaaafaaaafaaabfaaaaejjjdfaaabfaaaafaaaaejihaejihaejihafaaiafaaiafaaiafaaiafaaiafaaiafaaiafaaiafaaiafaaiafaaiafaaiafaaiafaaiafaaiafaaiafaadcfaadcfaadcfaadcfaadcfaadcfaadcfaadcfaadcfaadcfaadcfaadcfaadcfaadcfaadcfaadcfaadcfaadcfaadcfaadcfaadcfaadcfaadcfaadcfaadcfaadcfaadcfaadcfaadcfaadcfaadcfaadcfaaaafaaaafaaaafaaaafaaaafaaaafaaaafaaaafaaaafaaaafaaaafaaaafaaaafaaaafaaaafaaaafaaaafaaaafaaaafaaaafaaaafaaaafaaaafaaaafaaaafaaaafaaaafaaaafaaaafaaaafaaaafaaaafaaaafaaaafaaaafaaaafaaaafaaaafaaaafaaaafaaaafaaaafaaaafaaaafaaaafaaaafaaaafaaaafaaabfaaaafaaabfaaaafaaabfaaaafaaabfaaaafaaabfaaaafaaabfaaaafaaabfaaaafaaabfaaaafaaabfaaaafaaabfaaaafaaabfaaaafaaabfaaaafaaabfaaaafaaabfaaaafaaabfaaaafaaabfaaaafaaabfaaaafaaaafaaaafaaaafaaaafaaaafaaaafaaaafaaaafaaabfaaaafaaabfaaaafaaabfaaaafaaabfaaaafaaabfaaaafaaabfaaaafaaabfaaaafaaabfaaaafaaabfaaaafaaabfaaaafaaabfaaaafaaabfaaaafaaabfaaaafaaabfaaaafaaabfaaaafaaabfaaaafaaabfaaaafaaabfaaaafaaabfaaaafaaabfaaaafaaabfaaaafaaabfaaaafaaabfaaaafaaabfaaaafaaabfaaaafaaabfaaaafaaabfaaaafaabffaaabfaaaafaaabfaaaafaaabfaaaafaaabfaaaafaaabfaaaafaaabfaaaafaaabfaaaafaaaafaaabfaaaafaaabfaaaafaaabfaaaafaaabfaaaafaaabfaaaafaaabfaaaafaaabfaaaafaaabfaaaafaaabfaaaafaaabfaaaafaaabfaaaafaaabfaaaafaaabfaaaafaaabfaaaafaaabfaaaafaaabfaaaafaaabfaaaafaaabfaaaafaaabfaaaafaaabfaaaafaaabfaaaafaaabfaaaafaaabfaaaafaaabfaaaafaaabfaaaafaaabfaaaafaaabfaaaafaaabfaaaafaaabfaaaafaaabfaaaafaaabfaaaafaaabfaaaafaaabfaaaafaaabfaaaafaaabfaaaafaaabfaaaafaaabfaaaafaaabfaaaafaaabfaaaafaaabfaaaafaaabfaaaafaaabfaaaafaaabfaaaafaaabfaaaafaaabfaaaafaaabfaaaafaaabfaaaafaaabfaaaafaaaafaaeifaaeifaaeifaaeifaaeifaaeifaaeifaaeifaaeifaaeifaaeifaaeifaaeifaaeifaaeifaaeifaaeifaaeifaaeifaaeifaaeifaaeifaaeifaaeifaaeifaaeifaaeifaaeifaaeifaaeifaaeifaaeifaaeifaaeifaaeifaaeifaaeifaaeifaaaafaaaafaaaafaaaafaaaafaaaafaaaafaaaafaaaafaaaafaaaafaaaafaaaafaaaafaaaafaaaafaaaafaaaafaaaafaaaafaaaafaaaafaaaafaaaafaaaafaaaafaaaafaaaafaaaafaaaafaaaafaaaafaaaafaaaafaaaafaaaafaaaafaaaafaaaafaaaafaaaafaaaafaaaafaaaafaaaafaaaafaaaafaaaafaaaafaaaafaaaafaaaafaaaafaaaafaaaafaaaafaaaafaaaafaaaafaaaafaaaafaaaafaaaafaaaafaaaafaaaafaaaafaaaafaaaafaaaafaaaafaaaafaaaafaaaafaaaafaaaafaaaafaaaafaaaafaaaafaaaafaaaafaaaafaaaafaaaafaaaafaaaafaaaafaaaafaaaafaaaafaaaafaaaafaaaafaaaafaaaafaaaafaaaafaaaafaaaafaaaafaaaafaaaafaaaafaaaafaaaafaaaafaaaafaaaafaaaafaaaafaaaafaaaafaaaafaaaafaaaafaaaafaaaafaaaafaaaafaaaafaaaafaaaafaaaafaaaafaaaafaaaafaaaafaaaafaaaafaaaafaaaafaaaafaaaafaaaafaaaafaaaafaaaafaaaafaaaafaaaafaaaafaaaafaaaafaaaafaaaafaaaafaaaafaaaafaaaafaaaafaaaafaaaafaaaafaaaafaaaafaaaafaaaafaaaafaaaafaaaafaaaafaaaafaaaafaaaafaaaafaaaafaaaafaaaafaaaafaaaafaaaafaaaafaaaafaaaafaaaafaaaafaaaafaaaafaaaafaaaafaaaafaaaafaaaafaaaafaaaafaaaafaaaafaaaafaaaafaaaafaaaafaaaafaaaafaaaafaaaafaaaafaaaafaaaafaaaafaaaafaaaafaaaafaaaafaaaafaaaafaaaafaaaafaaaafaaaafaaaafaaaafaaaafaaaafaaaafaaaafaaaafaaaafaaaafaaaafaaaafaaaafaaaafaaaafaaaafaaaafaaaafaaaafaaaafaaaafaaaafaaaafaaaafaaaafaaaafaaaafaaaafaaaafaaaafaaaafaaaafaaaafaaaafaaaafaaaafaaaafaaaafaaaafaaaafaaaafaaaafaaaafaaaafaaaafaaaafaaaafaaaafaaaafaaaafaaaafaaaafaaaafaaaafaaaafaaaafaaaafaaaafaaaafaaaafaaaafaaaafaaaafaaaafaaaafaaaafaaaafaaaafaaaafaaaafaaaafaaaafaaaafaaaafaaaafaaaafaaaafaaaafaaaafaaaafaaaafaaaafaaaafaaaafaaaafaaaafaaaafaaaafaaaafaaaafaaaafaaaafaaaafaaaafaaaafaaaafaaaafaaaafaaaafaaaafaaaafaaaafaaaafaaaafaaaafaaaafaaaafaaaafaaaafaaaafaaaafaaaafaaaafaaaafaaaafaaaafaaaafaaaafaaaafaaaafaaaafaaaafaaaafaaaafaaaafaaaafaaaafaaaafaaaafaaaafaaaafaaaafaaaafaaaafaaaafaaaafaaaafaaaafaaaafaaaafaaaafaaaafaaaafaaaafaaaafaaaafaaaafaaaafaaaafaaaafaaaafaaaafaaaafaaaafaaaafaaaafaaaafaaaafaaaafaaaafaaaafaaaafaaaafaaaafaaaafaaaafaaaafaaaafaaaafaaaafaaaafaaaafaaaafaaaafaaaafaaaafaaaafaaaafaaaafaaaafaaaafaaaafaaaafaaaafaaaafaaaafaaaafaaaafaaaafaaaafaaaafaaaafaaaafaaaafaaaafaaaafaaaafaaaafaaaafaaaafaaaafaaaafaaaafaaaafaaaafaaaafaaaafaaaafaaaafaaaafaaaafaaaafaaaafaaaafaaaafaaaafaaaafaaaafaaaafaaaafaaaafaaaafaaaafaaaafaaaafaaaafaaaafaaaafaaaafaaaafaaaafaaaafaaaafaaaafaaaafaaaafaaaafaaaafaaaafaaaafaaaafaaaafaaaafaaaafaaaafaaaafaaaafaaaafaaaafaaaafaaaafaaaafaaaafaaaafaaaafaaaafaaaafaaaafaaaafaaaafaaaafaaaafaaaafaaaafaaaafaaaafaaaafaaaafaaaafaaaafaaaafaaaafaaaafaaaafaaaafaaaafaaaafaaaafaaaafaaaafaaaafaaaafaaaafaaaafaaaafaaaafaaaafaaaafaaaafaaaafaaaafaaaafaaaafaaaafaaaafaaaafaaaafaaaafaaaafaaaafaaaafaaaafaaaafaaaafaaaafaaaafaaaafaaaafaaaafaaaafaaaafaaaafaaaafaaaafaaaafaaaafaaaafaaaafaaaafaaaafaaaafaaaafaaaafaaaafaaaafaaaafaaaafaaaafaaaafaaaafaaaafaaaafaaaafaaaafaaaafaaaafaaaafaaaafaaaafaaaafaaaafaaaafaaaafaaaafaaaafaaaafaaaafaaaafaaaafaaaafaaaafaaaafaaaafaaaafaaaafaaaafaaaafaaaafaaaafaaaafaaaafaaaafaaaafaaaafaaaafaaaafaaaafaaaafaaaafaaaafaaaafaaaafaaaafaaaafaaaafaaaafaaaafaaaafaaaafaaaafaaaafaaaafaaaafaaaafaaaafaaaafaaaafaaaafaaaafaaaafaaaafaaaafaaaafaaaafaaaafaaaafaaaafaaaafaaaafaaaafaaaafaaaafaaaafaaaafaaaafaaaafaaaafaaaafaaaafaaaafaaaafaaaafaaaafaaaafaaaafaaaafaaaafaaaafaaaafaaaafaaaafaaaafaaaafaaaafaaaafaaaafaaaafaaaafaaaafaaaafaaaafaaaafaaaafaaaafaaaafaaaafaaaafaaaafaaaafaaaafaaaafaaaafaaaafaaaafaaaafaaaafaaaafaaaafaaaafaaaafaaaafaaaafaaaafaaaafaaaafaaaafaaaafaaaafaaaafaaaafaaaafaaaafaaaafaaaafaaaafaaaafaaaafaaaafaaaafaaaafaaaafaaaafaaaafaaaafaaaafaaaafaaaafaaaafaaaafaaaafaaaafaaaafaaaafaaaafaaaafaaaafaaaafaaaafaaaafaaaafaaaafaaaafaaaafaaaafaaaafaaaafaaaafaaaafaaaafaaaafaaaafaaaafaaaafaaaafaaaafaaaafaaaafaaaafaaaafaaaafaaaafaaaafaaaafaaaafaaaafaaaafaaaafaaaafaaaafaaaafaaaafaaaafaaaafaaaafaaaafaaaafaaaafaaaafaaaafaaaafaaaafaaaafaaaafaaaafaaaafaaaafaaaafaaaafaaaafaaaafaaaafaaaafaaaafaaaafaaaafaaaafaaaafaaaafaaaafaaaafaaaafaaaafaaaafaaaafaaaafaaaafaaaafaaaafaaaafaaaafaaaafaaaafaaaafaaaafaaaafaaaafaaaafaaaafaaaafaaaafaaaafaaaafaaaafaaaafaaaafaaaafaaaafaaaafaaaafaaaafaaaafaaaafaaaafaaaafaaaafaaaafaaaafaaaafaaaafaaaafaaaafaaaafaaaafaaaafaaaafaaaafaaaafaaaafaaaafaaaafaaaafaaaafaaaafaaaafaaaafaaaafaaaafaaaafaaaafaaaafaaaafaaaafaaaafaaaafaaaafaaaafaaaafaaaafaaaafaaaafaaaafaaaafaaaafaaaafaaaafaaaafaaaafaaaafaaaafaaaafaaaafaaaafaaaafaaaafaaaafaaaafaaaafaaaafaaaafaaaafaaaafaaaafaaaafaaaafaaaafaaaafaaaafaaaafaaaafaaaafaaaafaaaafaaaafaaaafaaaafaaaafaaaafaaaafaaaafaaaafaaaafaaaafaaaafaaaafaaaafaaaafaaaafaaaafaaaafaaaafaaaafaaaafaaaafaaaafaaaafaaaafaaaafaaaafaaaafaaaafaaaafaaaafaaaafaaaafaaaafaaaafaaaafaaaafaaaafaaaafaaaafaaaafaaaafaaaafaaaafaaaafaaaafaaaafaaaafaaaafaaaafaaaafaaaafaaaafaaaafaaaafaaaafaaaafaaaafaaaafaaaafaaaafaaaafaaaafaaaafaaaafaaaafaaaafaaaafaaaafaaaafaaaafaaaafaaaafaaaafaaaafaaaafaaaafaaaafaaaafaaaafaaaafaaaafaaaafaaaafaaaafaaaafaaaafaaaafaaaafaaaafaaaafaaaafaaaafaaaafaaaafaaaafaaaafaaaafaaaafaaaafaaaafaaaafaaaafaaaafaaaafaaaafaaaafaaaafaaaafaaaafaaaafaaaafaaaafaaaafaaaafaaaafaaaafaaaafaaaafaaaafaaaafaaaafaaaafaaaafaaaafaaaafaaaafaaaafaaaafaaaafaaaafaaaafaaaafaaaafaaaafaaaafaaaafaaaafaaaafaaaafaaaafaaaafaaaafaaaafaaaafaaaafaaaafaaaafaaaafaaaafaaaafaaaafaaaafaaaafaaaafaaaafaaaafaaaafaaaafaaaafaaaafaaaafaaaafaaaafaaaafaaaafaaaafaaaafaaaafaaaafaaaafaaaafaaaafaaaafaaaafaaaafaaaafaaaafaaaafaaaafaaaafaaaafaaaafaaaafaaaafaaaafaaaafaaaafaaaafaaaafaaaafaaaafaaaafaaaafaaaafaaaafaaaafaaaafaaaafaaaafaaaafaaaafaaaafaaaafaaaafaaaafaaaafaaaafaaaafaaaafaaaafaaaafaaaafaaaafaaaafaaaafaaaafaaaafaaaafaaaafaaaafaaaafaaaafaaaafaaaafaaaafaaaafaaaafaaaafaaaafaaaafaaaafaaaafaaaafaaaafaaaafaaaafaaaafaaaafaaaafaaaafaaaafaaaafaaaafaaaafaaaafaaaafaaaafaaaafaaaafaaaafaaaafaaaafaaaafaaaafaaaafaaaafaaaafaaaafaaaafaaaafaaaafaaaafaaaafaaaafaaaafaaaafaaaafaaaafaaaafaaaafaaaafaaaafaaaafaaaafaaaafaaaafaaaafaaaafaaaafaaaafaaaafaaaafaaaafaaaafaaaafaaaafaaaafaaaafaaaafaaaafaaaafaaaafaaaafaaaafaaaafaaaafaaaafaaaafaaaafaaaafaaaafaaaafaaaafaaaafaaaafaaaafaaaafaaaafaaaafaaaafaaaafaaaafaaaafaaaafaaaafaaaafaaaafaaaafaaaafaaaafaaaafaaaafaaaafaaaafaaaafaaaafaaaafaaaafaaaafaaaafaaaafaaaafaaaafaaaafaaaafaaaafaaaafaaaafaaaafaaaafaaaafaaaafaaaafaaaafaaaafaaaafaaaafaaaafaaaafaaaafaaaafaaaafaaaafaaaafaaaafaaaafaaaafaaaafaaaafaaaafaaaafaaaafaaaafaaaafaaaafaaaafaaaafaaaafaaaafaaaafaaaafaaaafaaaafaaaafaaaafaaaafaaaafaaaafaaaafaaaafaaaafaaaafaaaafaaaafaaaafaaaafaaaafaaaafaaaafaaaafaaaafaaaafaaaafaaaafaaaafaaaafaaaafaaaafaaaafaaaafaaaafaaaafaaaafaaaafaaaafaaaafaaaafaaaafaaaafaaaafaaaafaaaafaaaafaaaafaaaafaaaafaaaafaaaafaaaafaaaafaaaafaaaafaaaafaaaafaaaafaaaafaaaafaaaafaaaafaaaafaaaafaaaafaaaafaaaafaaaafaaaafaaaafaaaafaaaafaaaafaaaafaaaafaaaafaaaafaaaafaaaafaaaafaaaafaaaafaaaafaaaafaaaafaaaafaaaafaaaafaaaafaaaafaaaafaaaafaaaafaaaafaaaafaaaafaaaafaaaafaaaafaaaafaaaafaaaafaaaafaaaafaaaafaaaafaaaafaaaafaaaafaaaafaaaafaaaafaaaafaaaafaaaafaaaafaaaafaaaafaaaafaaaafaaaafaaaafaaaafaaaafaaaafaaaafaaaafaaaafaaaafaaaafaaaafaaaafaaaafaaaafaaaafaaaafaaaafaaaafaaaafaaaafaaaafaaaafaaaafaaaafaaaafaaaafaaaafaaaafaaaafaaaafaaaafaaaafaaaafaaaafaaaafaaaafaaaafaaaafaaaafaaaafaaaafaaaafaaaafaaaafaaaafaaaafaaaafaaaafaaaafaaaafaaaafaaaafaaaafaaaafaaaafaaaafaaaafaaaafaaaafaaaafaaaafaaaafaaaafaaaafaaaafaaaafaaaafaaaafaaaafaaaafaaaafaaaafaaaafaaaafaaaafaaaafaaaafaaaafaaaafaaaafaaaafaaaafaaaafaaaafaaaafaaaafaaaafaaaafaaaafaaaafaaaafaaaafaaaafaaaafaaaafaaaafaaaafaaaafaaaafaaaafaaaafaaaafaaaafaaaafaaaafaaaafaaaafaaaafaaaafaaaafaaaafaaaafaaaafaaaafaaaafaaaafaaaafaaaafaaaafaaaafaaaafaaaafaaaafaaaafaaaafaaaafaaaafaaaafaaaafaaaafaaaafaaaafaaaafaaaafaaaafaaaafaaaafaaaafaaaafaaaafaaaafaaaafaaaafaaaafaaaafaaaafaaaafaaaafaaaafaaaafaaaafaaaafaaaafaaaafaaaafaaaafaaaafaaaafaaaafaaaafaaaafaaaafaaaafaaaafaaaafaaaafaaaafaaaafaaaafaaaafaaaafaaaafaaaafaaaafaaaafaaaafaaaafaaaafaaaafaaaafaaaafaaaafaaaafaaaafaaaafaaaafaaaafaaaafaaaafaaaafaaaafaaaafaaaafaaaafaaaafaaaafaaaafaaaafaaaafaaaafaaaafaaaafaaaafaaaafaaaafaaaafaaaafaaaafaaaafaaaafaaaafaaaafaaaafaaaafaaaafaaaafaaaafaaaafaaaafaaaafaaaafaaaafaaaafaaaafaaaafaaaafaaaafaaaafaaaafaaaafaaaafaaaafaaaafaaaafaaaafaaaafaaaafaaaafaaaafaaaafaaaafaaaafaaaafaaaafaaaafaaaafaaaafaaaafaaaafaaaafaaaafaaaafaaaafaaaafaaaafaaaafaaaafaaaafaaaafaaaafaaaafaaaafaaaafaaaafaaaafaaaafaaaafaaaafaaaafaaaafaaaafaaaafaaaafaaaafaaaafaaaafaaaafaaaafaaaafaaaafaaaafaaaafaaaafaaaafaaaafaaaafaaaafaaaafaaaafaaaafaaaafaaaafaaaafaaaafaaaafaaaafaaaafaaaafaaaafaaaafaaaafaaaafaaaafaaaafaaaafaaaafaaaafaaaafaaaafaaaafaaaafaaaafaaaafaaaafaaaafaaaafaaaafaaaafaaaafaaaafaaaafaaaafaaaafaaaafaaaafaaaafaaaafaaaafaaaafaaaafaaaafaaaafaaaafaaaafaaaafaaaafaaaafaaaafaaaafaaaafaaaafaaaafaaaafaaaafaaaafaaaafaaaafaaaafaaaafaaaafaaaafaaaafaaaafaaaafaaaafaaaafaaaafaaaafaaaafaaaafaaaafaaaafaaaafaaaafaaaafaaaafaaaafaaaafaaaafaaaafaaaafaaaafaaaafaaaafaaaafaaaafaaaafaaaafaaaafaaaafaaaafaaaafaaaafaaaafaaaafaaaafaaaafaaaafaaaafaaaafaaaafaaaafaaaafaaaafaaaafaaaafaaaafaaaafaaaafaaaafaaaafaaaafaaaafaaaafaaaafaaaafaaaafaaaafaaaafaaaafaaaafaaaafaaaafaaaafaaaafaaaafaaaafaaaafaaaafaaaafaaaafaaaafaaaafaaaafaaaafaaaafaaaafaaaafaaaafaaaafaaaafaaaafaaaafaaaafaaaafaaaafaaaafaaaafaaaafaaaafaaaafaaaafaaaafaaaafaaaafaaaafaaaafaaaafaaaafaaaafaaaafaaaafaaaafaaaafaaaafaaaafaaaafaaaafaaaafaaaafaaaafaaaafaaaafaaaafaaaafaaaafaaaafaaaafaaaafaaaafaaaafaaaafaaaafaaaafaaaafaaaafaaaafaaaafaaaafaaaafaaaafaaaafaaaafaaaafaaaafaaaafaaaafaaaafaaaafaaaafaaaafaaaafaaaafaaaafaaaafaaaafaaaafaaaafaaaafaaaafaaaafaaaafaaaafaaaafaaaafaaaafaaaafaaaafaaaafaaaafaaaafaaaafaaaafaaaafaaaafaaaafaaaafaaaafaaaafaaaafaaaafaaaafaaaafaaaafaaaafaaaafaaaafaaaafaaaafaaaafaaaafaaaafaaaafaaaafaaaafaaaafaaaafaaaafaaaafaaaafaaaafaaaafaaaafaaaafaaaafaaaafaaaafaaaafaaaafaaaafaaaafaaaafaaaafaaaafaaaafaaaafaaaafaaaafaaaafaaaafaaaafaaaafaaaafaaaafaaaafaaaafaaaafaaaafaaaafaaaafaaaafaaaafaaaafaaaafaaaafaaaafaaaafaaaafaaaafaaaafaaaafaaaafaaaafaaaafaaaafaaaafaaaafaaaafaaaafaaaafaaaafaaaafaaaafaaaafaaaafaaaafaaaafaaaafaaaafaaaafaaaafaaaafaaaafaaaafaaaafaaaafaaaafaaaafaaaafaaaafaaaafaaaafaaaafaaaafaaaafaaaafaaaafaaaafaaaafaaaafaaaafaaaafaaaafaaaafaaaafaaaafaaaafaaaafaaaafaaaafaaaafaaaafaaaafaaaafaaaafaaaafaaaafaaaafaaaafaaaafaaaafaaaafaaaafaaaafaaaafaaaafaaaafaaaafaaaafaaaafaaaafaaaafaaaafaaaafaaaafaaaafaaaafaaaafaaaafaaaafaaaafaaaafaaaafaaaafaaaafaaaafaaaafaaaafaaaafaaaafaaaafaaaafaaaafaaaafaaaafaaaafaaaafaaaafaaaafaaaafaaaafaaaafaaaafaaaafaaaafaaaafaaaafaaaafaaaafaaaafaaaafaaaafaaaafaaaafaaaafaaaafaaaafaaaafaaaafaaaafaaaafaaaafaaaafaaaafaaaafaaaafaaaafaaaafaaaafaaaafaaaafaaaafaaaafaaaafaaaafaaaafaaaafaaaafaaaafaaaafaaaafaaaafaaaafaaaafaaaafaaaafaaaafaaaafaaaafaaaafaaaafaaaafaaaafaaaafaaaafaaaafaaaafaaaafaaaafaaaafaaaafaaaafaaaafaaaafaaaafaaaafaaaafaaaafaaaafaaaafaaaafaaaafaaaafaaaafaaaafaaaafaaaafaaaafaaaafaaaafaaaafaaaafaaaafaaaafaaaafaaaafaaaafaaaafaaaafaaaafaaaafaaaafaaaafaaaafaaaafaaaafaaaafaaaafaaaafaaaafaaaafaaaafaaaafaaaafaaaafaaaafaaaafaaaafaaaafaaaafaaaafaaaafaaaafaaaafaaaafaaaafaaaafaaaafaaaafaaaafaaaafaaaafaaaafaaaafaaaafaaaafaaaafaaaafaaaafaaaafaaaafaaaafaaaafaaaafaaaafaaaafaaaafaaaafaaaafaaaafaaaafaaaafaaaafaaaafaaaafaaaafaaaafaaaafaaaafaaaafaaaafaaaafaaaafaaaafaaaafaaaafaaaafaaaafaaaafaaaafaaaafaaaafaaaafaaaafaaaafaaaafaaaafaaaafaaaafaaaafaaaafaaaafaaaafaaaafaaaafaaaafaaaafaaaafaaaafaaaafaaaafaaaafaaaafaaaafaaaafaaaafaaaafaaaafaaaafaaaafaaaafaaaafaaaafaaaafaaaafaaaafaaaafaaaafaaaafaaaafaaaafaaaafaaaafaaaafaaaafaaaafaaaafaaaafaaaafaaaafaaaafaaaafaaaafaaaafaaaafaaaafaaaafaaaafaaaafaaaafaaaafaaaafaaaafaaaafaaaafaaaafaaaafaaaafaaaafaaaafaaaafaaaafaaaafaaaafaaaafaaaafaaaafaaaafaaaafaaaafaaaafaaaafaaaafaaaafaaaafaaaafaaaafaaaafaaaafaaaafaaaafaaaafaaaafaaaafaaaafaaaafaaaafaaaafaaaafaaaafaaaafaaaafaaaafaaaafaaaafaaaafaaaafaaaafaaaafaaaafaaaafaaaafaaaafaaaafaaaafaaaafaaaafaaaafaaaafaaaafaaaafaaaafaaaafaaaafaaaafaaaafaaaafaaaafaaaafaaaafaaaafaaaafaaaafaaaafaaaafaaaafaaaafaaaafaaaafaaaafaaaafaaaafaaaafaaaafaaaafaaaafaaaafaaaafaaaafaaaafaaaafaaaafaaaafaaaafaaaafaaaafaaaafaaaafaaaafaaaafaaaafaaaafaaaafaaaafaaaafaaaafaaaafaaaafaaaafaaaafaaaafaaaafaaaafaaaafaaaafaaaafaaaafaaaafaaaafaaaafaaaafaaaafaaaafaaaafaaaafaaaafaaaafaaaafaaaafaaaafaaaafaaaafaaaafaaaafaaaafaaaafaaaafaaaafaaaafaaaafaaaafaaaafaaaafaaaafaaaafaaaafaaaafaaaafaaaafaaaafaaaafaaaafaaaafaaaafaaaafaaaafaaaafaaaafaaaafaaaafaaaafaaaafaaaafaaaafaaaafaaaafaaaafaaaafaaaafaaaafaaaafaaaafaaaafaaaafaaaafaaaafaaaafaaaafaaaafaaaafaaaafaaaafaaaafaaaafaaaafaaaafaaaafaaaafaaaafaaaafaaaafaaaafaaaafaaaafaaaafaaaafaaaafaaaafaaaafaaaafaaaafaaaafaaaafaaaafaaaafaaaafaaaafaaaafaaaafaaaafaaaafaaaafaaaafaaaafaaaafaaaafaaaafaaaafaaaafaaaafaaaafaaaafaaaafaaaafaaaafaaaafaaaafaaaafaaaafaaaafaaaafaaaafaaaafaaaafaaaafaaaafaaaafaaaafaaaafaaaafaaaafaaaafaaaafaaaafaaaafaaaafaaaafaaaafaaaafaaaafaaaafaaaafaaaafaaaafaaaafaaaafaaaafaaaafaaaafaaaafaaaafaaaafaaaafaaaafaaaafaaaafaaaafaaaafaaaafaaaafaaaafaaaafaaaafaaaafaaaafaaaafaaaafaaaafaaaafaaaafaaaafaaaafaaaafaaaafaaaafaaaafaaaafaaaafaaaafaaaafaaaafaaaafaaaafaaaafaaaafaaaafaaaafaaaafaaaafaaaafaaaafaaaafaaaafaaaafaaaafaaaafaaaafaaaafaaaafaaaafaaaafaaaafaaaafaaaafaaaafaaaafaaaafaaaafaaaafaaaafaaaafaaaafaaaafaaaafaaaafaaaafaaaafaaaafaaaafaaaafaaaafaaaafaaaafaaaafaaaafaaaafaaaafaaaafaaaafaaaafaaaafaaaafaaaafaaaafaaaafaaaafaaaafaaaafaaaafaaaafaaaafaaaafaaaafaaaafaaaafaaaafaaaafaaaafaaaafaaaafaaaafaaaafaaaafaaaafaaaafaaaafaaaafaaaafaaaafaaaafaaaafaaaafaaaafaaaafaaaafaaaafaaaafaaaafaaaafaaaafaaaafaaaafaaaafaaaafaaaafaaaafaaaafaaaafaaaafaaaafaaaafaaaafaaaafaaaafaaaafaaaafaaaafaaaafaaaafaaaafaaaafaaaafaaaafaaaafaaaafaaaafaaaafaaaafaaaafaaaafaaaafaaaafaaaafaaaafaaaafaaaafaaaafaaaafaaaafaaaafaaaafaaaafaaaafaaaafaaaafaaaafaaaafaaaafaaaafaaaafaaaafaaaafaaaafaaaafaaaafaaaafaaaafaaaafaaaafaaaafaaaafaaaafaaaafaaaafaaaafaaaafaaaafaaaafaaaafaaaafaaaafaaaafaaaafaaaafaaaafaaaafaaaafaaaafaaaafaaaafaaaafaaaafaaaafaaaafaaaafaaaafaaaafaaaafaaaafaaaafaaaafaaaafaaaafaaaafaaaafaaaafaaaafaaaafaaaafaaaafaaaafaaaafaaaafaaaafaaaafaaaafaaaafaaaafaaaafaaaafaaaafaaaafaaaafaaaafaaaafaaaafaaaafaaaafaaaafaaaafaaaafaaaafaaaafaaaafaaaafaaaafaaaafaaaafaaaafaaaafaaaafaaaafaaaafaaaafaaaafaaaafaaaafaaaafaaaafaaaafaaaafaaaafaaaafaaaafaaaafaaaafaaaafaaaafaaaafaaaafaaaafaaaafaaaafaaaafaaaafaaaafaaaafaaaafaaaafaaaafaaaafaaaafaaaafaaaafaaaafaaaafaaaafaaaafaaaafaaaafaaaafaaaafaaaafaaaafaaaafaaaafaaaafaaaafaaaafaaaafaaaafaaaafaaaafaaaafaaaafaaaafaaaafaaaafaaaafaaaafaaaafaaaafaaaafaaaafaaaafaaaafaaaafaaaafaaaafaaaafaaaafaaaafaaaafaaaafaaaafaaaafaaaafaaaafaaaafaaaafaaaafaaaafaaaafaaaafaaaafaaaafaaaafaaaafaaaafaaaafaaaafaaaafaaaafaaaafaaaafaaaafaaaafaaaafaaaafaaaafaaaafaaaafaaaafaaaafaaaafaaaafaaaafaaaafaaaafaaaafaaaafaaaafaaaafaaaafaaaafaaaafaaaafaaaafaaaafaaaafaaaafaaaafaaaafaaaafaaaafaaaafaaaafaaaafaaaafaaaafaaaafhcgefhcgefhcgefhcgefhcgefhcgefhcgefhcgefhcgefhcgefhcgefhcgefhcgefhcgefhcgefhcgefhcgefhcgefhcgefhcgefhcgefhcgefhcgefhcgefhcgefhcgefhcgefhcgefhcgefhcgefhcgefhcgefhcgefhcgefhcgefhcgefhcgefhcgefaaaafhcgefaaaafaaaafaaaafaaaafaaaafhcgefaaaafaaaafaaaafaaaafaaaafaaaafaaaafaaaafaaaafaaaafaaaafaaaafaaaafaaaafaaaafaaaafaaaafaaaafaaaafaaaafaaaafaaaafaaaafaaaafaaaafaaaafaaaafaaaafaaaafaaaafaaaafaaaafaaaafaaaafaaaafaaaafaaaafaaaafaaaafaaaafaaaafaaaafaaaafaaaafaaaafaaaafaaaafaaaafaaaafaaaafaaaafaaaafaaaafaaaafaaaafaaaafaaaafaaaafaaaafaaaafaaaafaaaafaaaafaaaafaaaafaaaafaaaafaaaafaaaafaaaafaaaafaaaafaaaafaaaafaaaafaaaafaaaafaaaafaaaafaaaafaaaafaaaafaaaafaaaafaaaafaaaafaaaafaaaafaaaafaaaafaaaafaaaafaaaafaaaafaaaafaaaafaaaafaaaafaaaafaaaafaaaafaaaafaaaafaaaafaaaafaaaafaaaafaaaafaaaafaaaafaaaafaaaafaaaafaaaafaaaafaaaafaaaafaaaafaaaafaaaafaaaafaaaafaaaafaaaafaaaafaaaafaaaafaaaafaaaafaaaafaaaafaaaafaaaafaaaafaaaafaaaafaaaafaaaafaaaafaaaafaaaafaaaafaaaafaaaafaaaafaaaafaaaafaaaafaaaafaaaafaaaafaaaafaaaafaaaafaaaafaaaafaaaafaaaafaaaafaaaafaaaafaaaafaaaafaaaafaaaafaaaafaaaafaaaafaaaafaaaafaaaafaaaafaaaafaaaafaaaafaaaafaaaafaaaafaaaafaaaafaaaafaaaafaaaafaaaafaaaafaaaafaaaafaaaafaaaafaaaafaaaafaaaafaaaafaaaafaaaafaaaafaaaafaaaafaaaafaaaafaaaafaaaafaaaafaaaafaaaafaaaafaaaafaaaafaaaafaaaafaaaafaaaafaaaafaaaafaaaafaaaafaaaafaaaafaaaafaaaafaaaafaaaafaaaafaaaafaaaafaaaafaaaafaaaafaaaafaaaafaaaafaaaafaaaafaaaafaaaafaaaafaaaafaaaafaaaafaaaafaaaafaaaafaaaafaaaafaaaafaaaafaaaafaaaafaaaafaaaafaaaafaaaafaaaafaaaafaaaafaaaafaaaafaaaafaaaafaaaafaaaafaaaafaaaafaaaafaaaafaaaafaaaafaaaafaaaafaaaafaaaafaaaafaaaafaaaafaaaafaaaafaaaafaaaafaaaafaaaafaaaafaaaafaaaafaaaafaaaafaaaafaaaafaaaafaaaafaaaafaaaafaaaafaaaafaaaafaaaafaaaafaaaafaaaafaaaafaaaafaaaafaaaafaaaafaaaafaaaafaaaafaaaafaaaafaaaafaaaafaaaafaaaafaaaafaaaafaaaafaaaafaaaafaaaafaaaafaaaafaaaafaaaafaaaafaaaafaaaafaaaafaaaafaaaafaaaafaaaafaaaafaaaafaaaafaaaafaaaafaaaafaaaafaaaafaaaafaaaafaaaafaaaafaaaafaaaafaaaafaaaafaaaafaaaafaaaafaaaafaaaafaaaafaaaafaaaafaaaafaaaafaaaafaaaafaaaafaaaafaaaafaaaafaaaafaaaafaaaafaaaafaaaafaaaafaaaafaaaafaaaafaaaafaaaafaaaafaaaafaaaafaaaafaaaafaaaafaaaafaaaafaaaafaaaafaaaafaaaafaaaafaaaafaaaafaaaafaaaafaaaafaaaafaaaafaaaafaaaafaaaafaaaafaaaafaaaafaaaafaaaafaaaafaaaafaaaafaaaafaaaafaaaafaaaafaaaafaaaafaaaafaaaafaaaafaaaafaaaafaaaafaaaafaaaafaaaafaaaafaaaafaaaafaaaafaaaafaaaafaaaafaaaafaaaafaaaafaaaafaaaafaaaafaaaafaaaafaaaafaaaafaaaafaaaafaaaafaaaafaaaafaaaafaaaafaaaafaaaafaaaafaaaafaaaafaaaafaaaafaaaafaaaafaaaafaaaafaaaafaaaafaaaafaaaafaaaafaaaafaaaafaaaafaaaafaaaafaaaafaaaafaaaafaaaafaaaafaaaafaaaafaaaafaaaafaaaafaaaafaaaafaaaafaaaafaaaafaaaafaaaafaaaafaaaafaaaafaaaafaaaafaaaafaaaafaaaafaaaafaaaafaaaafaaaafaaaafaaaafaaaafaaaafaaaafaaaafaaaafaaaafaaaafaaaafaaaafaaaafaaaafaaaafaaaafaaaafaaaafaaaafaaaafaaaafaaaafaaaafaaaafaaaafaaaafaaaafaaaafaaaafaaaafaaaafaaaafaaaafaaaafaaaafaaaafaaaafaaaafaaaafaaaafaaaafaaaafaaaafaaaafaaaafaaaafaaaafaaaafaaaafaaaafaaaafaaaafaaaafaaaafaaaafaaaafaaaafaaaafaaaafaaaafaaaafaaaafaaaafaaaafaaaafaaaafaaaafaaaafaaaafaaaafaaaafaaaafaaaafaaaafaaaafaaaafaaaafaaaafaaaafaaaafaaaafaaaafaaaafaaaafaaaafaaaafaaaafaaaafaaaafaaaafaaaafaaaafaaaafaaaafaaaafaaaafaaaafaaaafaaaafaaaafaaaafaaaafaaaafaaaafaaaafaaaafaaaafaaaafaaaafaaaafaaaafaaaafaaaafaaaafaaaafaaaafaaaafaaaafaaaafaaaafaaaafaaaafaaaafaaaafaaaafaaaafaaaafaaaafaaaafaaaafaaaafaaaafaaaafaaaafaaaafaaaafaaaafaaaafaaaafaaaafaaaafaaaafaaaafaaaafaaaafaaaafaaaafaaaafaaaafaaaafaaaafaaaafaaaafaaaafaaaafaaaafaaaafaaaafaaaafaaaafaaaafaaaafaaaafaaaafaaaafaaaafaaaafaaaafaaaafaaaafaaaafaaaafaaaafaaaafaaaafaaaafaaaafaaaafaaaafaaaafaaaafaaaafaaaafaaaafaaaafaaaafaaaafaaaafaaaafaaaafaaaafaaaafaaaafaaaafaaaafaaaafaaaafaaaafaaaafaaaafaaaafaaaafaaaafaaaafaaaafaaaafaaaafaaaafaaaafaaaafaaaafaaaafaaaafaaaafaaaafaaaafaaaafaaaafaaaafaaaafaaaafaaaafaaaafaaaafaaaafaaaafaaaafaaaafaaaafaaaaiiigeiiigeiiigeiiigeiiigeiiigeiiigeiiigeiiigeiiigeiiigeiiigeiiigeiiigeiiigeiiigeiiigeiiigeiiigeiiigeiiigeiiigeiiigeiiigeiiigeiiigeiiigeiiigeiiigeiiigeiiigeiiigeiiigeiiigeiiigeiiigeiiigeiiigeiiigeiiigeiiigeiiigeiiigeiiigeiiigeiiigeiiigeiiigeiiigeiiigeiiigeiiigeiiigeiiigeiiigeiiigeiiigeiiigeiiigeiiigeiiigeiiigeiiigeiiigeiiigeiiigeiiigeiiigeiiigeiiigeiiigeiiigeiiigeiiigeiiigeiiigeiiigeiiigeiiigeiiigefaaaifaaaifaaaifaaaifaaaifaaaifaaaafaaaafaaaafaaaafaaaafaaaafaaaafaaaafaaaafaaaafaaaafaaaafaaaafaaaafaaaafaaaafaaaafaaaafaaaafaaaafaaaafaaaafaaaafaaaafaaaafaaaafaaaafaaaafaaaafaaaafaaaafaaaafaaaafaaaafaaaafaaaafaaaafaaaafaaaafaaaafaaaafaaaafaaaafaaaafaaaafaaaafaaaafaaaafaaaafaaaafaaaafaaaafaaaafaaaafaaaafaaaafaaaafaaaafaaaafaaaafaaaafaaaafaaaafaaaafaaaafaaaafaaaafaaaafaaaafaaaafaaaafaaaafaaaafaaaafaaaafaaaafaaaafaaaafaaaafaaaafaaaafaaaafaaaafaaaafaaaafaaaafaaaafaaaafaaaafaaaafaaaafaaaafaaaafaaaafaaaafaaaafaaaafaaaafaaaafaaaafaaaafaaaafaaaafaaaafaaaafaaaafaaaafaaaafaaaafaaaafaaaafaaaafaaaafaaaafaaaafaaaafaaaafaaaafaaaafaaaafaaaafaaaafaaaafaaaafaaaafaaaafaaaafaaaafaaaafaaaafaaaafaaaafaaaafaaaafaaaafaaaafaaaafaaaafaaaafaaaafaaaafaaaafaaaafaaaafaaaafaaaafaaaafaaaafaaaafaaaafaaaafaaaafaaaafaaaafaaaafaaaafaaaafaaaafaaaafaaaafaaaafaaaafaaaafaaaafaaaafaaaafaaaafaaaafaaaafaaaafaaaafaaaafaaaafaaaafaaaafaaaafaaaafaaaafaaaafaaaafaaaafaaaafaaaafaaaafaaaafaaaafaaaafaaaafaaaafaaaafaaaafaaaafaaaafaaaafaaaafaaaafaaaafaaaafaaaafaaaafaaaafaaaafaaaafaaaafaaaafaaaafaaaafaaaafaaaafaaaafaaaafaaaafaaaafaaaafaaaafaaaafaaaafaaaafaaaafaaaafaaaafaaaafaaaafaaaafaaaafaaaafaaaafaaaafaaaafaaaafaaaafaaaafaaaafaaaafaaaafaaaafaaaafaaaafaaaafaaaafaaaafaaaafaaaafaaaafaaaafaaaafaaaafaaaafaaaafaaaafaaaafaaaafaaaafaaaafaaaafaaaafaaaafaaaafaaaafaaaafaaaafaaaafaaaafaaaafaaaafaaaafaaaafaaaafaaaafaaaafaaaafaaaafaaaafaaaafaaaafaaaafaaaafaaaafaaaafaaaafaaaafaaaafaaaafaaaafaaaafaaaafaaaafaaaafaaaafaaaafaaaafaaaafaaaafaaaafaaaafaaaafaaaafaaaafaaaafaaaafaaaafaaaafaaaafaaaafaaaafaaaafaaaafaaaafaaaafaaaafaaaafaaaafaaaafaaaafaaaafaaaafaaaafaaaafaaaafaaaafaaaafaaaafaaaafaaaafaaaafaaaafaaaafaaaafaaaafaaaafaaaafaaaafaaaafaaaafaaaafaaaafaaaafaaaafaaaafaaaafaaaafaaaafaaaafaaaafaaaafaaaafaaaafaaaafaaaafaaaafaaaafaaaafaaaafaaaafaaaafaaaafaaaafaaaafaaaafaaaafaaaafaaaafaaaafaaaafaaaafaaaafaaaafaaaafaaaafaaaafaaaafaaaafaaaafaaaafaaaafaaaafaaaafaaaafaaaafaaaafaaaafaaaafaaaafaaaafaaaafaaaafaaaafaaaafaaaafaaaafaaaafaaaafaaaafaaaafaaaafaaaafaaaafaaaafaaaafaaaafaaaafaaaafaaaafaaaafaaaafaaaafaaaafaaaafaaaafaaaafaaaafaaaafaaaafaaaafaaaafaaaafaaaafaaaafaaaafaaaafaaaafaaaafaaaafaaaafaaaafaaaafaaaafaaaafaaaafaaaafaaaafaaaafaaaafaaaafaaaafaaaafaaaafaaaafaaaafaaaafaaaafaaaafaaaafaaaafaaaafaaaafaaaafaaaafaaaafaaaafaaaafaaaafaaaafaaaafaaaafaaaafaaaafaaaafaaaafaaaafaaaafaaaafaaaafaaaafaaaafaaaafaaaafaaaafaaaafaaaafaaaafaaaafaaaafaaaafaaaafaaaafaaaafaaaafaaaafaaaafaaaafaaaafaaaafaaaafaaaafaaaafaaaafaaaafaaaafaaaafaaaafaaaafaaaafaaaafaaaafaaaafaaaafaaaafaaaafaaaafaaaafaaaafaaaafaaaafaaaafaaaafaaaafaaaafaaaafaaaafaaaafaaaafaaaafaaaafaaaafaaaafaaaafaaaafaaaafaaaafaaaafaaaafaaaafaaaafaaaafaaaafaaaafaaaafaaaafaaaafaaaafaaaafaaaafaaaafaaaafaaaafaaaafaaaafaaaafaaaafaaaafaaaafaaaafaaaafaaaafaaaafaaaafaaaafaaaafaaaafaaaafaaaafaaaafaaaafaaaafaaaafaaaafaaaafaaaafaaaafaaaafaaaafaaaafaaaafaaaafaaaafaaaafaaaafaaaafaaaafaaaafaaaafaaaafaaaafaaaafaaaafaaaafaaaafaaaafaaaafaaaafaaaafaaaafaaaafaaaafaaaafaaaafaaaafaaaafaaaafaaaafaaaafaaaafaaaafaaaafaaaafaaaafaaaafaaaafaaaafaaaafaaaafaaaafaaaafaaaafaaaafaaaafaaaafaaaafaaaafaaaafaaaafaaaafaaaafaaaafaaaafaaaafaaaafaaaafaaaafaaaafaaaafaaaafaaaafaaaafaaaafaaaafaaaafaaaafaaaafaaaafaaaafaaaafaaaafaaaafaaaafaaaafaaaafaaaafaaaafaaaafaaaafaaaafaaaafaaaafaaaafaaaafaaaafaaaafaaaafaaaafaaaafaaaafaaaafaaaafaaaafaaaafaaaafaaaafaaaafaaaafaaaafaaaafaaaafaaaafaaaafaaaafaaaafaaaafaaaafaaaafaaaafaaaafaaaafaaaafaaaafaaaafaaaafaaaafaaaafaaaafaaaafaaaafaaaafaaaafaaaafaaaafaaaafaaaafaaaafaaaafaaaafaaaafaaaafaaaafaaaafaaaafaaaafaaaafaaaafaaaafaaaafaaaafaaaafaaaafaaaafaaaafaaaafaaaafaaaafaaaafaaaafaaaafaaaafaaaafaaaafaaaafaaaafaaaafaaaafaaaafaaaafaaaafaaaafaaaafaaaafaaaafaaaafaaaafaaaafaaaafaaaafaaaafaaaafaaaafaaaafaaaafaaaafaaaafaaaafaaaafaaaafaaaafaaaafaaaafaaaafaaaafaaaafaaaafaaaafaaaafaaaafaaaafaaaafaaaafaaaafaaaafaaaafaaaafaaaafaaaafaaaafaaaafaaaafaaaafaaaafaaaafaaaafaaaafaaaafaaaafaaaafaaaafaaaafaaaafaaaafaaaafaaaafaaaafaaaafaaaafaaaafaaaafaaaafaaaafaaaafaaaafaaaafaaaafaaaafaaaafaaaafaaaafaaaafaaaafaaaafaaaafaaaafaaaafaaaafaaaafaaaafaaaafaaaafaaaafaaaafaaaafaaaafaaaafaaaafaaaafaaaafaaaafaaaafaaaafaaaafaaaafaaaafaaaafaaaafaaaafaaaafaaaafaaaafaaaafaaaafaaaafaaaafaaaafaaaafaaaafaaaafaaaafaaaafaaaafaaaafaaaafaaaafaaaafaaaafaaaafaaaafaaaafaaaafaaaafaaaafaaaafaaaafaaaafaaaafaaaafaaaafaaaafaaaafaaaafaaaafaaaafaaaafaaaafaaaafaaaafaaaafaaaafaaaafaaaafaaaafaaaafaaaafaaaafaaaafaaaafaaaafaaaafaaaafaaaafaaaafaaaafaaaafaaaafaaaafaaaafaaaafaaaafaaaafaaaafaaaafaaaafaaaafaaaafaaaafaaaafaaaafaaaafaaaafaaaafaaaafaaaafaaaafaaaafaaaafaaaafaaaafaaaafaaaafaaaafaaaafaaaafaaaafaaaafaaaafaaaafaaaafaaaafaaaafaaaafaaaafaaaafaaaafaaaafaaaafaaaafaaaafaaaafaaaafaaaafaaaafaaaafaaaafaaaafaaaafaaaafaaaafaaaafaaaafaaaafaaaafaaaafaaaafaaaafaaaafaaaafaaaafaaaafaaaafaaaafaaaafaaaafaaaafaaaafaaaafaaaafaaaafaaaafaaaafaaaafaaaafaaaafaaaafaaaafaaaafaaaafaaaafaaaafaaaafaaaafaaaafaaaafaaaafaaaafaaaafaaaafaaaafaaaafaaaafaaaafaaaafaaaafaaaafaaaafaaaafaaaafaaaafaaaafaaaafaaaafaaaafaaaafaaaafaaaafaaaafaaaafaaaafaaaafaaaafaaaafaaaafaaaafaaaafaaaafaaaafaaaafaaaafaaaafaaaafaaaafaaaafaaaafaaaafaaaafaaaafaaaafaaaafaaaafaaaafaaaafaaaafaaaafaaaafaaaafaaaafaaaafaaaafaaaafaaaafaaaafaaaafaaaafaaaafaaaafaaaafaaaafaaaafaaaafaaaafaaaafaaaafaaaafaaaafaaaafaaaafaaaafaaaafaaaafaaaafaaaafaaaafaaaafaaaafaaaafaaaafaaaafaaaafaaaafaaaafaaaafaaaafaaaafaaaafaaaafaaaafaaaafaaaafaaaafaaaafaaaafaaaafaaaafaaaafaaaafaaaafaaaafaaaafaaaafaaaafaaaafaaaafaaaafaaaafaaaafaaaafaaaafaaaafaaaafaaaafaaaafaaaafaaaafaaaafaaaafaaaafaaaafaaaafaaaafaaaafaaaafaaaafaaaafaaaafaaaafaaaafaaaafaaaafaaaafaaaafaaaafaaaafaaaafaaaafaaaafaaaafaaaafaaaafaaaafaaaafaaaafaaaafaaaafaaaafaaaafaaaafaaaafaaaafaaaafaaaafaaaafaaaafaaaafaaaafaaaafaaaafaaaafaaaafaaaafaaaafaaaafaaaafaaaafaaaafaaaafaaaafaaaafaaaafaaaafaaaafaaaafaaaafaaaafaaaafaaaafaaaafaaaafaaaafaaaafaaaafaaaafaaaafaaaafaaaafaaaafaaaafaaaafaaaafaaaafaaaafaaaafaaaafaaaafaaaafaaaafaaaafaaaafaaaafaaaafaaaafaaaafaaaafaaaafaaaafaaaafaaaafaaaafaaaafaaaafaaaafaaaafaaaafaaaafaaaafaaaafaaaafaaaafaaaafaaaafaaaafaaaafaaaafaaaafaaaafaaaafaaaafaaaafaaaafaaaafaaaafaaaafaaaafaaaafaaaafaaaafaaaafaaaafaaaafaaaafaaaafaaaafaaaafaaaafaaaafaaaafaaaafaaaafaaaafaaaafaaaafaaaafaaaafaaaafaaaafaaaafaaaafaaaafaaaafaaaafaaaafaaaafaaaafaaaafaaaafaaaafaaaafaaaafaaaafaaaafaaaafaaaafaaaafaaaafaaaafaaaafaaaafaaaafaaaafaaaafaaaafaaaafaaaafaaaafaaaafaaaafaaaafaaaafaaaafaaaafaaaafaaaafaaaafaaaafaaaafaaaafaaaafaaaafaaaafaaaafaaaafaaaafaaaafaaaafaaaafaaaafaaaafaaaafaaaafaaaafaaaafaaaafaaaafaaaafaaaafaaaafaaaafaaaafaaaafaaaafaaaafaaaafaaaafaaaafaaaafaaaafaaaafaaaafaaaafaaaafaaaafaaaafaaaafaaaafaaaafaaaafaaaafaaaafaaaafaaaafaaaafaaaafaaaafaaaafaaaafaaaafaaaafaaaafaaaafaaaafaaaafaaaafaaaafaaaafaaaafaaaafaaaafaaaafaaaafaaaafaaaafaaaafaaaafaaaafaaaafaaaafaaaafaaaafaaaafaaaafaaaafaaaafaaaafaaaafaaaafaaaafaaaafaaaafaaaafaaaafaaaafaaaafaaaafaaaafaaaafaaaafaaaafaaaafaaaafaaaafaaaafaaaafaaaafaaaafaaaafaaaafaaaafaaaafaaaafaaaafaaaafaaaafaaaafaaaafaaaafaaaafaaaafaaaafaaaafaaaafaaaafaaaafaaaafaaaafaaaafaaaafaaaafaaaafaaaafaaaafaaaafaaaafaaaafaaaafaaaafaaaafaaaafaaaafaaaafaaaafaaaafaaaafaaaafaaaafaaaafaaaafaaaafaaaafaaaafaaaafaaaafaaaafaaaafaaaafaaaafaaaafaaaafaaaafaaaafaaaafaaaafaaaafaaaafaaaafaaaafaaaafaaaafaaaafaaaafaaaafaaaafaaaafaaaafaaaafaaaafaaaafaaaafaaaafaaaafaaaafaaaafaaaafaaaafaaaafaaaafaaaafaaaafaaaafaaaafaaaafaaaafaaaafaaaafaaaafaaaafaaaafaaaafaaaafaaaafaaaafaaaafaaaafaaaafaaaafaaaafaaaafaaaafaaaafaaaafaaaafaaaafaaaafaaaafaaaafaaaafaaaafaaaafaaaafaaaafaaaafaaaafaaaafaaaafaaaafaaaafaaaafaaaafaaaafaaaafaaaafaaaafaaaafaaaafaaaafaaaafaaaafaaaafaaaafaaaafaaaafaaaafaaaafaaaafaaaafaaaafaaaafaaaafaaaafaaaafaaaafaaaafaaaafaaaafaaaafaaaafaaaafaaaafaaaafaaaafaaaafaaaafaaaafaaaafaaaafaaaafaaaafaaaafaaaafaaaafaaaafaaaafaaaafaaaafaaaafaaaafaaaafaaaafaaaafaaaafaaaafaaaafaaaafaaaafaaaafaaaafaaaafaaaafaaaafaaaafaaaafaaaafaaaafaaaafaaaafaaaafaaaafaaaafaaaafaaaafaaaafaaaafaaaafaaaafaaaafaaaafaaaafaaaafaaaafaaaafaaaafaaaafaaaafaaaafaaaafaaaafaaaafaaaafaaaafaaaafaaaafaaaafaaaafaaaafaaaafaaaafaaaafaaaafaaaafaaaafaaaafaaaafaaaafaaaafaaaafaaaafaaaafaaaafaaaafaaaafaaaafaaaafaaaafaaaafaaaafaaaafaaaafaaaafaaaafaaaafaaaafaaaafaaaafaaaafaaaafaaaafaaaafaaaafaaaafaaaafaaaafaaaafaaaafaaaafaaaafaaaafaaaafaaaafaaaafaaaafaaaafaaaafaaaafaaaafaaaafaaaafaaaafaaaafaaaafaaaafaaaafaaaafaaaafaaaafaaaafaaaafaaaafaaaafaaaafaaaafaaaafaaaafaaaafaaaafaaaafaaaafaaaafaaaafaaaafaaaafaaaafaaaafaaaafaaaafaaaafaaaafaaaafaaaafaaaafaaaafaaaafaaaafaaaafaaaafaaaafaaaafaaaafaaaafaaaafaaaafaaaafaaaafaaaafaaaafaaaafaaaafaaaafaaaafaaaafaaaafaaaafaaaafaaaafaaaafaaaafaaaafaaaafaaaafaaaafaaaafaaaafaaaafaaaafaaaafaaaafaaaafaaaafaaaafaaaafaaaafaaaafaaaafaaaafaaaafaaaafaaaafaaaafaaaafaaaafaaaafaaaafaaaafaaaafaaaafaaaafaaaafaaaafaaaafaaaafaaaafaaaafaaaafaaaafaaaafaaaafaaaafaaaafaaaafaaaafaaaafaaaafaaaafaaaafaaaafaaaafaaaafaaaafaaaafaaaafaaaafaaaafaaaafaaaafaaaafaaaafaaaafaaaafaaaafaaaafaaaafaaaafaaaafaaaafaaaafaaaafaaaafaaaafaaaafaaaafaaaafaaaafaaaafaaaafaaaafaaaafaaaafaaaafaaaafaaaafaaaafaaaafaaaafaaaafaaaafaaaafaaaafaaaafaaaafaaaafaaaafaaaafaaaafaaaafaaaafaaaafaaaafaaaafaaaafaaaafaaaafaaaafaaaafaaaafaaaafaaaafaaaafaaaafaaaafaaaafaaaafaaaafaaaafaaaafaaaafaaaafaaaafaaaafaaaafaaaafaaaafaaaafaaaafaaaafaaaafaaaafaaaafaaaafaaaafaaaafaaaafaaaafaaaafaaaafaaaafaaaafaaaafaaaafaaaafaaaafaaaafaaaafaaaafaaaafaaaafaaaafaaaafaaaafaaaafaaaafaaaafaaaafaaaafaaaafaaaafaaaafaaaafaaaafaaaafaaaafaaaafaaaafaaaafaaaafaaaafaaaafaaaafaaaafaaaafaaaafaaaafaaaafaaaafaaaafaaaafaaaafaaaafaaaafaaaafaaaafaaaafaaaafaaaafaaaafaaaafaaaafaaaafaaaafaaaafaaaafaaaafaaaafaaaafaaaafaaaafaaaafaaaafaaaafaaaafaaaafaaaafaaaafaaaafaaaafaaaafaaaafaaaafaaaafaaaafaaaafaaaafaaaafaaaafaaaafaaaafaaaafaaaafaaaafaaaafaaaafaaaafaaaafaaaafaaaafaaaafaaaafaaaafaaaafaaaafaaaafaaaafaaaafaaaafaaaafaaaafaaaafaaaafaaaafaaaafaaaafaaaafaaaafaaaafaaaafaaaafaaaafaaaafaaaafaaaafaaaafaaaafaaaafaaaafaaaafaaaafaaaafaaaafaaaafaaaafaaaafaaaafaaaafaaaafaaaafaaaafaaaafaaaafaaaafaaaafaaaafaaaafaaaafaaaafaaaafaaaafaaaafaaaafaaaafaaaafaaaafaaaafaaaafaaaafaaaafaaaafaaaafaaaafaaaafaaaafaaaafaaaafaaaafaaaafaaaafaaaafaaaafaaaafaaaafaaaafaaaafaaaafaaaafaaaafaaaafaaaafaaaafaaaafaaaafaaaafaaaafaaaafaaaafaaaafaaaafaaaafaaaafaaaafaaaafaaaafaaaafaaaafaaaafaaaafaaaafaaaafaaaafaaaafaaaafaaaafaaaafaaaafaaaafaaaafaaaafaaaafaaaafaaaafaaaafaaaafaaaafaaaafaaaafaaaafaaaafaaaafaaaafaaaafaaaafaaaafaaaafaaaafaaaafaaaafaaaafaaaafaaaafaaaafaaaafaaaafaaaafaaaafaaaafaaaafaaaafaaaafaaaafaaaafaaaafaaaafaaaafaaaafaaaafaaaafaaaafaaaafaaaafaaaafaaaafaaaafaaaafaaaafaaaafaaaafaaaafaaaafaaaafaaaafaaaafaaaafaaaafaaaafaaaafaaaafaaaafaaaafaaaafaaaafaaaafaaaafaaaafaaaafaaaafaaaafaaaafaaaafaaaafaaaafaaaafaaaafaaaafaaaafaaaafaaaafaaaafaaaafaaaafaaaafaaaafaaaafaaaafaaaafaaaafaaaafaaaafaaaafaaaafaaaafaaaafaaaafaaaafaaaafaaaafaaaafaaaafaaaafaaaafaaaafaaaafaaaafaaaafaaaafaaaafaaaafaaaafaaaafaaaafaaaafaaaafaaaafaaaafaaaafaaaafaaaafaaaafaaaafaaaafaaaafaaaafaaaafaaaafaaaafaaaafaaaafaaaafaaaafaaaafaaaafaaaafaaaafaaaafaaaafaaaafaaaafaaaafaaaafaaaafaaaafaaaafaaaafaaaafaaaafaaaafaaaafaaaafaaaafaaaafaaaafaaaafaaaafaaaafaaaafaaaafaaaafaaaafaaaafaaaafaaaafaaaafaaaafaaaafaaaaegjjcegjjcegjjcegjjcegjjcegjjcegjjcegjjcegjjcegjjcegjjcegjjcegjjcegjjcegjjcegjjcegjjcegjjcegjjcegjjcegjjcegjjcegjjcegjjcegjjcegjjcegjjcegjjcegjjcegjjcegjjcegjjcegjjcegjjcegjjcegjjcegjjcegjjcegjjcegjjcegjjcegjjcegjjcfaaaafaaaaegjjcegjjcegjjcfaaaafaaaafaaaafaaaafaaaafaaaafaaaafaaaafaaaafaaaafaaaafaaaafaaaafaaaafaaaafaaaafaaaafaaaafaaaafaaaafaaaafaaaafaaaafaaaafaaaafaaaafaaaafaaaafaaaafaaaafaaaafaaaafaaaafaaaafaaaafaaaafaaaafaaaafaaaafaaaafaaaafaaaafaaaafaaaafaaaafaaaafaaaafaaaafaaaafaaaafaaaafaaaafaaaafaaaafaaaafaaaafaaaafaaaafaaaafaaaafaaaafaaaafaaaafaaaafaaaafaaaafaaaafaaaafaaaafaaaafaaaafaaaafaaaafaaaafaaaafaaaafaaaafaaaafaaaafaaaafaaaafaaaafaaaafaaaafaaaafaaaafaaaafaaaafaaaafaaaafaaaafaaaafaaaafaaaafaaaafaaaafaaaafaaaafaaaafaaaafaaaafaaaafaaaafaaaafaaaafaaaafaaaafaaaafaaaafaaaafaaaafaaaafaaaafaaaafaaaafaaaafaaaafaaaafaaaafaaaafaaaafaaaafaaaafaaaafaaaafaaaafaaaafaaaafaaaafaaaafaaaafaaaafaaaafaaaafaaaafaaaafaaaafaaaafaaaafaaaafaaaafaaaafaaaafaaaafaaaafaaaafaaaafaaaafaaaafaaaafaaaafaaaafaaaafaaaafaaaafaaaafaaaafaaaafaaaafaaaafaaaafaaaafaaaafaaaafaaaafaaaafaaaafaaaafaaaafaaaafaaaafaaaafaaaafaaaafaaaafaaaafaaaafaaaafaaaafaaaafaaaafaaaafaaaafaaaafaaaafaaaafaaaafaaaafaaaafaaaafaaaafaaaafaaaafaaaafaaaafaaaafaaaafaaaafaaaafaaaafaaaafaaaafaaaafaaaafaaaafaaaafaaaafaaaafaaaafaaaafaaaafaaaafaaaafaaaafaaaafaaaafaaaafaaaafaaaafaaaafaaaafaaaafaaaafaaaafaaaafaaaafaaaafaaaafaaaafaaaafaaaafaaaafaaaafaaaafaaaafaaaafaaaafaaaafaaaafaaaafaaaafaaaafaaaafaaaafaaaafaaaafaaaafaaaafaaaafaaaafaaaafaaaafaaaafaaaafaaaafaaaafaaaafaaaafaaaafaaaafaaaafaaaafaaaafaaaafaaaafaaaafaaaafaaaafaaaafaaaafaaaafaaaafaaaafaaaafaaaafaaaafaaaafaaaafaaaafaaaafaaaafaaaafaaaafaaaafaaaafaaaafaaaafaaaafaaaafaaaafaaaafaaaafaaaafaaaafaaaafaaaafaaaafaaaafaaaafaaaafaaaafaaaafaaaafaaaafaaaafaaaafaaaafaaaafaaaafaaaafaaaafaaaafaaaafaaaafaaaafaaaafaaaafaaaafaaaafaaaafaaabfaaaafaaabfaaaafaaabfaaaafaaabfaaaafaaabfaaaafaaabfaaaafaaabfaaaafaaabfaaaafaaabfaaaafaaabfaaaafaaabfaaaafaaabfaaaafaaabfaaaafaaabfaaaafaaabfaaaafaaabfaaaafaaabfaaaafaaabfaaaafaaabfaaaafaaabfaaaafaaabfaaaafaaabfaaaafaaabfaaaafaaabfaaaafaaabfaaaafaaabfaaaafaaabfaaaafaaabfaaaafaaabfaaaafaaabfaaaafaaabfaaaafaaabfaaaafaaabfaaaafaaabfaaaafaaabfaaaafaaabfaaaafaaabfaaaafaaabfaaaafaaabfaaaafaaabfaaaafaaabfaaaafaaabfaaaafaaabfaaaafaaabfaaaafaaabfaaaafaaabfaaaafaaabfaaaafaaabfaaaafaaabfaaaafaaabfaaaafaaabfaaaafaaabfaaaafaaabfaaaafaaabfaaaafaaabfaaaafaaabfaaaafaaabfaaaafaaabfaaaafaaabfaaaafaaabfaaaafaaabfaaaafaaabfaaaafaaabfaaaafaaabfaaaafaaabfaaaafaaabfaaaafaaabfaaaafaaabfaaaafaaabfaaaafaaabfaaaafaaabfaaaafaaabfaaaafaaabfaaaafaaabfaaaafaaabfaaaafaaaafaaaafaaaafaaaafaaaafaaaafaaaafaaaaecdiffaaaafaaabfaaaafaaabfaaaafaaabfaaaafaaabfaaaafaaabfaaaafaaabfaaaafaaabfaaaafaaabfaaaafaaabfaaaafaaabfaaaafaaabfaaaafaaabfaaaafaaabfaaaafaaabfaaaafaaabfaaaafaaabfaaaafaaabfaaaafaaabfaaaafaaabfaaaafaaabfaaaafaaabfaaaafaaabfaaaafaaabfaaaafaaabfaaaafaaabfaaaafaaabfaaaafaaabfaaaafaaabfaaaafaaabfaaaafaaabfaaaafaaabfaaaafaaabfaaaafaaabfaaaafaaabfaaaafaaabfaaaafaaabfaaaafaaabfaaaafaaabfaaaafaaabfaaaafaaabfaaaafaaabfaaaafaaabfaaaafaaabfaaaafaaabfaaaafaaabfaaaafaaabfaaaafaaabfaaaafaaabfaaaafaaaafaaaafaaaafaaaafaaaafaaaafaaaafaaaaejjjcejjjcejjjcejjjcejjjcejjjcejjjcejjjcfaaaafaaaafaaaafaaaafaaaafaaaafaaaafaaaaejjjcejjjcejjjcejjjcejjjcejjjcfaaaafaaaafaaaafaaaafaaaafaaaafaaaafaaaafaaaafaaaaejjjcejjjcejjjcejjjcejjjcejjjcejjjcejjjcfaaaafaaaafaaaafaaaafaaaafaaaafaaaafaaaaejjjcejjjcejjjcejjjcejjjcejjjcejjjcejjjcfaaaafaaaafaaaafaaaafaaaafaaaafaaaafaaaaejjjcejjjcejjjcejjjcejjjcejjjcfaaaafaaaafaaaafaaaafaaaafaaaafaaaafaaaafaaaafaaaafaaaaejjjcfaaaaejjjcfaaaaejjjcfaaaaejjjcfaaaafaaaafaaaafaaaafaaaafaaaafaaaafaaaaejjjcejjjcejjjcejjjcejjjcejjjcejjjcejjjcfaaaafaaaafaaaafaaaafaaaafaaaafaaaafaaaafaaaafaaaafaaaafaaaafaaaafaaaafaaaafaaaafaaaafaaaafaaaafaaaafaaaafaaaafaaaafaaaaejjjcejjjcejjjcejjjcejjjcejjjcejjjcejjjcfaaaafaaaafaaaafaaaafaaaafaaaafaaaafaaaaejjjcejjjcejjjcejjjcejjjcejjjcejjjcejjjcfaaaafaaaafaaaafaaaafaaaafaaaafaaaafaaaaejjjcejjjcejjjcejjjcejjjcejjjcejjjcejjjcfaaaafaaaafaaaafaaaafaaaafaaaafaaaafaaaaejjjcejjjcejjcgejjcgejjjbfaaaafaaaafaaaafaaaafaaaafaaaafaaaafaaaafaaaafaaaafaaaaejjbeejjbeejjbeejjbeejjjbfaaaafaaaafaaaafaaaafaaaafaaaafaaaafaaaafaaaafaaaafaaaaejjjcejjjcejjaaejjaafaaaafaaaafaaaafaaaafaaaafaaaafaaaafaaaafaaaafaaaafaaaafaaaaejjjcejjjcejiiiejiiiejjjdfaaaafaaaafaaaafaaaafaaaafaaaafaaaafaaaafaaaafaaaafaaaaejihcejihcejiheejiheejjjbfaaaafaaaafaaaafaaaafaaaafaaaafaaaafaaaafaaaafaaaafaaaafaaaafaaaafaaaafaaaafaaaafaaaafaaaafaaaafaaaafaaaafaaaafaaaafaaaafaaaafaaaafaaaafaaaafaaaafaaaafaaaafaaaafaaaafaaaafaaaafaaaafaaaafaaaafaaaafaaaafaaaafaaaafaaaafaaaafaaaafaaaafaaaafaaaafaaaafaaaafaaaafaaaafaaaafaaaafaaaafaaaafaaaafaaaafaaaafaaaafaaaafaaaafaaaafaaaafaaaafaaaafaaaafaaaafaaaafaaaafaaaafaaaafaaaafaaaafaaaafaaaafaaaafaaaafaaaafaaaafaaaafaaaafaaaafaaaafaaaafaaaafaaaafaaaafaaaafaaaafaaaafaaaafaaaafaaaafaaaafaaaafaaaafaaaafaaaafaaaafaaaafaaaafaaaafaaaafaaaafaaaafaaaafaaaafaaaafaaaafaaaafaaaafaaaafaaaafaaaafaaaafaaaafaaaafaaaafaaaafaaaafaaaafaaaafaaaafaaaafaaaafaaaafaaaafaaaafaaaafaaaafaaaafaaaafaaaafaaaafaaaafaaaafaaaafaaaafaaaafaaaafaaaafaaaafaaaafaaaafaaaafaaaafaaaafaaaafaaaafaaaafaaaafaaaafaaaafaaaafaaaafaaaafaaaafaaaafaaaafaaaafaaaafaaaafaaaafaaaafaaaafaaaafaaaafaaaafaaaafaaaafaaaafaaaafaaaafaaaafaaaafaaaafaaaafaaaafaaaafaaaafaaaafaaaafaaaafaaaafaaaafaaaafaaaafaaaafaaaafaaaafaaaafaaaafaaaafaaaafaaaafaaaafaaaafaaaafaaaafaaaafaaaafaaaafaaaafaaaafaaaafaaaafaaaafaaaafaaaafaaaafaaaafaaaafaaaafaaaafaaaafaaaafaaaafaaaafaaaafaaaafaaaafaaaafaaaafaaaafaaaafaaaafaaaafaaaafaaaafaaaafaaaafaaaafaaaafaaaafaaaafaaaafaaaafaaaafaaaafaaaafaaaafaaaafaaaafaaaafaaaafaaaafaaaafaaaafaaaafaaaafaaaafaaaafaaaafaaaafaaaafaaaafaaaafaaaafaaaafaaaafaaaafaaaafaaaafaaaafaaaafaaaafaaaafaaaafaaaafaaaafaaaafaaaafaaaafaaaafaaaafaaaafaaaafaaaafaaaafaaaafaaaafaaaafaaaafaaaafaaaafaaaafaaaafaaaafaaaafaaaafaaaafaaaafaaaafaaaafaaaafaaaaeceidfaaaafaaaafaaaaebgbhebhdifaaaafaaaafaaaafaaaafaaaafaaaafaacifaaaafaaaafaaaafaaaafaaaafaaaafaaaafaaaafaaaafaaaafaaaafaaaafaaaafaaaafaaaafaaaafaaaafaaaafaaaafaaaafaaaafaaaafaaaafaaaafaaaafaaaafaaaafaaaafaaaafaaaafaaaafaaaafaaaafaaaafaaaafaaaafaaaafaaaafaaaafaaaafaaaafaaaafaaaafaaaafaaaafaabgfaabgfaabgfaabgfaabgfaabgfaabgfaabgfaabgfaabgfaabgfaabgfaabgfaabgfaabgfaabgfaaaafaaaafaaaafaaaafaaaafaaaafaaaafaaaafaaaafaaaafaaaafaaaafaaaafaaaafaaaafaaaafaaaafaaaafaaaafaaabfaaaafaaaafaaaafaaaafaaaafaaaafaaaafaaaafaaaafaaaafaaaafaaaafaaaafaaaafaaaafaaaafaaaafaaaafaaaafaaaafaaaafaaaafaaaafaaaafaaaafaaaafaaaafaaaafaaaafaaaafaaaafaaaafaaaafaaaafaaaafaaaafaaaafaaaafaaaafaaaafaaaafaaaafaaaafaaaafaaaafaaaafaaaafaaaafaaaafaaaafaaaafaaaafaaaafaaaafaaaafaaaafaaaafaaaafaaaafaaaafaaaafaaaafaaaafaaaafaaaafaaaafaaaafaaaafaaaafaaaafaaaafaaaafaaaafaaaafaaaafaaaafaaaafaaaafaaaafaaaafaaaafaaaafaaaafaaaafaaaafaaaafaaaafaaaafaaaafaaaafaaaafaaaafaaaafaaaafaaaafaaaafaaaafaaaafaaaafaaaafaaaafaaaafaaaafaaaafaaaafaaaafaaaafaaaafaaaafaaaafaaaafaaaafaaaafaaaafaaaafaaaafaaaafaaaafaaaafaaaafaaaafaaaafaaaafaaaafaaaafaaaafaaaafaaaafaaaafaaaafaaaafaaaafaaaafaaaafaaaafaaaafaaaafaaaafaaaafaaaafaaaafaaaafaaaafaaaafaaaafaaaafaaaafaaaafaaaafaaaafaaaafaaaafaaaafaaaafaaaafaaaafaaaafaaaafaaaafaaaafaaaafaaaafaaaafaaaafaaaafaaaafaaaafaaaafaaaafaaaafaaaafaaaafaaaafaaaafaaaafaaaafaaaafaaaafaaaafaaaafaaaafaaaafaaaafaaaafaaaafaaaafaaaafaaaafaaaafaaaafaaaafaaaafaaaafaaaafaaaafaaaafaaaafaaaafaaaafaaaafaaaafaaaafaaaafaaaafaaaafaaaafaaaafaaaafaaaafaaaafaaaafaaaafaaaafaaaafaaaafaaaafaaaafaaaafaaaafaaaafaaaafaaaafaaaafaaaafaaaafaaaafaaaafaaaafaaaafaaaafaaaafaaaafaaaafaaaafaaaafaaaafaaaafaaaafaaaafaaaafaaaafaaaafaaaafaaaafaaaafaaaafaaaafaaaafaaaafaaaafaaaafaaaafaaaafaaaafaaaafaaaafaaaafaaaafaaaafaaaafaaaafaaaafaaaafaaaafaaaafaaaafaaaafaaaafaaaafaaaafaaaafaaaafaaaafaaaafaaaafaaaafaaaafaaaafaaaafaaaafaaaafaaaafaaaafaaaafaaaafaaaafaaaafaaaafaaaafaaaafaaaafaaaafaaaafaaaafaaaafaaaafaaaafaaaafaaaafaaaafaaaafaaaafaaaafaaaafaaaafaaaafaaaafaaaafaaaafaaaafaaaafaaaafaaaafaaaafaaaafaaaafaaaafaaaafaaaafaaaafaaaafaaaafaaaafaaaafaaaafaaaafaaaafaaaafaaaafaaaafaaaafaaaafaaaafaaaafaaaafaaaafaaaafaaaafaaaafaaaafaaaafaaaafaaaafaaaafaaaafaaaafaaaafaaaafaaaafaaaafaaaafaaaafaaaafaaaafaaaafaaaafaaaafaaaafaaaafaaaafaaaafaaaafaaaafaaaafaaaafaaaafaaaafaaaafaaaafaaaafaaaafaaaafaaaafaaaafaaaafaaaafaaaafaaaafaaaafaaaafaaaafaaaafaaaafaaaafaaaafaaaafaaaafaaaafaaaafaaaafaaaafaaaafaaaafaaaafaaaafaaaafaaaafaaaafaaaafaaaafaaaafaaaafaaaafaaaafaaaafaaaafaaaafaaaafaaaafaaaafaaaafaaaafaaaafaaaafaaaafaaaafaaaafaaaafaaaafaaaafaaaafaaaafaaaafaaaafaaaafaaaafaaaafaaaafaaaafaaaafaaaafaaaafaaaafaaaafaaaafaaaafaaaafaaaafaaaafaaaafaaaafaaaafaaaafaaaafaaaafaaaafaaaafaaaafaaaafaaaafaaaafaaaafaaaafaaaafaaaafaaaafaaaafaaaafaaaafaaaafaaaafaaaafaaaafaaaafaaaafaaaafaaaafaaaafaaaafaaaafaaaafaaaafaaaafaaaafaaaafaaaafaaaafaaaafaaaafaaaafaaaafaaaafaaaafaaaafaaaafaaaafaaaafaaaafaaaafaaaafaaaafaaaafaaaafaaaafaaaafaaaafaaaafaaaafaaaafaaaafaaaafaaaafaaaafaaaafaaaafaaaafaaaafaaaafaaaafaaaafaaaafaaaafaaaafaaaafaaaafaaaafaaaafaaaafaaaafaaaafaaaafaaaafaaaafaaaafaaaafaaaafaaaafaaaafaaaafaaaafaaaafaaaafaaaafaaaafaaaafaaaafaaaafaaaafaaaafaaaafaaaafaaaafaaaafaaaafaaaafaaaafaaaafaaaafaaaafaaaafaaaafaaaafaaaafaaaafaaaafaaaafaaaafaaaafaaaafaaaafaaaafaaaafaaaafaaaafaaaafaaaafaaaafaaaafaaaafaaaafaaaafaaaafaaaafaaaafaaaafaaaafaaaafaaaafaaaafaaaafaaaafaaaafaaaafaaaafaaaafaaaafaaaafaaaafaaaafaaaafaaaafaaaafaaaafaaaafaaaafaaaafaaaafaaaafaaaafaaaafaaaafaaaafaaaafaaaafaaaafaaaafaaaafaaaafaaaafaaaafaaaafaaaafaaaafaaaafaaaafaaaafaaaafaaaafaaaafaaaafaaaafaaaafaaaafaaaafaaaafaaaafaaaafaaaafaaaafaaaafaaaafaaaafaaaafaaaafaaaafaaaafaaaafaaaafaaaafaaaafaaaafaaaafaaaafaaaafaaaafaaaafaaaafaaaafaaaafaaaafaaaafaaaafaaaafaaaafaaaafaaaafaaaafaaaafaaaafaaaafaaaafaaaafaaaafaaaafaaaafaaaafaaaafaaaafaaaafaaaafaaaafaaaafaaaafaaaafaaaafaaaafaaaafaaaafaaaafaaaafaaaafaaaafaaaafaaaafaaaafaaaafaaaafaaaafaaaafaaaafaaaafaaaafaaaafaaaafaaaafaaaafaaaafaaaafaaaafaaaafaaaafaaaafaaaafaaaafaaaafaaaafaaaafaaaafaaaafaaaafaaaafaaaafaaaafaaaafaaaafaaaafaaaafaaaafaaaafaaaafaaaafaaaafaaaafaaaafaaaafaaaafaaaafaaaafaaaafaaaafaaaafaaaafaaaafaaaafaaaafaaaafaaaafaaaafaaaafaaaafaaaafaaaafaaaafaaaafaaaafaaaafaaaafaaaafaaaafaaaafaaaafaaaafaaaafaaaafaaaafaaaafaaaafaaaafaaaafaaaafaaaafaaaafaaaafaaaafaaaafaaaafaaaafaaaafaaaafaaaafaaaafaaaafaaaafaaaafaaaafaaaafaaaafaaaafaaaafaaaafaaaafaaaafaaaafaaaafaaaafaaaafaaaafaaaafaaaafaaaafaaaafaaaafaaaafaaaafaaaafaaaafaaaafaaaafaaaafaaaafaaaafaaaafaaaafaaaafaaaafaaaafaaaafaaaafaaaafaaaafaaaafaaaafaaaafaaaafaaaafaaaafaaaafaaaafaacgfaacgfaacgfaacgfaacgfaacgfaacgfaacgfaacgfaacgfaacgfaacgfaacgfaacgfaacgfaacgfaacgfaacgfaacgfaacgfaacgfaacgfaacgfaacgfaacgfaacgfaaaafaaaafaaaafaaaafaaaafaaaafaaaafaaaafaaaafaaaafaaaafaaaafaaaafaaaafaaaafaaaafaaaafaaaafaaaafaaaafaaaafaaaafaaaafaaaafaaaafaaaafaaaafaaaafaaaafaaaafaaaafaaaafaaaafaaaafaaaafaaaafaaaafaaaafaaaafaaaafaaaafaaaafaaaafaaaafaaaafaaaafaaaafaaaafaaaafaaaafaaaafaaaafaaaafaaaafaaaafaaaafaaaafaaaafaaaafaaaafaaaafaaaafaaaafaaaafaaaafaaaafaaaafaaaafaaaafaaaafaaaafaaaafaaaafaaaafaaaafaaaafaaaafaaaafaaaafaaaafaaaafaaaafaaaafaaaafaaaafaaaafaaaafaaaafaaaafaaaafaaaafaaaafaaaafaaaafaaaafaaaafaaaafaaaafaaaafaaaafaaaafaaaafaaaafaaaafaaaafaaaafaaaafaaaafaaaafaaaafaaaafaaaafaaaafaaaafaaaafaaaafaaaafaaaafaaaafaaaafaaaafaaaafaaaafaaaafaaaafaaaafaaaafaaaafaaaafaaaafaaaafaaaafaaaafaaaafaaaafaaaafaaaafaaaafaaaafaaaafaaaafaaaafaaaafaaaafaaaafaaaafaaaafaaaafaaaafaaaafaaaafaaaafaaaafaaaafaaaafaaaafaaaafaaaafaaaafaaaafaaaafaaaafaaaafaaaafaaaafaaaafaaaafaaaafaaaafaaaafaaaafaaaafaaaafaaaafaaaafaaaafaaaafaaaafaaaafaaaafaaaafaaaafaaaafaaaafaaaafaaaafaaaafaaaafaaaafaaaafaaaafaaaafaaaafaaaafaaaafaaaafaaaafaaaafaaaafaaaafaaaafaaaafaaaafaaaafaaaafaaaafaaaafaaaafaaaafaaaafaaaafaaaafaaaafaaaafaaaafaaaafaaaafaaaafaaaafaaaafaaaafaaaafaaaafaaaafaaaafaaaafaaaafaaaafaaaafaaaafaaaafaaaafaaaafaaaafaaaafaaaafaaaafaaaafaaaafaaaafaaaafaaaafaaaafaaaafaaaafaaaafaaaafaaaafaaaafaaaafaaaafaaaafaaaafaaaafaaaafaaaafaaaafaaaafaaaafaaaafaaaafaaaafaaaafaaaafaaaafaaaafaaaafaaaafaaaafaaaafaaaafaaaafaaaafaaaafaaaafaaaafaaaafaaaafaaaafaaaafaaaafaaaafaaaafaaaafaaaafaaaafaaaafaaaafaaaafaaaafaaaafaaaafaaaafaaaafaaaafaaaafaaaafaaaafaaaafaaaafaaaafaaaafaaaafaaaafaaaafaaaafaaaafaaaafaaaafaaaafaaaafaaaafaaaafaaaafaaaafaaaafaaaafaaaafaaaafaaaafaaaafaaaafaaaafaaaafaaaafaaaafaaaafaaaafaaaafaaaafaaaafaaaafaaaafaaaafaaaafaaaafaaaafaaaafaaaafaaaafaaaafaaaafaaaafaaaafaaaafaaaafaaaafaaaafaaaafaaaafaaaafaaaafaaaafaaaafaaaafaaaafaaaafaaaafaaaafaaaafaaaafaaaafaaaafaaaafaaaafaaaafaaaafaaaafaaaafaaaafaaaafaaaafaaaafaaaafaaaafaaaafaaaafaaaafaaaafaaaafaaaafaaaafaaaafaaaafaaaafaaaafaaaafaaaafaaaafaaaafaaaafaaaafaaaafaaaafaaaafaaaafaaaafaaaafaaaafaaaafaaaafaaaafaaaafaaaafaaaafaaaafaaaafaaaafaaaafaaaafaaaafaaaafaaaafaaaafaaaafaaaafaaaafaaaafaaaafaaaafaaaafaaaafaaaafaaaafaaaafaaaafaaaafaaaafaaaafaaaafaaaafaaaafaaaafaaaafaaaafaaaafaaaafaaaafaaaafaaaafaaaafaaaafaaaafaaaafaaaafaaaafaaaafaaaafaaaafaaaafaaaafaaaafaaaafaaaafaaaafaaaafaaaafaaaafaaaafaaaafaaaafaaaafaaaafaaaafaaaafaaaafaaaafaaaafaaaafaaaafaaaafaaaafaaaafaaaafaaaafaaaafaaaafaaaafaaaafaaaafaaaafaaaafaaaafaaaafaaaafaaaafaaaafaaaafaaaafaaaafaaaafaaaafaaaafaaaafaaaafaaaafaaaafaaaafaaaafaaaafaaaafaaaafaaaafaaaafaaaafaaaafaaaafaaaafaaaafaaaafaaaafaaaafaaaafaaaafaaaafaaaafaaaafaaaafaaaafaaaafaaaafaaaafaaaafaaaafaaaafaaaafaaaafaaaafaaaafaaaafaaaafaaaafaaaafaaaafaaaafaaaafaaaafaaaafaaaafaaaafaaaafaaaafaaaafaaaafaaaafaaaafaaaafaaaafaaaafaaaafaaaafaaaafaaaafaaaafaaaafaaaafaaaafaaaafaaaafaaaafaaaafaaaafaaaafaaaafaaaafaaaafaaaafaaaafaaaafaaaafaaaafaaaafaaaafaaaafaaaafaaaafaaaafaaaafaaaafaaaafaaaafaaaafaaaafaaaafaaaafaaaafaaaafaaaafaaaafaaaafaaaafaaaafaaaafaaaafaaaafaaaafaaaafaaaafaaaafaaaafaaaafaaaafaaaafaaaafaaaafaaaafaaaafaaaafaaaafaaaafaaaafaaaafaaaafaaaafaaaafaaaafaaaafaaaafaaaafaaaafaaaafaaaafaaaafaaaafaaaafaaaafaaaafaaaafaaaafaaaafaaaafaaaafaaaafaaaafaaaafaaaafaaaafaaaafaaaafaaaafaaaafaaaafaaaafaaaafaaaafaaaafaaaafaaaafaaaafaaaafaaaafaaaafaaaafaaaafaaaafaaaafaaaafaaaafaaaafaaaafaaaafaaaafaaaafaaaafaaaafaaaafaaaafaaaafaaaafaaaafaaaafaaaafaaaafaaaafaaaafaaaafaaaafaaaafaaaafaaaafaaaafaaaafaaaafaaaafaaaafaaaafaaaafaaaafaaaafaaaafaaaafaaaafaaaafaaaafaaaafaaaafaaaafaaaafaaaafaaaafaaaafaaaafaaaafaaaafaaaafaaaafaaaafaaaafaaaafaaaafaaaafaaaafaaaafaaaafaaaafaaaafaaaafaaaafaaaafaaaafaaaafaaaafaaaafaaaafaaaafaaaafaaaafaaaafaaaafaaaafaaaafaaaafaaaafaaaafaaaafaaaafaaaafaaaafaaaafaaaafaaaafaaaafaaaafaaaafaaaafaaaafaaaafaaaafaaaafaaaafaaaafaaaafaaaafaaaafaaaafaaaafaaaafaaaafaaaafaaaafaaaafaaaafaaaafaaaafaaaafaaaafaaaafaaaafaaaafaaaafaaaafaaaafaaaafaaaafaaaafaaaafaaaafaaaafaaaafaaaafaaaafaaaafaaaafaaaafaaaafaaaafaaaafaaaafaaaafaaaafaaaafaaaafaaaafaaaafaaaafaaaafaaaafaaaafaaaafaaaafaaaafaaaafaaaafaaaafaaaafaaaafaaaafaaaafaaaafaaaafaaaafaaaafaaaafaaaafaaaafaaaafaaaafaaaafaaaafaaaafaaaafaaaafaaaafaaaafaaaafaaaafaaaafaaaafaaaafaaaafaaaafaaaafaaaafaaaafaaaafaaaafaaaafaaaafaaaafaaaafaaaafaaaafaaaafaaaafaaaafaaaafaaaafaaaafaaaafaaaafaaaafaaaafaaaafaaaafaaaafaaaafaaaafaaaafaaaafaaaafaaaafaaaafaaaafaaaafaaaafaaaafaaaafaaaafaaaafaaaafaaaafaaaafaaaafaaaafaaaafaaaafaaaafaaaafaaaafaaaafaaaafaaaafaaaafaaaafaaaafaaaafaaaafaaaafaaaafaaaafaaaafaaaafaaaafaaaafaaaafaaaafaaaafaaaafaaaafaaaafaaaafaaaafaaaafaaaafaaaafaaaafaaaafaaaafaaaafaaaafaaaafaaaafaaaafaaaafaaaafaaaafaaaafaaaafaaaafaaaafaaaafaaaafaaaafaaaafaaaafaaaafaaaafaaaafaaaafaaaafaaaafaaaafaaaafaaaafaaaafaaaafaaaafaaaafaaaafaaaafaaaafaaaafaaaafaaaafaaaafaaaafaaaafaaaafaaaafaaaafaaaafaaaafaaaafaaaafaaaafaaaafaaaafaaaafaaaafaaaafaaaafaaaafaaaafaaaafaaaafaaaafaaaafaaaafaaaafaaaafaaaafaaaafaaaafaaaafaaaafaaaafaaaafaaaafaaaafaaaafaaaafaaaafaaaafaaaafaaaafaaaafaaaafaaaafaaaafaaaafaaaafaaaafaaaafaaaafaaaafaaaafaaaafaaaafaaaafaaaafaaaafaaaafaaaafaaaafaaaafaaaafaaaafaaaafaaaafaaaafaaaafaaaafaaaafaaaafaaaafaaaafaaaafaaaafaaaafaaaafaaaafaaaafaaaafaaaafaaaafaaaafaaaafaaaafaaaafaaaafaaaafaaaafaaaafaaaafaaaafaaaafaaaafaaaafaaaafaaaafaaaafaaaafaaaafaaaafaaaafaaaafaaaafaaaafaaaafaaaafaaaafaaaafaaaafaaaafaaaafaaaafaaaafaaaafaaaafaaaafaaaafaaaafaaaafaaaafaaaafaaaafaaaafaaaafaaaafaaaafaaaafaaaafaaaafaaaafaaaafaaaafaaaafaaaafaaaafaaaafaaaafaaaafaaaafaaaafaaaafaaaafaaaafaaaafaaaafaaaafaaaafaaaafaaaafaaaafaaaafaaaafaaaafaaaafaaaafaaaafaaaafaaaafaaaafaaaafaaaafaaaafaaaafaaaafaaaafaaaafaaaafaaaafaaaafaaaafaaaafaaaafaaaafaaaafaaaafaaaafaaaafaaaafaaaafaaaafaaaafaaaafaaaafaaaafaaaafaaaafaaaafaaaafaaaafaaaafaaaafaaaafaaaafaaaafaaaafaaaafaaaafaaaafaaaafaaaafaaaafaaaafaaaafaaaafaaaafaaaafaaaafaaaafaaaafaaaafaaaafaaaafaaaafaaaafaaaafaaaafaaaafaaaafaaaafaaaafaaaafaaaafaaaafaaaafaaaafaaaafaaaafaaaafaaaafaaaafaaaafaaaafaaaafaaaafaaaafaaaafaaaafaaaafaaaafaaaafaaaafaaaafaaaafaaaafaaaafaaaafaaaafaaaafaaaafaaaafaaaafaaaafaaaafaaaafaaaafaaaafaaaafaaaafaaaafaaaafaaaafaaaafaaaafaaaafaaaafaaaafaaaafaaaafaaaafaaaafaaaafaaaafaaaafaaaafaaaafaaaafaaaafaaaafaaaafaaaafaaaafaaaafaaaafaaaafaaaafaaaafaaaafaaaafaaaafaaaafaaaafaaaafaaaafaaaafaaaafaaaafaaaafaaaafaaaafaaaafaaaafaaaafaaaafaaaafaaaafaaaafaaaafaaaafaaaafaaaafaaaafaaaafaaaafaaaafaaaafaaaafaaaafaaaafaaaafaaaafaaaafaaaafaaaafaaaafaaaafaaaafaaaafaaaafaaaafaaaafaaaafaaaafaaaafaaaafaaaafaaaafaaaafaaaafaaaafaaaafaaaafaaaafaaaafaaaafaaaafaaaafaaaafaaaafaaaafaaaafaaaafaaaafaaaafaaaafaaaafaaaafaaaafaaaafaaaafaaaafaaaafaaaafaaaafaaaafaaaafaaaafaaaafaaaafaaaafaaaafaaaafaaaafaaaafaaaafaaaafaaaafaaaafaaaafaaaafaaaafaaaafaaaafaaaafaaaafaaaafaaaafaaaafaaaafaaaafaaaafaaaafaaaafaaaafaaaafaaaafaaaafaaaafaaaafaaaafaaaafaaaafaaaafaaaafaaaafaaaafaaaafaaaafaaaafaaaafaaaafaaaafaaaafaaaafaaaafaaaafaaaafaaaafaaaafaaaafaaaafaaaafaaaafaaaafaaaafaaaafaaaafaaaafaaaafaaaafaaaafaaaafaaaafaaaafaaaafaaaafaaaafaaaafaaaafaaaafaaaafaaaafaaaafaaaafaaaafaaaafaaaafaaaafaaaafaaaafaaaafaaaafaaaafaaaafaaaafaaaafaaaafaaaafaaaafaaaafaaaafaaaafaaaafaaaafaaaafaaaafaaaafaaaafaaaafaaaafaaaafaaaafaaaafaaaafaaaafaaaafaaaafaaaafaaaafaaaafaaaafaaaafaaaafaaaafaaaafaaaafaaaafaaaafaaaafaaaafaaaafaaaafaaaafaaaafaaaafaaaafaaaafaaaafaaaafaaaafaaaafaaaafaaaafaaaafaaaafaaaafaaaafaaaafaaaafaaaafaaaafaaaafaaaafaaaafaaaafaaaafaaaafaaaafaaaafaaaafaaaafaaaafaaaafaaaafaaaafaaaafaaaafaaaafaaaafaaaafaaaafaaaafaaaafaaaafaaaafaaaafaaaafaaaafaaaafaaaafaaaafaaaafaaaafaaaafaaaafaaaafaaaafaaaafaaaafaaaafaaaafaaaafaaaafaaaafaaaafaaaafaaaafaaaafaaaafaaaafaaaafaaaafaaaafaaaafaaaafaaaafaaaafaaaafaaaafaaaafaaaafaaaafaaaafaaaafaaaafaaaafaaaafaaaafaaaafaaaafaaaafaaaafaaaafaaaafaaaafaaaafaaaafaaaafaaaafaaaafaaaafaaaafaaaafaaaafaaaafaaaafaaaafaaaafaaaafaaaafaaaafaaaafaaaafaaaafaaaafaaaafaaaafaaaafaaaafaaaafaaaafaaaafaaaafaaaafaaaafaaaafaaaafaaaafaaaafaaaafaaaafaaaafaaaafaaaafaaaafaaaafaaaafaaaafaaaafaaaafaaaafaaaafaaaafaaaafaaaafaaaafaaaafaaaafaaaafaaaafaaaafaaaafaaaafaaaafaaaafaaaafaaaafaaaafaaaafaaaafaaaafaaaafaaaafaaaafaaaafaaaafaaaafaaaafaaaafaaaafaaaafaaaafaaaafaaaafaaaafaaaafaaaafaaaafaaaafaaaafaaaafaaaafaaaafaaaafaaaafaaaafaaaafaaaafaaaafaaaafaaaafaaaafaaaafaaaafaaaafaaaafaaaafaaaafaaaafaaaafaaaafaaaafaaaafaaaafaaaafaaaafaaaafaaaafaaaafaaaafaaaafaaaafaaaafaaaafaaaafaaaafaaaafaaaafaaaafaaaafaaaafaaaafaaaafaaaafaaaafaaaafaaaafaaaafaaaafaaaafaaaafaaaafaaaafaaaafaaaafaaaafaaaafaaaafaaaafaaaafaaaafaaaafaaaafaaaafaaaafaaaafaaaafaaaafaaaafaaaafaaaafaaaafaaaafaaaafaaaafaaaafaaaafaaaafaaaafaaaafaaaafaaaafaaaafaaaafaaaafaaaafaaaafaaaafaaaafaaaafaaaafaaaafaaaafaaaafaaaafaaaafaaaafaaaafaaaafaaaafaaaafaaaafaaaafaaaafaaaafaaaafaaaafaaaafaaaafaaaafaaaafaaaafaaaafaaaafaaaafaaaafaaaafaaaafaaaafaaaafaaaafaaaafaaaafaaaafaaaafaaaafaaaafaaaafaaaafaaaafaaaafaaaafaaaafaaaafaaaafaaaafaaaafaaaafaaaafaaaafaaaafaaaafaaaafaaaafaaaafaaaafaaaafaaaafaaaafaaaafaaaafaaaafaaaafaaaafaaaafaaaafaaaafaaaafaaaafaaaafaaaafaaaafaaaafaaaafaaaafaaaafaaaafaaaafaaaafaaaafaaaafaaaafaaaafaaaafaaaafaaaafaaaafaaaafaaaafaaaafaaaafaaaafaaaafaaaafaaaafaaaafaaaafaaaafaaaafaaaafaaaafaaaafaaaafaaaafaaaafaaaafaaaafaaaafaaaafaaaafaaaafaaaafaaaafaaaafaaaafaaaafaaaafaaaafaaaafaaaafaaaafaaaafaaaafaaaafaaaafaaaafaaaafaaaafaaaafaaaafaaaafaaaafaaaafaaaafaaaafaaaafaaaafaaeifaaeifaaeifaaeifaaeifaaeifaaeifaaeifaaeifaaeifaaeifaaeifaaeifaaeifaaeifaaeifaaeifaaeifaaeifaaeifaaeifaaeifaaeifaaeifaaeifaaeifaaeifaaeifaaeifaaeifaaeifaaeifaaeifaaeifaaeifaaeifaaeifaaeifaaeifaaeifaaeifaaeifaaeifaaeifaaeifaaeifaaeifaaeifaaaafaaaafaaaafaaaafaaaafaaaafaaaafaaaafaaaafaaaafaaaafaaaafaaaafaaaafaaaafaaaafaaaafaaaafaaaafaaaafaaaafaaaafaaaafaaaafaaaafaaaafaaaafaaaafaaaafaaaafaaaafaaaafaaaafaaaafaaaafaaaafaaaafaaaafaaaafaaaafaaaafaaaafaaaafaaaafaaaafaaaafaaaafaaaafaaabfaaaadjcfhegbigdjchdfaaaafaaaafaaabfaaaafaaabfaaaafaaabfaaaadjccadjcfbdjcbhdjcbifaaaafaaabfaaaafaaaafaaabfaaaafaaaafaaaafaaaafaaaafaaaafaaaafaaaadjbifdjbiffaaabfaaaafaaabfaaaafaaabfaaaafaaabfaaaafaaabfaaaafaaabfaaaafaaabfaaaafaaabfaaaafaaabfaaaafaaabfaaaafaaabfaaaafaaabfaaaafaaabfaaaafaaabfaaaafaaabfaaaafaaabfaaaafaaabfaaaafaaabfaaaafaaabfaaaafaaabfaaaafaaabfaaaafaaabfaaaafaaabfaaaafaaabfaaaafaaabfaaaafaaabfaaaafaaabfaaaafaaabfaaaafaaabfaaaafaaabfaaaafaaabfaaaafaaabfaaaafaaabfaaaafaaabfaaaafaaabfaaaafaaabfaaaafaaabfaaaafaaabfaaaafaaabfaaaafaaabfaaaafaaabfaaaafaaabfaaaafaaabfaaaafaaabfaaaafaaabfaaaafaaabfaaaafaaabfaaaafaaabfaaaafaaabfaaaafaaabfaaaafaaaafaaaafaaaafaaaafaaaafaaaafaaaafaaabfaaaafaaabfaaaafaaaafaaaafaaaafaaabfaaaafaaaafaaaafaaaafaaaafaaaafaaaafaaaafaaaafaaaafaaaafaaaafaaaafaaaafaaaafaaaafaaaafaaaafaaaafaaaafaaaafaaaafaaaafaaaafaaaafaaaafaaaafaaaafaaaafaaaafaaaafaaaafaaaafaaaafaaaafaaaafaaaafaaaafaaaafaaaafaaaafaaaafaaaafaaaafaaaafaaaafaaaafaaaafaaaafaaaafaaaafaaaafaaaafaaaafaaaafaaaafaaaafaaaafaaaafaaaafaaaafaaaafaaaafaaaafaaaafaaaafaaaafaaaafaaaafaaaafaaaafaaaafaaaafaaaafaaaafaaaafaaaafaaaafaaaafaaaafaaaafaaaafaaaafaaaafaaaafaaaafaaaafaaaafaaaafaaaafaaaafaaaafaaaafaaaafaaaafaaaafaaaafaaaafaaaafaaaafaaaafaaaafaaaafaaaafaaaafaaaafaaaafaaaafaaaafaaaafaaaafaaaafaaaafaaaafaaaafaaaafaaaafaaaafaaaafaaaafaaaafaaaafaaaafaaaafaaaafaaaafaaaafaaaafaaaafaaaafaaaafaaaafaaaafaaaafaaaafaaaafaaaafaaaafaaaafaaaafaaaafaaaafaaaafaaaafaaaafaaaafaaaafaaaafaaaafaaaafaaaafaaaafaaaafaaaafaaaafaaaafaaaafaaaafaaaafaaaafaaaafaaaafaaaafaaaafaaaafaaaafaaaafaaaafaaaafaaaafaaaafaaaafaaaafaaaafaaaafaaaafaaaafaaaafaaaafaaaafaaaafaaaafaaaafaaaafaaaafaaaafaaaafaaaafaaaafaaaafaaaafaaaafaaaafaaaafaaaafaaaafaaaafaaaafaaaafaaaafaaaafaaaafaaaafaaaafaaaafaaaafaaaafaaaafaaaafaaaafaaaafaaaafaaaafaaaafaaaafaaaafaaaafaaaafaaaafaaaafaaaafaaaafaaaafaaaafaaaafaaaafaaaafaaaafaaaafaaaafaaaafaaaafaaaafaaaafaaaafaaaafaaaafaaaafaaaafaaaafaaaafaaaafaaaafaaaafaaaafaaaafaaaafaaaafaaaafaaaafaaaafaaaafaaaafaaaafaaaafaaaafaaaafaaaafaaaafaaaafaaaafaaaafaaaafaaaafaaaafaaaafaaaafaaaafaaaafaaaafaaaafaaaafaaaafaaaafaaaafaaaafaaaafaaaafaaaafaaaafaaaafaaaafaaaafaaaafaaaafaaaafaaaafaaaafaaaafaaaafaaaafaaaafaaaafaaaafaaaafaaaafaaaafaaaafaaaafaaaafaaaafaaaafaaaafaaaafaaaafaaaafaaaafaaaafaaaafaaaafaaaafaaaafaaaafaaaafaaaafaaaafaaaafaaaafaaaafaaaafaaaafaaaafaaaafaaaafaaaafaaaafaaaafaaaafaaaafaaaafaaaafaaaafaaaafaaaafaaaafaaaafaaaafaaaafaaaafaaaafaaaafaaaafaaaafaaaafaaaafaaaafaaaafaaaafaaaafaaaafaaaafaaaafaaaafaaaafaaaafaaaafaaaafaaaafaaaafaaaafaaaafaaaafaaaafaaaafaaaafaaaafaaaafaaaafaaaafaaaafaaaafaaaafaaaafaaaafaaaafaaaafaaaafaaaafaaaafaaaafaaaafaaaafaaaafaaaafaaaafaaaafaaaafaaaafaaaafaaaafaaaafaaaafaaaafaaaafaaaafaaaafaaaafaaaafaaaafaaaafaaaafaaaafaaaafaaaafaaaafaaaafaaaafaaaafaaaafaaaafaaaafaaaafaaaafaaaafaaaafaaaafaaaafaaaafaaaafaaaafaaaafaaaafaaaafaaaafaaaafaaaafaaaafaaaafaaaafaaaafaaaafaaaafaaaafaaaafaaaafaaaafaaaafaaaafaaaafaaaafaaaafaaaafaaaafaaaafaaaafaaaafaaaafaaaafaaaafaaaafaaaafaaaafaaaafaaaafaaaafaaaafaaaafaaaafaaaafaaaafaaaafaaaafaaaafaaaafaaaafaaaafaaaafaaaafaaaafaaaafaaaafaaaafaaaafaaaafaaaafaaaafaaaafaaaafaaaafaaaafaaaafaaaafaaaafaaaafaaaafaaaafaaaafaaaafaaaafaaaafaaaafaaaafaaaafaaaafaaaafaaaafaaaafaaaafaaaafaaaafaaaafaaaafaaaafaaaafaaaafaaaafaaaafaaaafaaaafaaaafaaaafaaaafaaaafaaaafaaaafaaaafaaaafaaaafaaaafaaaafaaaafaaaafaaaafaaaafaaaafaaaafaaaafaaaafaaaafaaaafaaaafaaaafaaaafaaaafaaaafaaaafaaaafaaaafaaaafaaaafaaaafaaaafaaaafaaaafaaaafaaaafaaaafaaaafaaaafaaaafaaaafaaaafaaaafaaaafaaaafaaaafaaaafaaaafaaaafaaaafaaaafaaaafaaaafaaaafaaaafaaaafaaaafaaaafaaaafaaaafaaaafaaaafaaaafaaaafaaaafaaaafaaaafaaaafaaaafaaaafaaaafaaaafaaaafaaaafaaaafaaaafaaaafaaaafaaaafaaaafaaaafaaaafaaaafaaaafaaaafaaaafaaaafaaaafaaaafaaaafaaaafaaaafaaaafaaaafaaaafaaaafaaaafaaaafaaaafaaaafaaaafaaaafaaaafaaaafaaaafaaaafaaaafaaaafaaaafaaaafaaaafaaaafaaaafaaaafaaaafaaaafaaaafaaaafaaaafaaaafaaaafaaaafaaaafaaaafaaaafaaaafaaaafaaaafaaaafaaaafaaaafaaaafaaaafaaaafaaaafaaaafaaaafaaaafaaaafaaaafaaaafaaaafaaaafaaaafaaaafaaaafaaaafaaaafaaaafaaaafaaaafaaaafaaaafaaaafaaaafaaaafaaaafaaaafaaaafaaaafaaaafaaaafaaaafaaaafaaaafaaaafaaaafaaaafaaaafaaaafaaaafaaaafaaaafaaaafaaaafaaaafaaaafaaaafaaaafaaaafaaaafaaaafaaaafaaaafaaaafaaaafaaaafaaaafaaaafaaaafaaaafaaaafaaaafaaaafaaaafaaaafaaaafaaaafaaaafaaaafaaaafaaaafaaaafaaaafaaaafaaaafaaaafaaaafaaaafaaaafaaaafaaaafaaaafaaaafaaaafaaaafaaaafaaaafaaaafaaaafaaaafaaaafaaaafaaaafaaaafaaaafaaaafaaaafaaaafaaaafaaaafaaaafaaaafaaaafaaaafaaaafaaaafaaaafaaaafaaaafaaaafaaaafaaaafaaaafaaaafaaaafaaaafaaaafaaaafaaaafaaaafaaaafaaaafaaaafaaaafaaaafaaaafaaaafaaaafaaaafaaaafaaaafaaaafaaaafaaaafaaaafaaaafaaaafaaaafaaaafaaaafaaaafaaaafaaaafaaaafaaaafaaaafaaaafaaaafaaaafaaaafaaaafaaaafaaaafaaaafaaaafaaaafaaaafaaaafaaaafaaaafaaaafaaaafaaaafaaaafaaaafaaaafaaaafaaaafaaaafaaaafaaaafaaaafaaaafaaaafaaaafaaaafaaaafaaaafaaaafaaaafaaaafaaaafaaaafaaaafaaaafaaaafaaaafaaaafaaaafaaaafaaaafaaaafaaaafaaaafaaaafaaaafaaaafaaaafaaaafaaaafaaaafaaaafaaaafaaaafaaaafaaaafaaaafaaaafaaaafaaaafaaaafaaaafaaaafaaaafaaaafaaaafaaaafaaaafaaaafaaaafaaaafaaaafaaaafaaaafaaaafaaaafaaaafaaaafaaaafaaaafaaaafaaaafaaaafaaaafaaaafaaaafaaaafaaaafaaaafaaaafaaaafaaaafaaaafaaaafaaaafaaaafaaaafaaaafaaaafaaaafaaaafaaaafaaaafaaaafaaaafaaaafaaaafaaaafaaaafaaaafaaaafaaaafaaaafaaaafaaaafaaaafaaaafaaaafaaaafaaaafaaaafaaaafaaaafaaaafaaaafaaaafaaaafaaaafaaaafaaaafaaaafaaaafaaaafaaaafaaaafaaaafaaaafaaaafaaaafaaaafaaaafaaaafaaaafaaaafaaaafaaaafaaaafaaaafaaaafaaaafaaaafaaaafaaaafaaaafaaaafaaaafaaaafaaaafaaaafaaaafaaaafaaaafaaaafaaaafaaaafaaaafaaaafaaaafaaaafaaaafaaaafaaaafaaaafaaaafaaaafaaaafaaaafaaaafaaaafaaaafaaaafaaaafaaaafaaaafaaaafaaaafaaaafaaaafaaaafaaaafaaaafaaaafaaaafaaaafaaaafaaaafaaaafaaaafaaaafaaaafaaaafaaaafaaaafaaaafaaaafaaaafaaaafaaaafaaaafaaaafaaaafaaaafaaaafaaaafaaaafaaaafaaaafaaaafaaaafaaaafaaaafaaaafaaaafaaaafaaaafaaaafaaaafaaaafaaaafaaaafaaaafaaaafaaaafaaaafaaaafaaaafaaaafaaaafaaaafaaaafaaaafaaaafaaaafaaaafaaaafaaaafaaaafaaaafaaaafaaaafaaaafaaaafaaaafaaaafaaaafaaaafaaaafaaaafaaaafaaaafaaaafaaaafaaaafaaaafaaaafaaaafaaaafaaaafaaaafaaaafaaaafaaaafaaaafaaaafaaaafaaaafaaaafaaaafaaaafaaaafaaaafaaaafaaaafaaaafaaaafaaaafaaaafaaaafaaaafaaaafaaaafaaaafaaaafaaaafaaaafaaaafaaaafaaaafaaaafaaaafaaaafaaaafaaaafaaaafaaaafaaaafaaaafaaaafaaaafaaaafaaaafaaaafaaaafaaaafaaaafaaaafaaaafaaaafaaaafaaaafaaaafaaaafaaaafaaaafaaaafaaaafaaaafaaaafaaaafaaaafaaaafaaaafaaaafaaaafaaaafaaaafaaaafaaaafaaaafaaaafaaaafaaaafaaaafaaaafaaaafaaaafaaaafaaaafaaaafaaaafaaaafaaaafaaaafaaaafaaaafaaaafaaaafaaaafaaaafaaaafaaaafaaaafaaaafaaaafaaaafaaaafaaaafaaaafaaaafaaaafaaaafaaaafaaaafaaaafaaaafaaaafaaaafaaaafaaaafaaaafaaaafaaaafaaaafaaaafaaaafaaaafaaaafaaaafaaaafaaaafaaaafaaaafaaaafaaaafaaaafaaaafaaaafaaaafaaaafaaaafaaaafaaaafaaaafaaaafaaaafaaaafaaaafaaaafaaaafaaaafaaaafaaaafaaaafaaaafaaaafaaaafaaaafaaaafaaaafaaaafaaaafaaaafaaaafaaaafaaaafaaaafaaaafaaaafaaaafaaaafaaaafaaaafaaaafaaaafaaaafaaaafaaaafaaaafaaaafaaaafaaaafaaaafaaaafaaaafaaaafaaaafaaaafaaaafaaaafaaaafaaaafaaaafaaaafaaaafaaaafaaaafaaaafaaaafaaaafaaaafaaaafaaaafaaaafaaaafaaaafaaaafaaaafaaaafaaaafaaaafaaaafaaaafaaaafaaaafaaaafaaaafaaaafaaaafaaaafaaaafaaaafaaaafaaaafaaaafaaaafaaaafaaaafaaaafaaaafaaaafaaaafaaaafaaaafaaaafaaaafaaaafaaaafaaaafaaaafaaaafaaaafaaaafaaaafaaaafaaaafaaaafaaaafaaaafaaaafaaaafaaaafaaaafaaaafaaaafaaaafaaaafaaaafaaaafaaaafaaaafaaaafaaaafaaaafaaaafaaaafaaaafaaaafaaaafaaaafaaaafaaaafaaaafaaaafaaaafaaaafaaaafaaaafaaaafaaaafaaaafaaaafaaaafaaaafaaaafaaaafaaaafaaaafaaaafaaaafaaaafaaaafaaaafaaaafaaaafaaaafaaaafaaaafaaaafaaaafaaaafaaaafaaaafaaaafaaaafaaaafaaaafaaaafaaaafaaaafaaaafaaaafaaaafaaaafaaaafaaaafaaaafaaaafaaaafaaaafaaaafaaaafaaaafaaaafaaaafaaaafaaaafaaaafaaaafaaaafaaaafaaaafaaaafaaaafaaaafaaaafaaaafaaaafaaaafaaaafaaaafaaaafaaaafaaaafaaaafaaaafaaaafaaaafaaaafaaaafaaaafaaaafaaaafaaaafaaaafaaaafaaaafaaaafaaaafaaaafaaaafaaaafaaaafaaaafaaaafaaaafaaaafaaaafaaaafaaaafaaaafaaaafaaaafaaaafaaaafaaaafaaaafaaaafaaaafaaaafaaaafaaaafaaaafaaaafaaaafaaaafaaaafaaaafaaaafaaaafaaaafaaaafaaaafaaaafaaaafaaaafaaaafaaaafaaaafaaaafaaaafaaaafaaaafaaaafaaaafaaaafaaaafaaaafaaaafaaaafaaaafaaaafaaaafaaaafaaaafaaaafaaaafaaaafaaaafaaaafaaaafaaaafaaaafaaaafaaaafaaaafaaaafaaaafaaaafaaaafaaaafaaaafaaaafaaaafaaaafaaaafaaaafaaaafaaaafaaaafaaaafaaaafaaaafaaaafaaaafaaaafaaaafaaaafaaaafaaaafaaaafaaaafaaaafaaaafaaaafaaaafaaaafaaaafaaaafaaaafaaaafaaaafaaaafaaaafaaaafaaaafaaaafaaaafaaaafaaaafaaaafaaaafaaaafaaaafaaaafaaaafaaaafaaaafaaaafaaaafaaaafaaaafaaaafaaaafaaaafaaaafaaaafaaaafaaaafaaaafaaaafaaaafaaaafaaaafaaaafaaaafaaaafaaaafaaaafaaaafaaaafaaaafaaaafaaaafaaaafaaaafaaaafaaaafaaaafaaaafaaaafaaaafaaaafaaaafaaaafaaaafaaaafaaaafaaaafaaaafaaaafaaaafaaaafaaaafaaaafaaaafaaaafaaaafaaaafaaaafaaaafaaaafaaaafaaaafaaaafaaaafaaaafaaaafaaaafaaaafaaaafaaaafaaaafaaaafaaaafaaaafaaaafaaaafaaaafaaaafaaaafaaaafaaaafaaaafaaaafaaaafaaaafaaaafaaaafaaaafaaaafaaaafaaaafaaaafaaaafaaaafaaaafaaaafaaaafaaaafaaaafaaaafaaaafaaaafaaaafaaaafaaaafaaaafaaaafaaaafaaaafaaaafaaaafaaaafaaaafaaaafaaaafaaaafaaaafaaaafaaaafaaaafaaaafaaaafaaaafaaaafaaaafaaaafaaaafaaaafaaaafaaaafaaaafaaaafaaaafaaaafaaaafaaaafaaaafaaaafaaaafaaaafaaaafaaaafaaaafaaaafaaaafaaaafaaaafaaaafaaaafaaaafaaaafaaaafaaaafaaaafaaaafaaaafaaaafaaaafaaaafaaaafaaaafaaaafaaaafaaaafaaaafaaaafaaaafaaaafaaaafaaaafaaaafaaaafaaaafaaaafaaaafaaaafaaaafaaaafaaaafaaaafaaaafaaaafaaaafaaaafaaaafaaaafaaaafaaaafaaaafaaaafaaaafaaaafaaaafaaaafaaaafaaaafaaaafaaaafaaaafaaaafaaaafaaaafaaaafaaaafaaaafaaaafaaaafaaaafaaaafaaaafaaaafaaaafaaaafaaaafaaaafaaaafaaaafaaaafaaaafaaaafaaaafaaaafaaaafaaaafaaaafaaaafaaaafaaaafaaaafaaaafaaaafaaaafaaaafaaaafaaaafaaaafaaaafaaaafaaaafaaaafaaaafaaaafaaaafaaaafaaaafaaaafaaaafaaaafaaaafaaaafaaaafaaaafaaaafaaaafaaaafaaaafaaaafaaaafaaaafaaaafaaaafaaaafaaaafaaaafaaaafaaaafaaaafaaaafaaaafaaaafaaaafaaaafaaaafaaaafaaaafaaaafaaaafaaaafaaaafaaaafaaaafaaaafaaaafaaaafaaaafaaaafaaaafaaaafaaaafaaaafaaaafaaaafaaaafaaaafaaaafaaaafaaaafaaaafaaaafaaaafaaaafaaaafaaaafaaaafaaaafaaaafaaaafaaaafaaaafaaaafaaaafaaaafaaaafaaaafaaaafaaaafaaaafaaaafaaaafaaaafaaaafaaaafaaaafaaaafaaaafaaaafaaaafaaaafaaaafaaaafaaaafaaaafaaaafaaaafaaaafaaaafaaaafaaaafaaaafaaaafaaaafaaaafaaaafaaaafaaaafaaaafaaaafaaaafaaaafaaaafaaaafaaaafaaaafaaaafaaaafaaaafaaaafaaaafaaaafaaaafaaaafaaaafaaaafaaaafaaaafaaaafaaaafaaaafaaaafaaaafaaaafaaaafaaaafaaaafaaaafaaaafaaaafaaaafaaaafaaaafaaaafaaaafaaaafaaaafaaaafaaaafaaaafaaaafaaaafaaaafaaaafaaaafaaaafaaaafaaaafaaaafaaaafaaaafaaaafaaaafaaaafaaaafaaaafaaaafaaaafaaaafaaaafaaaafaaaafaaaafaaaafaaaafaaaafaaaafaaaafaaaafaaaafaaaafaaaafaaaafaaaafaaaafaaaafaaaafaaaafaaaafaaaafaaaafaaaafaaaafaaaafaaaafaaaafaaaafaaaafaaaafaaaafaaaafaaaafaaaafaaaafaaaafaaaafaaaafaaaafaaaafaaaafaaaafaaaafaaaafaaaafaaaafaaaafaaaafaaaafaaaafaaaafaaaafaaaafaaaafaaaafaaaafaaaafaaaafaaaafaaaafaaaafaaaafaaaafaaaafaaaafaaaafaaaafaaaafaaaafaaaafaaaafaaaafaaaafaaaafaaaafaaaafaaaafaaaafaaaafaaaafaaaafaaaafaaaafaaaafaaaafaaaafaaaafaaaafaaaafaaaafaaaafaaaafaaaafaaaafaaaafaaaafaaaafaaaafaaaafaaaafaaaafaaaafaaaafaaaafaaaafaaaafaaaafaaaafaaaafaaaafaaaafaaaafaaaafaaaafaaaafaaaafaaaafaaaafaaaafaaaafaaaafaaaafaaaafaaaafaaaafaaaafaaaafaaaafaaaafaaaafaaaafaaaafaaaafaaaafaaaafaaaafaaaafaaaafaaaafaaaafaaaafaaaafaaaafaaaafaaaafaaaafaaaafaaaafaaaafaaaafaaaafaaaafaaaafaaaafaaaafaaaafaaaafaaaafaaaafaaaafaaaafaaaafaaaafaaaafaaaafaaaafaaaafaaaafaaaafaaaafaaaafaaaafaaaafaaaafaaaafaaaafaaaafaaaafaaaafaaaafaaaafaaaafaaaafaaaafaaaafaaaafaaaafaaaafaaaafaaaafaaaafaaaafaaaafaaaafaaaafaaaafaaaafaaaafaaaafaaaafaaaafaaaafaaaafaaaafaaaafaaaafaaaafaaaafaaaafaaaafaaaafaaaafaaaafaaaafaaaafaaaafaaaafaaaafaaaafaaaafaaaafaaaafaaaafaaaafaaaafaaaafaaaafaaaafaaaafaaaafaaaafaaaafaaaafaaaafaaaafaaaafaaaafaaaafaaaafaaaafaaaafaaaafaaaafaaaafaaaafaaaafaaaafaaaafaaaafaaaafaaaafaaaafaaaafaaaafaaaafaaaafaaaafaaaafaaaafaaaafaaaafaaaafaaaafaaaafaaaafaaaafaaaafaaaafaaaafaaaafaaaafaaaafaaaafaaaafaaaafaaaafaaaafaaaafaaaafaaaafaaaafaaaafaaaafaaaafaaaafaaaafaaaafaaaafaaaafaaaafaaaafaaaafaaaafaaaafaaaafaaaafaaaafaaaafaaaafaaaafaaaafaaaafaaaafaaaafaaaafaaaafaaaafaaaafaaaafaaaafaaaafaaaafaaaafaaaafaaaafaaaafaaaafaaaafaaaafaaaafaaaafaaaafaaaafaaaafaaaafaaaafaaaafaaaafaaaafaaaafaaaafaaaafaaaafaaaafaaaafaaaafaaaafaaaafaaaafaaaafaaaafaaaafaaaafaaaafaaaafaaaafaaaafaaaafaaaafaaaafaaaafaaaafaaaafaaaafaaaafaaaafaaaafaaaafaaaafaaaafaaaafaaaafaaaafaaaafaaaafaaaafaaaafaaaafaaaafaaaafaaaafaaaafaaaafaaaafaaaafaaaafaaaafaaaafaaaafaaaafaaaafaaaafaaaafaaaafaaaafaaaafaaaafaaaafaaaafaaaafaaaafaaaafaaaafaaaafaaaafaaaafaaaafaaaafaaaafaaaafaaaafaaaafaaaafaaaafaaaafaaaafaaaafaaaafaaaafaaaafaaaafaaaafaaaafaaaafaaaafaaaafaaaafaaaafaaaafaaaafaaaafaaaafaaaafaaaafaaaafaaaafaaaafaaaafaaaafaaaafaaaafaaaafaaaafaaaafaaaafaaaafaaaafaaaafaaaafaaaafaaaafaaaafaaaafaaaafaaaafaaaafaaaafaaaafaaaafaaaafaaaafaaaafaaaafaaaafaaaafaaaafaaaafaaaafaaaafaaaafaaaafaaaafaaaafaaaafaaaafaaaafaaaafaaaafaaaafaaaafaaaafaaaafaaaafaaaafaaaafaaaafaaaafaaaafaaaafaaaafaaaafaaaafaaaafaaaafaaaafaaaafaaaafaaaafaaaafaaaafaaaafaaaafaaaafaaaafaaaafaaaafaaaafaaaafaaaafaaaafaaaafaaaafaaaafaaaafaaaafaaaafaaaafaaaafaaaafaaaafaaaafaaaafaaaafaaaafaaaafaaaafaaaafaaaafaaaafaaaafaaaafaaaafaaaafaaaafaaaafaaaafaaaafaaaafaaaafaaaafaaaafaaaafaaaafaaaafaaaafaaaafaaaafaaaafaaaafaaaafaaaafaaaafaaaafaaaafaaaafaaaafaaaafaaaafaaaafaaaafaaaafaaaafaaaafaaaafaaaafaaaafaaaafaaaafaaaafaaaafaaaafaaaafaaaafaaaafaaaafaaaafaaaafaaaafaaaafaaaafaaaafaaaafaaaafaaaafaaaafaaaafaaaafaaaafaaaafaaaafaaaafaaaafaaaafaaaafaaaafaaaafaaaafaaaafaaaafaaaafaaaafaaaafaaaafaaaafaaaafaaaafaaaafaaaafaaaafaaaafaaaafaaaafaaaafaaaafaaaafaaaafaaaafaaaafaaaafaaaafaaaafaaaafaaaafaaaafaaaafaaaafaaaafaaaafaaaafaaaafaaaafaaaafaaaafaaaafaaaafaaaafaaaafaaaafaaaafaaaafaaaafaaaafaaaafaaaafaaaafaaaafaaaafaaaafaaaafaaaafaaaafaaaafaaaafaaaafaaaafaaaafaaaafaaaafaaaafaaaafaaaafaaaafaaaafaaaafaaaafaaaafaaaafaaaafaaaafaaaafaaaafaaaafaaaafaaaafaaaafaaaafaaaafaaaafaaaafaaaafaaaafaaaafaaaafaaaafaaaafaaaafaaaafaaaafaaaafaaaafaaaafaaaafaaaafaaaafaaaafaaaafaaaafaaaafaaaafaaaafaaaafaaaafaaaafaaaafaaaafaaaafaaaafaaaafaaaafaaaafaaaafaaaafaaaafaaaafaaaafaaaafaaaafaaaafaaaafaaaafaaaafaaaafaaaafaaaafaaaafaaaafaaaafaaaafaaaafaaaafaaaafaaaafaaaafaaaafaaaafaaaafaaaafaaaafaaaafaaaafaaaafaaaafaaaafaaaafaaaafaaaafaaaafaaaafaaaafaaaafaaaafaaaafaaaafaaaafaaaafaaaafaaaafaaaafaaaafaaaafaaaafaaaafaaaafaaaafaaaafaaaafaaaafaaaafaaaafaaaafaaaafaaaafaaaafaaaafaaaafaaaafaaaafaaaafaaaafaaaafaaaafaaaafaaaafaaaafaaaafaaaafaaaafaaaafaaaafaaaafaaaafaaaafaaaafaaaafaaaafaaaafaaaafaaaafaaaafaaaafaaaafaaaafaaaafaaaafaaaafaaaafaaaafaaaafaaaafaaaafaaaafaaaafaaaafaaaafaaaafaaaafaaaafaaaafaaaafaaaafaaaafaaaafaaaafaaaafaaaafaaaafaaaafaaaafaaaafaaaafaaaafaaaafaaaafaaaafaaaafaaaafaaaafaaaafaaaafaaaafaaaafaaaafaaaafaaaafaaaafaaaafaaaafaaaafaaaafaaaafaaaafaaaafaaaafaaaafaaaafaaaafaaaafaaaafaaaafaaaafaaaafaaaafaaaafaaaafaaaafaaaafaaaafaaaafaaaafaaaafaaaafaaaafaaaafaaaafaaaafaaaafaaaafaaaafaaaafaaaafaaaafaaaafaaaafaaaafaaaafaaaafaaaafaaaafaaaafaaaafaaaafaaaafaaaafaaaafaaaafaaaafaaaafaaaafaaaafaaaafaaaafaaaafaaaafaaaafaaaafaaaafaaaafaaaafaaaafaaaafaaaafaaaafaaaafaaaafaaaafaaaafaaaafaaaafaaaafaaaafaaaafaaaafaaaafaaaafaaaafaaaafaaaafaaaafaaaafaaaafaaaafaaaafaaaafaaaafaaaafaaaafaaaafaaaafaaaafaaaafaaaafaaaafaaaafaaaafaaaafaaaafaaaafaaaafaaaafaaaafaaaafaaaafaaaafaaaafaaaafaaaafaaaafaaaafaaaafaaaafaaaafaaaafaaaafaaaafaaaafaaaafaaaafaaaafaaaafaaaafaaaafaaaafaaaafaaaafaaaafaaaafaaaafaaaafaaaafaaaafaaaafaaaafaaaafaaaafaaaafaaaafaaaafaaaafaaaafaaaafaaaafaaaafaaaafaaaafaaaafaaaafaaaafaaaafaaaafaaaafaaaafaaaafaaaafaaaafaaaafaaaafaaaafaaaafaaaafaaaafaaaafaaaafaaaafaaaafaaaafaaaafaaaafaaaafaaaafaaaafaaaafaaaafaaaafaaaafaaaafaaaafaaaafaaaafaaaafaaaafaaaafaaaafaaaafaaaafaaaafaaaafaaaafaaaafaaaafaaaafaaaafaaaafaaaafaaaafaaaafaaaafaaaafaaaafaaaafaaaafaaaafaaaafaaaafaaaafaaaafaaaafaaaafaaaafaaaafaaaafaaaafaaaafaaaafaaaafaaaafaaaafaaaafaaaafaaaafaaaafaaaafaaaafaaaafaaaafaaaafaaaafaaaafaaaafaaaafaaaafaaaafaaaafaaaafaaaafaaaafaaaafaaaafaaaafaaaafaaaafaaaafaaaafaaaafaaaafaaaafaaaafaaaafaaaafaaaafaaaafaaaafaaaafaaaafaaaafaaaafaaaafaaaafaaaafaaaafaaaafaaaafaaaafaaaafaaaafaaaafaaaafaaaafaaaafaaaafaaaafaaaafaaaafaaaafaaaafaaaafaaaafaaaafaaaafaaaafaaaafaaaafaaaafaaaafaaaafaaaafaaaafaaaafaaaafaaaafaaaafaaaafaaaafaaaafaaaafaaaafaaaafaaaafaaaafaaaafaaaafaaaafaaaafaaaafaaaafaaaafaaaafaaaafaaaafaaaafaaaafaaaafaaaafaaaafaaaafaaaafaaaafaaaafaaaafaaaafaaaafaaaafaaaafaaaafaaaafaaaafaaaafaaaafaaaafaaaafaaaafaaaafaaaafaaaafaaaafaaaafaaaafaaaafaaaafaaaafaaaafaaaafaaaafaaaafaaaafaaaafaaaafaaaafaaaafaaaafaaaafaaaafaaaafaaaafaaaafaaaafaaaafaaaafaaaafaaaafaaaafaaaafaaaafaaaafaaaafaaaafaaaafaaaafaaaafaaaafaaaafaaaafaaaafaaaafaaaafaaaafaaaafaaaafaaaafaaaafaaaafaaaafaaaafaaaafaaaafaaaafaaaafaaaafaaaafaaaafaaaafaaaafaaaafaaaafaaaafaaaafaaaafaaaafaaaafaaaafaaaafaaaafaaaafaaaafaaaafaaaafaaaafaaaafaaaafaaaafaaaafaaaafaaaafaaaafaaaafaaaafaaaafaaaafaaaafaaaafaaaafaaaafaaaafaaaafaaaafaaaafaaaafaaaafaaaafaaaafaaaafaaaafaaaafaaaafaaaafaaaafaaaafaaaafaaaafaaaafaaaafaaaafaaaafaaaafaaaafaaaafaaaafaaaafaaaafaaaafaaaafaaaafaaaafaaaafaaaafaaaafaaaafaaaafaaaafaaaafaaaafaaaafaaaafaaaafaaaafaaaafaaaafaaaafaaaafaaaafaaaafaaaafaaaafaaaafaaaafaaaafaaaafaaaafaaaafaaaafaaaafaaaafaaaafaaaafaaaafaaaafaaaafaaaafaaaafaaaafaaaafaaaafaaaafaaaafaaaafaaaafaaaafaaaafaaaafaaaafaaaafaaaafaaaafaaaafaaaafaaaafaaaafaaaafaaaafaaaafaaaafaaaafaaaafaaaafaaaafaaaafaaaafaaaafaaaafaaaafaaaafaaaafaaaafaaaafaaaafaaaafaaaafaaaafaaaafaaaafaaaafaaaafaaaafaaaafaaaafaaaafaaaafaaaafaaaafaaaafaaaafaaaafaaaafaaaafaaaafaaaafaaaafaaaafaaaafaaaafaaaafaaaafaaaafaaaafaaaafaaaafaaaafaaaafaaaafaaaafaaaafaaaafaaaafaaaafaaaafaaaafaaaafaaaafaaaafaaaafaaaafaaaafaaaafaaaafaaaafaaaafaaaafaaaafaaaafaaaafaaaafaaaafaaaafaaaafaaaafaaaafaaaafaaaafaaaafaaaafaaaafaaaafaaaafaaaafaaaafaaaafaaaafaaaafaaaafaaaafaaaafaaaafaaaafaaaafaaaafaaaafaaaafaaaafaaaafaaaafaaaafaaaafaaaafaaaafaaaafaaaafaaaafaaaafaaaafaaaafaaaafaaaafaaaafaaaafaaaafaaaafaaaafaaaafaaaafaaaafaaaafaaaafaaaafaaaafaaaafaaaafaaaafaaaafaaaafaaaafaaaafaaaafaaaafaaaafaaaafaaaafaaaafaaaafaaaafaaaafaaaafaaaafaaaafaaaafaaaafaaaafaaaafaaaafaaaafaaaafaaaafaaaafaaaafaaaafaaaafaaaafaaaafaaaafaaaafaaaafaaaafaaaafaaaafaaaafaaaafaaaafaaaafaaaafaaaafaaaafaaaafaaaafaaaafaaaafaaaafaaaafaaaafaaaafaaaafaaaafaaaafaaaafaaaafaaaafaaaafaaaafaaaafaaaafaaaafaaaafaaaafaaaafaaaafaaaafaaaafaaaafaaaafaaaafaaaafaaaafaaaafaaaafaaaafaaaafaaaafaaaafaaaafaaaafaaaafaaaafaaaafaaaafaaaafaaaafaaaafaaaafaaaafaaaafaaaafaaaafaaaafaaaafaaaafaaaafaaaafaaaafaaaafaaaafaaaafaaaafaaaafaaaafaaaafaaaafaaaafaaaafaaaafaaaafaaaafaaaafaaaafaaaafaaaafaaaafaaaafaaaafaaaafaaaafaaaafaaaafaaaafaaaafaaaafaaaafaaaafaaaafaaaafaaaafaaaafaaaafaaaafaaaafaaaafaaaafaaaafaaaafaaaafaaaafaaaafaaaafaaaafaaaafaaaafaaaafaaaafaaaafaaaafaaaafaaaafaaaafaaaafaaaafaaaafaaaafaaaafaaaafaaaafaaaafaaaafaaaafaaaafaaaafaaaafaaaafaaaafaaaafaaaafaaaafaaaafaaaafaaaafaaaafaaaafaaaafaaaafaaaafaaaafaaaafaaaafaaaafaaaafaaaafaaaafaaaafaaaafaaaafaaaafaaaafaaaafaaaafaaaafaaaafaaaafaaaafaaaafaaaafaaaafaaaafaaaafaaaafaaaafaaaafaaaafaaaafaaaafaaaafaaaafaaaafaaaafaaaafaaaafaaaafaaaafaaaafaaaafaaaafaaaafaaaafaaaafaaaafaaaafaaaafaaaafaaaafaaaafaaaafaaaafaaaafaaaafaaaafaaaafaaaafaaaafaaaafaaaafaaaafaaaafaaaafaaaafaaaafaaaafaaaafaaaafaaaafaaaafaaaafaaaafaaaafaaaafaaaafaaaafaaaafaaaafaaaafaaaafaaaafaaaafaaaafaaaafaaaafaaaafaaaafaaaafaaaafaaaafaaaafaaaafaaaafaaaafaaaafaaaafaaaafaaaafaaaafaaaafaaaafaaaafaaaafaaaafaaaafaaaafaaaafaaaafaaaafaaaafaaaafaaaafaaaafaaaafaaaafaaaafaaaafaaaafaaaafaaaafaaaafaaaafaaaafaaaafaaaafaaaafaaaafaaaafaaaafaaaafaaaafaaaafaaaafaaaafaaaafaaaafaaaafaaaafaaaafaaaafaaaafaaaafaaaafaaaafaaaafaaaafaaaafaaaafaaaafaaaafaaaafaaaafaaaafaaaafaaaafaaaafaaaafaaaafaaaafaaaafaaaafaaaafaaaafaaaafaaaafaaaafaaaafaaaafaaaafaaaafaaaafaaaafaaaafaaaafaaaafaaaafaaaafaaaafaaaafaaaafaaaafaaaafaaaafaaaafaaaafaaaafaaaafaaaafaaaafaaaafaaaafaaaafaaaafaaaafaaaafaaaafaaaafaaaafaaaafaaaafaaaafaaaafaaaafaaaafaaaafaaaafaaaafaaaafaaaafaaaafaaaafaaaafaaaafaaaafaaaafaaaafaaaafaaaafaaaafaaaafaaaafaaaafaaaafaaaafaaaafaaaafaaaafaaaafaaaafaaaafaaaafaaaafaaaafaaaafaaaafaaaafaaaafaaaafaaaafaaaafaaaafaaaafaaaafaaaafaaaafaaaafaaaafaaaafaaaafaaaafaaaafaaaafaaaafaaaafaaaafaaaafaaaafaaaafaaaafaaaafaaaafaaaafaaaafaaaafaaaafaaaafaaaafaaaafaaaafaaaafaaaafaaaafaaaafaaaafaaaafaaaafaaaafaaaafaaaafaaaafaaaafaaaafaaaafaaaafaaaafaaaafaaaafaaaafaaaafaaaafaaaafaaaafaaaafaaaafaaaafaaaafaaaafaaaafaaaafaaaafaaaafaaaafaaaafaaaafaaaafaaaafaaaafaaaafaaaafaaaafaaaafaaaafaaaafaaaafaaaafaaaafaaaafaaaafaaaafaaaafaaaafaaaafaaaafaaaafaaaafaaaafaaaafaaaafaaaafaaaafaaaafaaaafaaaafaaaafaaaafaaaafaaaafaaaafaaaafaaaafaaaafaaaafaaaafaaaafaaaafaaaafaaaafaaaafaaaafaaaafaaaafaaaafaaaafaaaafaaaafaaaafaaaafaaaafaaaafaaaafaaaafaaaafaaaafaaaafaaaafaaaafaaaafaaaafaaaafaaaafaaaafaaaafaaaafaaaafaaaafaaaafaaaafaaaafaaaafaaaafaaaafaaaafaaaafaaaafaaaafaaaafaaaafaaaafaaaafaaaafaaaafaaaafaaaafaaaafaaaafaaaafaaaafaaaafaaaafaaaafaaaafaaaafaaaafaaaafaaaafaaaafaaaafaaaafaaaafaaaafaaaafaaaafaaaafaaaafaaaafaaaafaaaafaaaafaaaafaaaafaaaafaaaafaaaafaaaafaaaafaaaafaaaafaaaafaaaafaaaafaaaafaaaafaaaafaaaafaaaafaaaafaaaafaaaafaaaafaaaafaaaafaaaafaaaafaaaafaaaafaaaafaaaafaaaafaaaafaaaafaaaafaaaafaaaafaaaafaaaafaaaafaaaafaaaafaaaafaaaafaaaafaaaafaaaafaaaafaaaafaaaafaaaafaaaafaaaafaaaafaaaafaaaafaaaafaaaafaaaafaaaafaaaafaaaafaaaafaaaafaaaafaaaafaaaafaaaafaaaafaaaafaaaafaaaafaaaafaaaafaaaafaaaafaaaafaaaafaaaafaaaafaaaafaaaafaaaafaaaafaaaafaaaafaaaafaaaafaaaafaaaafaaaafaaaafaaaafaaaafaaaafaaaafaaaafaaaafaaaafaaaafaaaafaaaafaaaafaaaafaaaafaaaafaaaafaaaafaaaafaaaafaaaafaaaafaaaafaaaafaaaafaaaafaaaafaaaafaaaafaaaafaaaafaaaafaaaafaaaafaaaafaaaafaaaafaaaafaaaafaaaafaaaafaaaafaaaafaaaafaaaafaaaafaaaafaaaafaaaafaaaafaaaafaaaafaaaafaaaafaaaafaaaafaaaafaaaafaaaafaaaafaaaafaaaafaaaafaaaafaaaafaaaafaaaafaaaafaaaafaaaafaaaafaaaafaaaafaaaafaaaafaaaafaaaafaaaafaaaafaaaafaaaafaaaafaaaafaaaafaaaafaaaafaaaafaaaafaaaafaaaafaaaafaaaafaaaafaaaafaaaafaaaafaaaafaaaafaaaafaaaafaaaafaaaafaaaafaaaafaaaafaaaafaaaafaaaafaaaafaaaafaaaafaaaafaaaafaaaafaaaafaaaafaaaafaaaafaaaafaaaafaaaafaaaafaaaafaaaafaaaafaaaafaaaafaaaafaaaafaaaafaaaafaaaafaaaafaaaafaaaafaaaafaaaafaaaafaaaafaaaafaaaafaaaafaaaafaaaafaaaafaaaafaaaafaaaafaaaafaaaafaaaafaaaafaaaafaaaafaaaafaaaafaaaafaaaafaaaafaaaafaaaafaaaafaaaafaaaafaaaafaaaafaaaafaaaafaaaafaaaafaaaafaaaafaaaafaaaafaaaafaaaafaaaafaaaafaaaafaaaafaaaafaaaafaaaafaaaafaaaafaaaafaaaafaaaafaaaafaaaafaaaafaaaafaaaafaaaafaaaafaaaafaaaafaaaafaaaafaaaafaaaafaaaafaaaafaaaafaaaafaaaafaaaafaaaafaaaafaaaafaaaafaaaafaaaafaaaafaaaafaaaafaaaafaaaafaaaafaaaafaaaafaaaafaaaafaaaafaaaafaaaafaaaafaaaafaaaafaaaafaaaafaaaafaaaafaaaafaaaafaaaafaaaafaaaafaaaafaaaafaaaafaaaafaaaafaaaafaaaafaaaafaaaafaaaafaaaafaaaafaaaafaaaafaaaafaaaafaaaafaaaafaaaafaaaafaaaafaaaafaaaafaaaafaaaafaaaafaaaafaaaafaaaafaaaafaaaafaaaafaaaafaaaafaaaafaaaafaaaafaaaafaaaafaaaafaaaafaaaafaaaafaaaafaaaafaaaafaaaafaaaafaaaafaaaafaaaafaaaafaaaafaaaafaaaafaaaafaaaafaaaafaaaafaaaafaaaafaaaafaaaafaaaafaaaafaaaafaaaafaaaafaaaafaaaafaaaafaaaafaaaafaaaafaaaafaaaafaaaafaaaafaaaafaaaafaaaafaaaafaaaafaaaafaaaafaaaafaaaafaaaafaaaafaaaafaaaafaaaafaaaafaaaafaaaafaaaafaaaafaaaafaaaafaaaafaaaafaaaafaaaafaaaafaaaafaaaafaaaafaaaafaaaafaaaafaaaafaaaafaaaafaaaafaaaafaaaafaaaafaaaafaaaafaaaafaaaafaaaafaaaafaaaafaaaafaaaafaaaafaaaafaaaafaaaafaaaafaaaafaaaafaaaafaaaafaaaafaaaafaaaafaaaafaaaafaaaafaaaafaaaafaaaafaaaafaaaafaaaafaaaafaaaafaaaafaaaafaaaafaaaafaaaafaaaafaaaafaaaafaaaafaaaafaaaafaaaafaaaafaaaafaaaafaaaafaaaafaaaafaaaafaaaafaaaafaaaafaaaafaaaafaaaafaaaafaaaafaaaafaaaafaaaafaaaafaaaafaaaafaaaafaaaafaaaafaaaafaaaafaaaafaaaafaaaafaaaafaaaafaaaafaaaafaaaafaaaafaaaafaaaafaaaafaaaafaaaafaaaafaaaafaaaafaaaafaaaafaaaafaaaafaaaafaaaafaaaafaaaafaaaafaaaafaaaafaaaafaaaafaaaafaaaafaaaafaaaafaaaafaaaafaaaafaaaafaaaafaaaafaaaafaaaafaaaafaaaafaaaafaaaafaaaafaaaafaaaafaaaafaaaafaaaafaaaafaaaafaaaafaaaafaaaafaaaafaaaafaaaafaaaafaaaafaaaafaaaafaaaafaaaafaaaafaaaafaaaafaaaafaaaafaaaafaaaafaaaafaaaafaaaafaaaafaaaafaaaafaaaafaaaafaaaafaaaafaaaafaaaafaaaafaaaafaaaafaaaafaaaafaaaafaaaafaaaafaaaafaaaafaaaafaaaafaaaafaaaafaaaafaaaafaaaafaaaafaaaafaaaafaaaafaaaafaaaafaaaafaaaafaaaafaaaafaaaafaaaafaaaafaaaafaaaafaaaafaaaafaaaafaaaafaaaafaaaafaaaafaaaafaaaafaaaafaaaafaaaafaaaafaaaafaaaafaaaafaaaafaaaafaaaafaaaafaaaafaaaafaaaafaaaafaaaafaaaafaaaafaaaafaaaafaaaafaaaafaaaafaaaafaaaafaaaafaaaafaaaafaaaafaaaafaaaafaaaafaaaafaaaafaaaafaaaafaaaafaaaafaaaafaaaafaaaafaaaafaaaafaaaafaaaafaaaafaaaafaaaafaaaafaaaafaaaafaaaafaaaafaaaafaaaafaaaafaaaafaaaafaaaafaaaafaaaafaaaafaaaafaaaafaaaafaaaafaaaafaaaafaaaafaaaafaaaafaaaafaaaafaaaafaaaafaaaafaaaafaaaafaaaafaaaafaaaafaaaafaaaafaaaafaaaafaaaafaaaafaaaafaaaafaaaafaaaafaaaafaaaafaaaafaaaafaaaafaaaafaaaafaaaafaaaafaaaafaaaafaaaafaaaafaaaafaaaafaaaafaaaafaaaafaaaafaaaafaaaafaaaafaaaafaaaafaaaafaaaafaaaafaaaafaaaafaaaafaaaafaaaafaaaafaaaafaaaafaaaafaaaafaaaafaaaafaaaafaaaafaaaafaaaafaaaafaaaafaaaafaaaafaaaafaaaafaaaafaaaafaaaafaaaafaaaafaaaafaaaafaaaafaaaafaaaafaaaafaaaafaaaafaaaafaaaafaaaafaaaafaaaafaaaafaaaafaaaafaaaafaaaafaaaafaaaafaaaafaaaafaaaafaaaafaaaafaaaafaaaafaaaafaaaafaaaafaaaafaaaafaaaafaaaafaaaafaaaafaaaafaaaafaaaafaaaafaaaafaaaafaaaafaaaafaaaafaaaafaaaafaaaafaaaafaaaafaaaafaaaafaaaafaaaafaaaafaaaafaaaafaaaafaaaafaaaafaaaafaaaafaaaafaaaafaaaafaaaafaaaafaaaafaaaafaaaafaaaafaaaafaaaafaaaafaaaafaaaafaaaafaaaafaaaafaaaafaaaafaaaafaaaafaaaafaaaafaaaafaaaafaaaafaaaafaaaafaaaafaaaafaaaafaaaafaaaafaaaafaaaafaaaafaaaafaaaafaaaafaaaafaaaafaaaafaaaafaaaafaaaafaaaafaaaafaaaafaaaafaaaafaaaafaaaafaaaafaaaafaaaafaaaafaaaafaaaafaaaafaaaafaaaafaaaafaaaafaaaafaaaafaaaafaaaafaaaafaaaafaaaafaaaafaaaafaaaafaaaafaaaafaaaafaaaafaaaafaaaafaaaafaaaafaaaafaaaafaaaafaaaafaaaafaaaafaaaafaaaafaaaafaaaafaaaafaaaafaaaafaaaafaaaafaaaafaaaafaaaafaaaafaaaafaaaafaaaafaaaafaaaafaaaafaaaafaaaafaaaafaaaafaaaafaaaafaaaafaaaafaaaafaaaafaaaafaaaafaaaafaaaafaaaafaaaafaaaafaaaafaaaafaaaafaaaafaaaafaaaafaaaafaaaafaaaafaaaafaaaafaaaafaaaafaaaafaaaafaaaafaaaafaaaafaaaafaaaafaaaafaaaafaaaafaaaafaaaafaaaafaaaafaaaafaaaafaaaafaaaafaaaafaaaafaaaafaaaafaaaafaaaafaaaafaaaafaaaafaaaafaaaafaaaafaaaafaaaafaaaafaaaafaaaafaaaafaaaafaaaafaaaafaaaafaaaafaaaafaaaafaaaafaaaafaaaafaaaafaaaafaaaafaaaafaaaafaaaafaaaafaaaafaaaafaaaafaaaafaaaafaaaafaaaafaaaafaaaafaaaafaaaafaaaafaaaafaaaafaaaafaaaafaaaafaaaafaaaafaaaafaaaafaaaafaaaafaaaafaaaafaaaafaaaafaaaafaaaafaaaafaaaafaaaafaaaafaaaafaaaafaaaafaaaafaaaafaaaafaaaafaaaafaaaafaaaafaaaafaaaafaaaafaaaafaaaafaaaafaaaafaaaafaaaafaaaafaaaafaaaafaaaafaaaafaaaafaaaafaaaafaaaafaaaafaaaafaaaafaaaafaaaafaaaafaaaafaaaafaaaafaaaafaaaafaaaafaaaafaaaafaaaafaaaafaaaafaaaafaaaafaaaafaaaafaaaafaaaafaaaafaaaafaaaafaaaafaaaafaaaafaaaafaaaafaaaafaaaafaaaafaaaafaaaafaaaafaaaafaaaafaaaafaaaafaaaafaaaafaaaafaaaafaaaafaaaafaaaafaaaafaaaafaaaafaaaafaaaafaaaafaaaafaaaafaaaafaaaafaaaafaaaafaaaafaaaafaaaafaaaafaaaafaaaafaaaafaaaafaaaafaaaafaaaafaaaafaaaafaaaafaaaafaaaafaaaafaaaafaaaafaaaafaaaafaaaafaaaafaaaafaaaafaaaafaaaafaaaafaaaafaaaafaaaafaaaafaaaafaaaafaaaafaaaafaaaafaaaafaaaafaaaafaaaafaaaafaaaafaaaafaaaafaaaafaaaafaaaafaaaafaaaafaaaafaaaafaaaafaaaafaaaafaaaafaaaafaaaafaaaafaaaafaaaafaaaafaaaafaaaafaaaafaaaafaaaafaaaafaaaafaaaafaaaafaaaafaaaafaaaafaaaafaaaafaaaafaaaafaaaafaaaafaaaafaaaafaaaafaaaafaaaafaaaafaaaafaaaafaaaafaaaafaaaafaaaafaaaafaaaafaaaafaaaafaaaafaaaafaaaafaaaafaaaafaaaafaaaafaaaafaaaafaaaafaaaafaaaafaaaafaaaafaaaafaaaafaaaafaaaafaaaafaaaafaaaafaaaafaaaafaaaafaaaafaaaafaaaafaaaafaaaafaaaafaaaafaaaafaaaafaaaafaaaafaaaafaaaafaaaafaaaafaaaafaaaafaaaafaaaafaaaafaaaafaaaafaaaafaaaafaaaafaaaafaaaafaaaafaaaafaaaafaaaafaaaafaaaafaaaafaaaafaaaafaaaafaaaafaaaafaaaafaaaafaaaafaaaafaaaafaaaafaaaafaaaafaaaafaaaafaaaafaaaafaaaafaaaafaaaafaaaafaaaafaaaafaaaafaaaafaaaafaaaafaaaafaaaafaaaafaaaafaaaafaaaafaaaafaaaafaaaafaaaafaaaafaaaafaaaafaaaafaaaafaaaafaaaafaaaafaaaafaaaafaaaafaaaafaaaafaaaafaaaafaaaafaaaafaaaafaaaafaaaafaaaafaaaafaaaafaaaafaaaafaaaafaaaafaaaafaaaafaaaafaaaafaaaafaaaafaaaafaaaafaaaafaaaafaaaafaaaafaaaafaaaafaaaafaaaafaaaafaaaafaaaafaaaafaaaafaaaafaaaafaaaafaaaafaaaafaaaafaaaafaaaafaaaafaaaafaaaafaaaafaaaafaaaafaaaafaaaafaaaafaaaafaaaafaaaafaaaafaaaafaaaafaaaafaaaafaaaafaaaafaaaafaaaafaaaafaaaafaaaafaaaafaaaafaaaafaaaafaaaafaaaafaaaafaaaafaaaafaaaafaaaafaaaafaaaafaaaafaaaafaaaafaaaafaaaafaaaafaaaafaaaafaaaafaaaafaaaafaaaafaaaafaaaafaaaafaaaafaaaafaaaafaaaafaaaafaaaafaaaafaaaafaaaafaaaafaaaafaaaafaaaafaaaafaaaafaaaafaaaafaaaafaaaafaaaafaaaafaaaafaaaafaaaafaaaafaaaafaaaafaaaafaaaafaaaafaaaafaaaafaaaafaaaafaaaafaaaafaaaafaaaafaaaafaaaafaaaafaaaafaaaafaaaafaaaafaaaafaaaafaaaafaaaafaaaafaaaafaaaafaaaafaaaafaaaafaaaafaaaafaaaafaaaafaaaafaaaafaaaafaaaafaaaafaaaafaaaafaaaafaaaafaaaafaaaafaaaafaaaafaaaafaaaafaaaafaaaafaaaafaaaafaaaafaaaafaaaafaaaafaaaafaaaafaaaafaaaafaaaafaaaafaaaafaaaafaaaafaaaafaaaafaaaafaaaafaaaafaaaafaaaafaaaafaaaafaaaafaaaafaaaafaaaafaaaafaaaafaaaafaaaafaaaafaaaafaaaafaaaafaaaafaaaafaaaafaaaafaaaafaaaafaaaafaaaafaaaafaaaafaaaafaaaafaaaafaaaafaaaafaaaafaaaafaaaafaaaafaaaafaaaafaaaafaaaafaaaafaaaafaaaafaaaafaaaafaaaafaaaafaaaafaaaafaaaafaaaafaaaafaaaafaaaafaaaafaaaafaaaafaaaafaaaafaaaafaaaafaaaafaaaafaaaafaaaafaaaafaaaafaaaafaaaafaaaafaaaafaaaafaaaafaaaafaaaafaaaafaaaafaaaafaaaafaaaafaaaafaaaafaaaafaaaafaaaafaaaafaaaafaaaafaaaafaaaafaaaafaaaafaaaafaaaafaaaafaaaafaaaafaaaafaaaafaaaafaaaafaaaafaaaafaaaafaaaafaaaafaaaafaaaafaaaafaaaafaaaafaaaafaaaafaaaafaaaafaaaafaaaafaaaafaaaafaaaafaaaafaaaafaaaafaaaafaaaafaaaafaaaafaaaafaaaafaaaafaaaafaaaafaaaafaaaafaaaafaaaafaaaafaaaafaaaafaaaafaaaafaaaafaaaafaaaafaaaafaaaafaaaafaaaafaaaafaaaafaaaafaaaafaaaafaaaafaaaafaaaafaaaafaaaafaaaafaaaafaaaafaaaafaaaafaaaafaaaafaaaafaaaafaaaafaaaafaaaafaaaafaaaafaaaafaaaafaaaafaaaafaaaafaaaafaaaafaaaafaaaafaaaafaaaafaaaafaaaafaaaafaaaafaaaafaaaafaaaafaaaafaaaafaaaafaaaafaaaafaaaafaaaafaaaafaaaafaaaafaaaafaaaafaaaafaaaafaaaafaaaafaaaafaaaafaaaafaaaafaaaafaaaafaaaafaaaafaaaafaaaafaaaafaaaafaaaafaaaafaaaafaaaafaaaafaaaafaaaafaaaafaaaafaaaafaaaafaaaafaaaafaaaafaaaafaaaafaaaafaaaafaaaafaaaafaaaafaaaafaaaafaaaafaaaafaaaafaaaafaaaafaaaafaaaafaaaafaaaafaaaafaaaafaaaafaaaafaaaafaaaafaaaafaaaafaaaafaaaafaaaafaaaafaaaafaaaafaaaafaaaafaaaafaaaafaaaafaaaafaaaafaaaafaaaafaaaafaaaafaaaafaaaafaaaafaaaafaaaafaaaafaaaafaaaafaaaafaaaafaaaafaaaafaaaafaaaafaaaafaaaafaaaafaaaafaaaafaaaafaaaafaaaafaaaafaaaafaaaafaaaafaaaafaaaafaaaafaaaafaaaafaaaafaaaafaaaafaaaafaaaafaaaafaaaafaaaafaaaafaaaafaaaafaaaafaaaafaaaafaaaafaaaafaaaafaaaafaaaafaaaafaaaafaaaafaaaafaaaafaaaafaaaafaaaafaaaafaaaafaaaafaaaafaaaafaaaafaaaafaaaafaaaafaaaafaaaafaaaafaaaafaaaafaaaafaaaafaaaafaaaafaaaafaaaafaaaafaaaafaaaafaaaafaaaafaaaafaaaafaaaafaaaafaaaafaaaafaaaafaaaafaaaafaaaafaaaafaaaafaaaafaaaafaaaafaaaafaaaafaaaafaaaafaaaafaaaafaaaafaaaafaaaafaaaafaaaafaaaafaaaafaaaafaaaafaaaafaaaafaaaafaaaafaaaafaaaafaaaafaaaafaaaafaaaafaaaafaaaafaaaafaaaafaaaafaaaafaaaafaaaafaaaafaaaafaaaafaaaafaaaafaaaafaaaafaaaafaaaafaaaafaaaafaaaafaaaafaaaafaaaafaaaafaaaafaaaafaaaafaaaafaaaafaaaafaaaafaaaafaaaafaaaafaaaafaaaafaaaafaaaafaaaafaaaafaaaafaaaafaaaafaaaafaaaafaaaafaaaafaaaafaaaafaaaafaaaafaaaafaaaafaaaafaaaafaaaafaaaafaaaafaaaafaaaafaaaafaaaafaaaafaaaafaaaafaaaafaaaafaaaafaaaafaaaafaaaafaaaafaaaafaaaafaaaafaaaafaaaafaaaafaaaafaaaafaaaafaaaafaaaafaaaafaaaafaaaafaaaafaaaafaaaafaaaafaaaafaaaafaaaafaaaafaaaafaaaafaaaafaaaafaaaafaaaafaaaafaaaafaaaafaaaafaaaafaaaafaaaafaaaafaaaafaaaafaaaafaaaafaaaafaaaafaaaafaaaafaaaafaaaafaaaafaaaafaaaafaaaafaaaafaaaafaaaafaaaafaaaafaaaafaaaafaaaafaaaafaaaafaaaafaaaafaaaafaaaafaaaafaaaafaaaafaaaafaaaafaaaafaaaafaaaafaaaafaaaafaaaafaaaafaaaafaaaafaaaafaaaafaaaafaaaafaaaafaaaafaaaafaaaafaaaafaaaafaaaafaaaafaaaafaaaafaaaafaaaafaaaafaaaafaaaafaaaafaaaafaaaafaaaafaaaafaaaafaaaafaaaafaaaafaaaafaaaafaaaafaaaafaaaafaaaafaaaafaaaafaaaafaaaafaaaafaaaafaaaafaaaafaaaafaaaafaaaafaaaafaaaafaaaafaaaafaaaafaaaafaaaafaaaafaaaafaaaafaaaafaaaafaaaafaaaafaaaafaaaafaaaafaaaafaaaafaaaafaaaafaaaafaaaafaaaafaaaafaaaafaaaafaaaafaaaafaaaafaaaafaaaafaaaafaaaafaaaafaaaafaaaafaaaafaaaafaaaafaaaafaaaafaaaafaaaafaaaafaaaafaaaafaaaafaaaafaaaafaaaafaaaafaaaafaaaafaaaafaaaafaaaafaaaafaaaafaaaafaaaafaaaafaaaafaaaafaaaafaaaafaaaafaaaafaaaafaaaafaaaafaaaafaaaafaaaafaaaafaaaafaaaafaaaafaaaafaaaafaaaafaaaafaaaafaaaafaaaafaaaafaaaafaaaafaaaafaaaafaaaafaaaafaaaafaaaafaaaafaaaafaaaafaaaafaaaafaaaafaaaafaaaafaaaafaaaafaaaafaaaafaaaafaaaafaaaafaaaafaaaafaaaafaaaafaaaafaaaafaaaafaaaafaaaafaaaafaaaafaaaafaaaafaaaafaaaafaaaafaaaafaaaafaaaafaaaafaaaafaaaafaaaafaaaafaaaafaaaafaaaafaaaafaaaafaaaafaaaafaaaafaaaafaaaafaaaafaaaafaaaafaaaafaaaafaaaafaaaafaaaafaaaafaaaafaaaafaaaafaaaafaaaafaaaafaaaafaaaafaaaafaaaafaaaafaaaafaaaafaaaafaaaafaaaafaaaafaaaafaaaafaaaafaaaafaaaafaaaafaaaafaaaafaaaafaaaafaaaafaaaafaaaafaaaafaaaafaaaafaaaafaaaafaaaafaaaafaaaafaaaafaaaafaaaafaaaafaaaafaaaafaaaafaaaafaaaafaaaafaaaafaaaafaaaafaaaafaaaafaaaafaaaafaaaafaaaafaaaafaaaafaaaafaaaafaaaafaaaafaaaafaaaafaaaafaaaafaaaafaaaafaaaafaaaafaaaafaaaafaaaafaaaafaaaafaaaafaaaafaaaafaaaafaaaafaaaafaaaafaaaafaaaafaaaafaaaafaaaafaaaafaaaafaaaafaaaafaaaafaaaafaaaafaaaafaaaafaaaafaaaafaaaafaaaafaaaafaaaafaaaafaaaafaaaafaaaafaaaafaaaafaaaafaaaafaaaafaaaafaaaafaaaafaaaafaaaafaaaafaaaafaaaafaaaafaaaafaaaafaaaafaaaafaaaafaaaafaaaafaaaafaaaafaaaafaaaafaaaafaaaafaaaafaaaafaaaafaaaafaaaafaaaafaaaafaaaafaaaafaaaafaaaafaaaafaaaafaaaafaaaafaaaafaaaafaaaafaaaafaaaafaaaafaaaafaaaafaaaafaaaafaaaafaaaafaaaafaaaafaaaafaaaafaaaafaaaafaaaafaaaafaaaafaaaafaaaafaaaafaaaafaaaafaaaafaaaafaaaafaaaafaaaafaaaafaaaafaaaafaaaafaaaafaaaafaaaafaaaafaaaafaaaafaaaafaaaafaaaafaaaafaaaafaaaafaaaafaaaafaaaafaaaafaaaafaaaafaaaafaaaafaaaafaaaafaaaafaaaafaaaafaaaafaaaafaaaafaaaafaaaafaaaafaaaafaaaafaaaafaaaafaaaafaaaafaaaafaaaafaaaafaaaafaaaafaaaafaaaafaaaafaaaafaaaafaaaafaaaafaaaafaaaafaaaafaaaafaaaafaaaafaaaafaaaafaaaafaaaafaaaafaaaafaaaafaaaafaaaafaaaafaaaafaaaafaaaafaaaafaaaafaaaafaaaafaaaafaaaafaaaafaaaafaaaafaaaafaaaafaaaafaaaafaaaafaaaafaaaafaaaafaaaafaaaafaaaafaaaafaaaafaaaafaaaafaaaafaaaafaaaafaaaafaaaafaaaafaaaafaaaafaaaafaaaafaaaafaaaafaaaafaaaafaaaafaaaafaaaafaaaafaaaafaaaafaaaafaaaafaaaafaaaafaaaafaaaafaaaafaaaafaaaafaaaafaaaafaaaafaaaafaaaafaaaafaaaafaaaafaaaafaaaafaaaafaaaafaaaafaaaafaaaafaaaafaaaafaaaafaaaafaaaafaaaafaaaafaaaafaaaafaaaafaaaafaaaafaaaafaaaafaaaafaaaafaaaafaaaafaaaafaaaafaaaafaaaafaaaafaaaafaaaafaaaafaaaafaaaafaaaafaaaafaaaafaaaafaaaafaaaafaaaafaaaafaaaafaaaafaaaafaaaafaaaafaaaafaaaafaaaafaaaafaaaafaaaafaaaafaaaafaaaafaaaafaaaafaaaafaaaafaaaafaaaafaaaafaaaafaaaafaaaafaaaafaaaafaaaafaaaafaaaafaaaafaaaafaaaafaaaafaaaafaaaafaaaafaaaafaaaafaaaafaaaafaaaafaaaafaaaafaaaafaaaafaaaafaaaafaaaafaaaafaaaafaaaafaaaafaaaafaaaafaaaafaaaafaaaafaaaafaaaafaaaafaaaafaaaafaaaafaaaafaaaafaaaafaaaafaaaafaaaafaaaafaaaafaaaafaaaafaaaafaaaafaaaafaaaafaaaafaaaafaaaafaaaafaaaafaaaafaaaafaaaafaaaafaaaafaaaafaaaafaaaafaaaafaaaafaaaafaaaafaaaafaaaafaaaafaaaafaaaafaaaafaaaafaaaafaaaafaaaafaaaafaaaafaaaafaaaafaaaafaaaafaaaafaaaafaaaafaaaafaaaafaaaafaaaafaaaafaaaafaaaafaaaafaaaafaaaafaaaafaaaafaaaafaaaafaaaafaaaafaaaafaaaafaaaafaaaafaaaafaaaafaaaafaaaafaaaafaaaafaaaafaaaafaaaafaaaafaaaafaaaafaaaafaaaafaaaafaaaafaaaafaaaafaaaafaaaafaaaafaaaafaaaafaaaafaaaafaaaafaaaafaaaafaaaafaaaafaaaafaaaafaaaafaaaafaaaafaaaafaaaafaaaafaaaafaaaafaaaafaaaafaaaafaaaafaaaafaaaafaaaafaaaafaaaafaaaafaaaafaaaafaaaafaaaafaaaafaaaafaaaafaaaafaaaafaaaafaaaafaaaafaaaafaaaafaaaafaaaafaaaafaaaafaaaafaaaafaaaafaaaafaaaafaaaafaaaafaaaafaaaafaaaafaaaafaaaafaaaafaaaafaaaafaaaafaaaafaaaafaaaafaaaafaaaafaaaafaaaafaaaafaaaafaaaafaaaafaaaafaaaafaaaafaaaafaaaafaaaafaaaafaaaafaaaafaaaafaaaafaaaafaaaafaaaafaaaafaaaafaaaafaaaafaaaafaaaafaaaafaaaafaaaafaaaafaaaafaaaafaaaafaaaafaaaafaaaafaaaafaaaafaaaafaaaafaaaafaaaafaaaafaaaafaaaafaaaafaaaafaaaafaaaafaaaafaaaafaaaafaaaafaaaafaaaafaaaafaaaafaaaafaaaafaaaafaaaafaaaafaaaafaaaafaaaafaaaafaaaafaaaafaaaafaaaafaaaafaaaafaaaafaaaafaaaafaaaafaaaafaaaafaaaafaaaafaaaafaaaafaaaafaaaafaaaafaaaafaaaafaaaafaaaafaaaafaaaafaaaafaaaafaaaafaaaafaaaafaaaafaaaafaaaafaaaafaaaafaaaafaaaafaaaafaaaafaaaafaaaafaaaafaaaafaaaafaaaafaaaafaaaafaaaafaaaafaaaafaaaafaaaafaaaafaaaafaaaafaaaafaaaafaaaafaaaafaaaafaaaafaaaafaaaafaaaafaaaafaaaafaaaafaaaafaaaafaaaafaaaafaaaafaaaafaaaafaaaafaaaafaaaafaaaafaaaafaaaafaaaafaaaafaaaafaaaafaaaafaaaafaaaafaaaafaaaafaaaafaaaafaaaafaaaafaaaafaaaafaaaafaaaafaaaafaaaafaaaafaaaafaaaafaaaafaaaafaaaafaaaafaaaafaaaafaaaafaaaafaaaafaaaafaaaafaaaafaaaafaaaafaaaafaaaafaaaafaaaafaaaafaaaafaaaafaaaafaaaafaaaafaaaafaaaafaaaafaaaafaaaafaaaafaaaafaaaafaaaafaaaafaaaafaaaafaaaafaaaafaaaafaaaafaaaafaaaafaaaafaaaafaaaafaaaafaaaafaaaafaaaafaaaafaaaafaaaafaaaafaaaafaaaafaaaafaaaafaaaafaaaafaaaafaaaafaaaafaaaafaaaafaaaafaaaafaaaafaaaafaaaafaaaafaaaafaaaafaaaafaaaafaaaafaaaafaaaafaaaafaaaafaaaafaaaafaaaafaaaafaaaafaaaafaaaafaaaafaaaafaaaafaaaafaaaafaaaafaaaafaaaafaaaafaaaafaaaafaaaafaaaafaaaafaaaafaaaafaaaafaaaafaaaafaaaafaaaafaaaafaaaafaaaafaaaafaaaafaaaafaaaafaaaafaaaafaaaafaaaafaaaafaaaafaaaafaaaafaaaafaaaafaaaafaaaafaaaafaaaafaaaafaaaafaaaafaaaafaaaafaaaafaaaafaaaafaaaafaaaafaaaafaaaafaaaafaaaafaaaafaaaafaaaafaaaafaaaafaaaafaaaafaaaafaaaafaaaafaaaafaaaafaaaafaaaafaaaafaaaafaaaafaaaafaaaafaaaafaaaafaaaafaaaafaaaafaaaafaaaafaaaafaaaafaaaafaaaafaaaafaaaafaaaafaaaafaaaafaaaafaaaafaaaafaaaafaaaafaaaafaaaafaaaafaaaafaaaafaaaafaaaafaaaafaaaafaaaafaaaafaaaafaaaafaaaafaaaafaaaafaaaafaaaafaaaafaaaafaaaafaaaafaaaafaaaafaaaafaaaafaaaafaaaafaaaafaaaafaaaafaaaafaaaafaaaafaaaafaaaafaaaafaaaafaaaafaaaafaaaafaaaafaaaafaaaafaaaafaaaafaaaafaaaafaaaafaaaafaaaafaaaafaaaafaaaafaaaafaaaafaaaafaaaafaaaafaaaafaaaafaaaafaaaafaaaafaaaafaaaafaaaafaaaafaaaafaaaafaaaafaaaafaaaafaaaafaaaafaaaafaaaafaaaafaaaafaaaafaaaafaaaafaaaafaaaafaaaafaaaafaaaafaaaafaaaafaaaafaaaafaaaafaaaafaaaafaaaafaaaafaaaafaaaafaaaafaaaafaaaafaaaafaaaafaaaafaaaafaaaafaaaafaaaafaaaafaaaafaaaafaaaafaaaafaaaafaaaafaaaafaaaafaaaafaaaafaaaafaaaafaaaafaaaafaaaafaaaafaaaafaaaafaaaafaaaafaaaafaaaafaaaafaaaafaaaafaaaafaaaafaaaafaaaafaaaafaaaafaaaafaaaafaaaafaaaafaaaafaaaafaaaafaaaafaaaafaaaafaaaafaaaafaaaafaaaafaaaafaaaafaaaafaaaafaaaafaaaafaaaafaaaafaaaafaaaafaaaafaaaafaaaafaaaafaaaafaaaafaaaafaaaafaaaafaaaafaaaafaaaafaaaafaaaafaaaafaaaafaaaafaaaafaaaafaaaafaaaafaaaafaaaafaaaafaaaafaaaafaaaafaaaafaaaafaaaafaaaafaaaafaaaafaaaafaaaafaaaafaaaafaaaafaaaafaaaafaaaafaaaafaaaafaaaafaaaafaaaafaaaafaaaafaaaafaaaafaaaafaaaafaaaafaaaafaaaafaaaafaaaafaaaafaaaafaaaafaaaafaaaafaaaafaaaafaaaafaaaafaaaafaaaafaaaafaaaafaaaafaaaafaaaafaaaafaaaafaaaafaaaafaaaafaaaafaaaafaaaafaaaafaaaafaaaafaaaafaaaafaaaafaaaafaaaafaaaafaaaafaaaafaaaafaaaafaaaafaaaafaaaafaaaafaaaafaaaafaaaafaaaafaaaafaaaafaaaafaaaafaaaafaaaafaaaafaaaafaaaafaaaafaaaafaaaafaaaafaaaafaaaafaaaafaaaafaaaafaaaafaaaafaaaafaaaafaaaafaaaafaaaafaaaafaaaafaaaafaaaafaaaafaaaafaaaafaaaafaaaafaaaafaaaafaaaafaaaafaaaafaaaafaaaafaaaafaaaafaaaafaaaafaaaafaaaafaaaafaaaafaaaafaaaafaaaafaaaafaaaafaaaafaaaafaaaafaaaafaaaafaaaafaaaafaaaafaaaafaaaafaaaafaaaafaaaafaaaafaaaafaaaafaaaafaaaafaaaafaaaafaaaafaaaafaaaafaaaafaaaafaaaafaaaafaaaafaaaafaaaafaaaafaaaafaaaafaaaafaaaafaaaafaaaafaaaafaaaafaaaafaaaafaaaafaaaafaaaafaaaafaaaafaaaafaaaafaaaafaaaafaaaafaaaafaaaafaaaafaaaafaaaafaaaafaaaafaaaafaaaafaaaafaaaafaaaafaaaafaaaafaaaafaaaafaaaafaaaafaaaafaaaafaaaafaaaafaaaafaaaafaaaafaaaafaaaafaaaafaaaafaaaafaaaafaaaafaaaafaaaafaaaafaaaafaaaafaaaafaaaafaaaafaaaafaaaafaaaafaaaafaaaafaaaafaaaafaaaafaaaafaaaafaaaafaaaafaaaafaaaafaaaafaaaafaaaafaaaafaaaafaaaafaaaafaaaafaaaafaaaafaaaafaaaafaaaafaaaafaaaafaaaafaaaafaaaafaaaafaaaafaaaafaaaafaaaafaaaafaaaafaaaafaaaafaaaafaaaafaaaafaaaafaaaafaaaafaaaafaaaafaaaafaaaafaaaafaaaafaaaafaaaafaaaafaaaafaaaafaaaafaaaafaaaafaaaafaaaafaaaafaaaafaaaafaaaafaaaafaaaafaaaafaaaafaaaafaaaafaaaafaaaafaaaafaaaafaaaafaaaafaaaafaaaafaaaafaaaafaaaafaaaafaaaafaaaafaaaafaaaafaaaafaaaafaaaafaaaafaaaafaaaafaaaafaaaafaaaafaaaafaaaafaaaafaaaafaaaafaaaafaaaafaaaafaaaafaaaafaaaafaaaafaaaafaaaafaaaafaaaafaaaafaaaafaaaafaaaafaaaafaaaafaaaafaaaafaaaafaaaafaaaafaaaafaaaafaaaafaaaafaaaafaaaafaaaafaaaafaaaafaaaafaaaafaaaafaaaafaaaafaaaafaaaafaaaafaaaafaaaafaaaafaaaafaaaafaaaafaaaafaaaafaaaafaaaafaaaafaaaafaaaafaaaafaaaafaaaafaaaafaaaafaaaafaaaafaaaafaaaafaaaafaaaafaaaafaaaafaaaafaaaafaaaafaaaafaaaafaaaafaaaafaaaafaaaafaaaafaaaafaaaafaaaafaaaafaaaafaaaafaaaafaaaafaaaafaaaafaaaafaaaafaaaafaaaafaaaafaaaafaaaafaaaafaaaafaaaafaaaafaaaafaaaafaaaafaaaafaaaafaaaafaaaafaaaafaaaafaaaafaaaafaaaafaaaafaaaafaaaafaaaafaaaafaaaafaaaafaaaafaaaafaaaafaaaafaaaafaaaafaaaafaaaafaaaafaaaafaaaafaaaafaaaafaaaafaaaafaaaafaaaafaaaafaaaafaaaafaaaafaaaafaaaafaaaafaaaafaaaafaaaafaaaafaaaafaaaafaaaafaaaafaaaafaaaafaaaafaaaafaaaafaaaafaaaafaaaafaaaafaaaafaaaafaaaafaaaafaaaafaaaafaaaafaaaafaaaafaaaafaaaafaaaafaaaafaaaafaaaafaaaafaaaafaaaafaaaafaaaafaaaafaaaafaaaafaaaafaaaafaaaafaaaafaaaafaaaafaaaafaaaafaaaafaaaafaaaafaaaafaaaafaaaafaaaafaaaafaaaafaaaafaaaafaaaafaaaafaaaafaaaafaaaafaaaafaaaafaaaafaaaafaaaafaaaafaaaafaaaafaaaafaaaafaaaafaaaafaaaafaaaafaaaafaaaafaaaafaaaafaaaafaaaafaaaafaaaafaaaafaaaafaaaafaaaafaaaafaaaafaaaafaaaafaaaafaaaafaaaafaaaafaaaafaaaafaaaafaaaafaaaafaaaafaaaafaaaafaaaafaaaafaaaafaaaafaaaafaaaafaaaafaaaafaaaafaaaafaaaafaaaafaaaafaaaafaaaafaaaafaaaafaaaafaaaafaaaafaaaafaaaafaaaafaaaafaaaafaaaafaaaafaaaafaaaafaaaafaaaafaaaafaaaafaaaafaaaafaaaafaaaafaaaafaaaafaaaafaaaafaaaafaaaafaaaafaaaafaaaafaaaafaaaafaaaafaaaafaaaafaaaafaaaafaaaafaaaafaaaafaaaafaaaafaaaafaaaafaaaafaaaafaaaafaaaafaaaafaaaafaaaafaaaafaaaafaaaafaaaafaaaafaaaafaaaafaaaafaaaafaaaafaaaafaaaafaaaafaaaafaaaafaaaafaaaafaaaafaaaafaaaafaaaafaaaafaaaafaaaafaaaafaaaafaaaafaaaafaaaafaaaafaaaafaaaafaaaafaaaafaaaafaaaafaaaafaaaafaaaafaaaafaaaafaaaafaaaafaaaafaaaafaaaafaaaafaaaafaaaafaaaafaaaafaaaafaaaafaaaafaaaafaaaafaaaafaaaafaaaafaaaafaaaafaaaafaaaafaaaafaaaafaaaafaaaafaaaafaaaafaaaafaaaafaaaafaaaafaaaafaaaafaaaafaaaafaaaafaaaafaaaafaaaafaaaafaaaafaaaafaaaafaaaafaaaafaaaafaaaafaaaafaaaafaaaafaaaafaaaafaaaafaaaafaaaafaaaafaaaafaaaafaaaafaaaafaaaafaaaafaaaafaaaafaaaafaaaafaaaafaaaafaaaafaaaafaaaafaaaafaaaafaaaafaaaafaaaafaaaafaaaafaaaafaaaafaaaafaaaafaaaafaaaafaaaafaaaafaaaafaaaafaaaafaaaafaaaafaaaafaaaafaaaafaaaafaaaafaaaafaaaafaaaafaaaafaaaafaaaafaaaafaaaafaaaafaaaafaaaafaaaafaaaafaaaafaaaafaaaafaaaafaaaafaaaafaaaafaaaafaaaafaaaafaaaafaaaafaaaafaaaafaaaafaaaafaaaafaaaafaaaafaaaafaaaafaaaafaaaafaaaafaaaafaaaafaaaafaaaafaaaafaaaafaaaafaaaafaaaafaaaafaaaafaaaafaaaafaaaafaaaafaaaafaaaafaaaafaaaafaaaafaaaafaaaafaaaafaaaafaaaafaaaafaaaafaaaafaaaafaaaafaaaafaaaafaaaafaaaafaaaafaaaafaaaafaaaafaaaafaaaafaaaafaaaafaaaafaaaafaaaafaaaafaaaafaaaafaaaafaaaafaaaafaaaafaaaafaaaafaaaafaaaafaaaafaaaafaaaafaaaafaaaafaaaafaaaafaaaafaaaafaaaafaaaafaaaafaaaafaaaafaaaafaaaafaaaafaaaafaaaafaaaafaaaafaaaafaaaafaaaafaaaafaaaafaaaafaaaafaaaafaaaafaaaafaaaafaaaafaaaafaaaafaaaafaaaafaaaafaaaafaaaafaaaafaaaafaaaafaaaafaaaafaaaafaaaafaaaafaaaafaaaafaaaafaaaafaaaafaaaafaaaafaaaafaaaafaaaafaaaafaaaafaaaafaaaafaaaafaaaafaaaafaaaafaaaafaaaafaaaafaaaafaaaafaaaafaaaafaaaafaaaafaaaafaaaafaaaafaaaafaaaafaaaafaaaafaaaafaaaafaaaafaaaafaaaafaaaafaaaafaaaafaaaafaaaafaaaafaaaafaaaafaaaafaaaafaaaafaaaafaaaafaaaafaaaafaaaafaaaafaaaafaaaafaaaafaaaafaaaafaaaafaaaafaaaafaaaafaaaafaaaafaaaafaaaafaaaafaaaafaaaafaaaafaaaafaaaafaaaafaaaafaaaafaaaafaaaafaaaafaaaafaaaafaaaafaaaafaaaafaaaafaaaafaaaafaaaafaaaafaaaafaaaafaaaafaaaafaaaafaaaafaaaafaaaafaaaafaaaafaaaafaaaafaaaafaaaafaaaafaaaafaaaafaaaafaaaafaaaafaaaafaaaafaaaafaaaafaaaafaaaafaaaafaaaafaaaafaaaafaaaafaaaafaaaafaaaafaaaafaaaafaaaafaaaafaaaafaaaafaaaafaaaafaaaafaaaafaaaafaaaafaaaafaaaafaaaafaaaafaaaafaaaafaaaafaaaafaaaafaaaafaaaafaaaafaaaafaaaafaaaafaaaafaaaafaaaafaaaafaaaafaaaafaaaafaaaafaaaafaaaafaaaafaaaafaaaafaaaafaaaafaaaafaaaafaaaafaaaafaaaafaaaafaaaafaaaafaaaafaaaafaaaafaaaafaaaafaaaafaaaafaaaafaaaafaaaafaaaafaaaafaaaafaaaafaaaafaaaafaaaafaaaafaaaafaaaafaaaafaaaafaaaafaaaafaaaafaaaafaaaafaaaafaaaafaaaafaaaafaaaafaaaafaaaafaaaafaaaafaaaafaaaafaaaafaaaafaaaafaaaafaaaafaaaafaaaafaaaafaaaafaaaafaaaafaaaafaaaafaaaafaaaafaaaafaaaafaaaafaaaafaaaafaaaafaaaafaaaafaaaafaaaafaaaafaaaafaaaafaaaafaaaafaaaafaaaafaaaafaaaafaaaafaaaafaaaafaaaafaaaafaaaafaaaafaaaafaaaafaaaafaaaafaaaafaaaafaaaafaaaafaaaafaaaafaaaafaaaafaaaafaaaafaaaafaaaafaaaafaaaafaaaafaaaafaaaafaaaafaaaafaaaafaaaafaaaafaaaafaaaafaaaafaaaafaaaafaaaafaaaafaaaafaaaafaaaafaaaafaaaafaaaafaaaafaaaafaaaafaaaafaaaafaaaafaaaafaaaafaaaafaaaafaaaafaaaafaaaafaaaafaaaafaaaafaaaafaaaafaaaafaaaafaaaafaaaafaaaafaaaafaaaafaaaafaaaafaaaafaaaafaaaafaaaafaaaafaaaafaaaafaaaafaaaafaaaafaaaafaaaafaaaafaaaafaaaafaaaafaaaafaaaafaaaafaaaafaaaafaaaafaaaafaaaafaaaafaaaafaaaafaaaafaaaafaaaafaaaafaaaafaaaafaaaafaaaafaaaafaaaafaaaafaaaafaaaafaaaafaaaafaaaafaaaafaaaafaaaafaaaafaaaafaaaafaaaafaaaafaaaafaaaafaaaafaaaafaaaafaaaafaaaafaaaafaaaafaaaafaaaafaaaafaaaafaaaafaaaafaaaafaaaafaaaafaaaafaaaafaaaafaaaafaaaafaaaafaaaafaaaafaaaafaaaafaaaafaaaafaaaafaaaafaaaafaaaafaaaafaaaafaaaafaaaafaaaafaaaafaaaafaaaafaaaafaaaafaaaafaaaafaaaafaaaafaaaafaaaafaaaafaaaafaaaafaaaafaaaafaaaafaaaafaaaafaaaafaaaafaaaafaaaafaaaafaaaafaaaafaaaafaaaafaaaafaaaafaaaafaaaafaaaafaaaafaaaafaaaafaaaafaaaafaaaafaaaafaaaafaaaafaaaafaaaafaaaafaaaafaaaafaaaafaaaafaaaafaaaafaaaafaaaafaaaafaaaafaaaafaaaafaaaafaaaafaaaafaaaafaaaafaaaafaaaafaaaafaaaafaaaafaaaafaaaafaaaafaaaafaaaafaaaafaaaafaaaafaaaafaaaafaaaafaaaafaaaafaaaafaaaafaaaafaaaafaaaafaaaafaaaafaaaafaaaafaaaafaaaafaaaafaaaafaaaafaaaafaaaafaaaafaaaafaaaafaaaafaaaafaaaafaaaafaaaafaaaafaaaafaaaafaaaafaaaafaaaafaaaafaaaafaaaafaaaafaaaafaaaafaaaafaaaafaaaafaaaafaaaafaaaafaaaafaaaafaaaafaaaafaaaafaaaafaaaafaaaafaaaafaaaafaaaafaaaafaaaafaaaafaaaafaaaafaaaafaaaafaaaafaaaafaaaafaaaafaaaafaaaafaaaafaaaafaaaafaaaafaaaafaaaafaaaafaaaafaaaafaaaafaaaafaaaafaaaafaaaafaaaafaaaafaaaafaaaafaaaafaaaafaaaafaaaafaaaafaaaafaaaafaaaafaaaafaaaafaaaafaaaafaaaafaaaafaaaafaaaafaaaafaaaafaaaafaaaafaaaafaaaafaaaafaaaafaaaafaaaafaaaafaaaafaaaafaaaafaaaafaaaafaaaafaaaafaaaafaaaafaaaafaaaafaaaafaaaafaaaafaaaafaaaafaaaafaaaafaaaafaaaafaaaafaaaafaaaafaaaafaaaafaaaafaaaafaaaafaaaafaaaafaaaafaaaafaaaafaaaafaaaafaaaafaaaafaaaafaaaafaaaafaaaafaaaafaaaafaaaafaaaafaaaafaaaafaaaafaaaafaaaafaaaafaaaafaaaafaaaafaaaafaaaafaaaafaaaafaaaafaaaafaaaafaaaafaaaafaaaafaaaafaaaafaaaafaaaafaaaafaaaafaaaafaaaafaaaafaaaafaaaafaaaafaaaafaaaafaaaafaaaafaaaafaaaafaaaafaaaafaaaafaaaafaaaafaaaafaaaafaaaafaaaafaaaafaaaafaaaafaaaafaaaafaaaafaaaafaaaafaaaafaaaafaaaafaaaafaaaafaaaafaaaafaaaafaaaafaaaafaaaafaaaafaaaafaaaafaaaafaaaafaaaafaaaafaaaafaaaafaaaafaaaafaaaafaaaafaaaafaaaafaaaafaaaafaaaafaaaafaaaafaaaafaaaafaaaafaaaafaaaafaaaafaaaafaaaafaaaafaaaafaaaafaaaafaaaafaaaafaaaafaaaafaaaafaaaafaaaafaaaafaaaafaaaafaaaafaaaafaaaafaaaafaaaafaaaafaaaafaaaafaaaafaaaafaaaafaaaafaaaafaaaafaaaafaaaafaaaafaaaafaaaafaaaafaaaafaaaafaaaafaaaafaaaafaaaafaaaafaaaafaaaafaaaafaaaafaaaafaaaafaaaafaaaafaaaafaaaafaaaafaaaafaaaafaaaafaaaafaaaafaaaafaaaafaaaafaaaafaaaafaaaafaaaafaaaafaaaafaaaafaaaafaaaafaaaafaaaafaaaafaaaafaaaafaaaafaaaafaaaafaaaafaaaafaaaafaaaafaaaafaaaafaaaafaaaafaaaafaaaafaaaafaaaafaaaafaaaafaaaafaaaafaaaafaaaafaaaafaaaafaaaafaaaafaaaafaaaafaaaafaaaafaaaafaaaafaaaafaaaafaaaafaaaafaaaafaaaafaaaafaaaafaaaafaaaafaaaafaaaafaaaafaaaafaaaafaaaafaaaafaaaafaaaafaaaafaaaafaaaafaaaafaaaafaaaafaaaafaaaafaaaafaaaafaaaafaaaafaaaafaaaafaaaafaaaafaaaafaaaafaaaafaaaafaaaafaaaafaaaafaaaafaaaafaaaafaaaafaaaafaaaafaaaafaaaafaaaafaaaafaaaafaaaafaaaafaaaafaaaafaaaafaaaafaaaafaaaafaaaafaaaafaaaafaaaafaaaafaaaafaaaafaaaafaaaafaaaafaaaafaaaafaaaafaaaafaaaafaaaafaaaafaaaafaaaafaaaafaaaafaaaafaaaafaaaafaaaafaaaafaaaafaaaafaaaafaaaafaaaafaaaafaaaafaaaafaaaafaaaafaaaafaaaafaaaafaaaafaaaafaaaafaaaafaaaafaaaafaaaafaaaafaaaafaaaafaaaafaaaafaaaafaaaafaaaafaaaafaaaafaaaafaaaafaaaafaaaafaaaafaaaafaaaafaaaafaaaafaaaafaaaafaaaafaaaafaaaafaaaafaaaafaaaafaaaafaaaafaaaafaaaafaaaafaaaafaaaafaaaafaaaafaaaafaaaafaaaafaaaafaaaafaaaafaaaafaaaafaaaafaaaafaaaafaaaafaaaafaaaafaaaafaaaafaaaafaaaafaaaafaaaafaaaafaaaafaaaafaaaafaaaafaaaafaaaafaaaafaaaafaaaafaaaafaaaafaaaafaaaafaaaafaaaafaaaafaaaafaaaafaaaafaaaafaaaafaaaafaaaafaaaafaaaafaaaafaaaafaaaafaaaafaaaafaaaafaaaafaaaafaaaafaaaafaaaafaaaafaaaafaaaafaaaafaaaafaaaafaaaafaaaafaaaafaaaafaaaafaaaafaaaafaaaafaaaafaaaafaaaafaaaafaaaafaaaafaaaafaaaafaaaafaaaafaaaafaaaafaaaafaaaafaaaafaaaafaaaafaaaafaaaafaaaafaaaafaaaafaaaafaaaafaaaafaaaafaaaafaaaafaaaafaaaafaaaafaaaafaaaafaaaafaaaafaaaafaaaafaaaafaaaafaaaafaaaafaaaafaaaafaaaafaaaafaaaafaaaafaaaafaaaafaaaafaaaafaaaafaaaafaaaafaaaafaaaafaaaafaaaafaaaafaaaafaaaafaaaafaaaafaaaafaaaafaaaafaaaafaaaafaaaafaaaafaaaafaaaafaaaafaaaafaaaafaaaafaaaafaaaafaaaafaaaafaaaafaaaafaaaafaaaafaaaafaaaafaaaafaaaafaaaafaaaafaaaafaaaafaaaafaaaafaaaafaaaafaaaafaaaafaaaafaaaafaaaafaaaafaaaafaaaafaaaafaaaafaaaafaaaafaaaafaaaafaaaafaaaafaaaafaaaafaaaafaaaafaaaafaaaafaaaafaaaafaaaafaaaafaaaafaaaafaaaafaaaafaaaafaaaafaaaafaaaafaaaafaaaafaaaafaaaafaaaafaaaafaaaafaaaafaaaafaaaafaaaafaaaafaaaafaaaafaaaafaaaafaaaafaaaafaaaafaaaafaaaafaaaafaaaafaaaafaaaafaaaafaaaafaaaafaaaafaaaafaaaafaaaafaaaafaaaafaaaafaaaafaaaafaaaafaaaafaaaafaaaafaaaafaaaafaaaafaaaafaaaafaaaafaaaafaaaafaaaafaaaafaaaafaaaafaaaafaaaafaaaafaaaafaaaafaaaafaaaafaaaafaaaafaaaafaaaafaaaafaaaafaaaafaaaafaaaafaaaafaaaafaaaafaaaafaaaafaaaafaaaafaaaafaaaafaaaafaaaafaaaafaaaafaaaafaaaafaaaafaaaafaaaafaaaafaaaafaaaafaaaafaaaafaaaafaaaafaaaafaaaafaaaafaaaafaaaafaaaafaaaafaaaafaaaafaaaafaaaafaaaafaaaafaaaafaaaafaaaafaaaafaaaafaaaafaaaafaaaafaaaafaaaafaaaafaaaafaaaafaaaafaaaafaaaafaaaafaaaafaaaafaaaafaaaafaaaafaaaafaaaafaaaafaaaafaaaafaaaafaaaafaaaafaaaafaaaafaaaafaaaafaaaafaaaafaaaafaaaafaaaafaaaafaaaafaaaafaaaafaaaafaaaafaaaafaaaafaaaafaaaafaaaafaaaafaaaafaaaafaaaafaaaafaaaafaaaafaaaafaaaafaaaafaaaafaaaafaaaafaaaafaaaafaaaafaaaafaaaafaaaafaaaafaaaafaaaafaaaafaaaafaaaafaaaafaaaafaaaafaaaafaaaafaaaafaaaafaaaafaaaafaaaafaaaafaaaafaaaafaaaafaaaafaaaafaaaafaaaafaaaafaaaafaaaafaaaafaaaafaaaafaaaafaaaafaaaafaaaafaaaafaaaafaaaafaaaafaaaafaaaafaaaafaaaafaaaafaaaafaaaafaaaafaaaafaaaafaaaafaaaafaaaafaaaafaaaafaaaafaaaafaaaafaaaafaaaafaaaafaaaafaaaafaaaafaaaafaaaafaaaafaaaafaaaafaaaafaaaafaaaafaaaafaaaafaaaafaaaafaaaafaaaafaaaafaaaafaaaafaaaafaaaafaaaafaaaafaaaafaaaafaaaafaaaafaaaafaaaafaaaafaaaafaaaafaaaafaaaafaaaafaaaafaaaafaaaafaaaafaaaafaaaafaaaafaaaafaaaafaaaafaaaafaaaafaaaafaaaafaaaafaaaafaaaafaaaafaaaafaaaafaaaafaaaafaaaafaaaafaaaafaaaafaaaafaaaafaaaafaaaafaaaafaaaafaaaafaaaafaaaafaaaafaaaafaaaafaaaafaaaafaaaafaaaafaaaafaaaafaaaafaaaafaaaafaaaafaaaafaaaafaaaafaaaafaaaafaaaafaaaafaaaafaaaafaaaafaaaafaaaafaaaafaaaafaaaafaaaafaaaafaaaafaaaafaaaafaaaafaaaafaaaafaaaafaaaafaaaafaaaafaaaafaaaafaaaafaaaafaaaafaaaafaaaafaaaafaaaafaaaafaaaafaaaafaaaafaaaafaaaafaaaafaaaafaaaafaaaafaaaafaaaafaaaafaaaafaaaafaaaafaaaafaaaafaaaafaaaafaaaafaaaafaaaafaaaafaaaafaaaafaaaafaaaafaaaafaaaafaaaafaaaafaaaafaaaafaaaafaaaafaaaafaaaafaaaafaaaafaaaafaaaafaaaafaaaafaaaafaaaafaaaafaaaafaaaafaaaafaaaafaaaafaaaafaaaafaaaafaaaafaaaafaaaafaaaafaaaafaaaafaaaafaaaafaaaafaaaafaaaafaaaafaaaafaaaafaaaafaaaafaaaafaaaafaaaafaaaafaaaafaaaafaaaafaaaafaaaafaaaafaaaafaaaafaaaafaaaafaaaafaaaafaaaafaaaafaaaafaaaafaaaafaaaafaaaafaaaafaaaafaaaafaaaafaaaafaaaafaaaafaaaafaaaafaaaafaaaafaaaafaaaafaaaafaaaafaaaafaaaafaaaafaaaafaaaafaaaafaaaafaaaafaaaafaaaafaaaafaaaafaaaafaaaafaaaafaaaafaaaafaaaafaaaafaaaafaaaafaaaafaaaafaaaafaaaafaaaafaaaafaaaafaaaafaaaafaaaafaaaafaaaafaaaafaaaafaaaafaaaafaaaafaaaafaaaafaaaafaaaafaaaafaaaafaaaafaaaafaaaafaaaafaaaafaaaafaaaafaaaafaaaafaaaafaaaafaaaafaaaafaaaafaaaafaaaafaaaafaaaafaaaafaaaafaaaafaaaafaaaafaaaafaaaafaaaafaaaafaaaafaaaafaaaafaaaafaaaafaaaafaaaafaaaafaaaafaaaafaaaafaaaafaaaafaaaafaaaafaaaafaaaafaaaafaaaafaaaafaaaafaaaafaaaafaaaafaaaafaaaafaaaafaaaafaaaafaaaafaaaafaaaafaaaafaaaafaaaafaaaafaaaafaaaafaaaafaaaafaaaafaaaafaaaafaaaafaaaafaaaafaaaafaaaafaaaafaaaafaaaafaaaafaaaafaaaafaaaafaaaafaaaafaaaafaaaafaaaafaaaafaaaafaaaafaaaafaaaafaaaafaaaafaaaafaaaafaaaafaaaafaaaafaaaafaaaafaaaafaaaafaaaafaaaafaaaafaaaafaaaafaaaafaaaafaaaafaaaafaaaafaaaafaaaafaaaafaaaafaaaafaaaafaaaafaaaafaaaafaaaafaaaafaaaafaaaafaaaafaaaafaaaafaaaafaaaafaaaafaaaafaaaafaaaafaaaafaaaafaaaafaaaafaaaafaaaafaaaafaaaafaaaafaaaafaaaafaaaafaaaafaaaafaaaafaaaafaaaafaaaafaaaafaaaafaaaafaaaafaaaafaaaafaaaafaaaafaaaafaaaafaaaafaaaafaaaafaaaafaaaafaaaafaaaafaaaafaaaafaaaafaaaafaaaafaaaafaaaafaaaafaaaafaaaafaaaafaaaafaaaafaaaafaaaafaaaafaaaafaaaafaaaafaaaafaaaafaaaafaaaafaaaafaaaafaaaafaaaafaaaafaaaafaaaafaaaafaaaafaaaafaaaafaaaafaaaafaaaafaaaafaaaafaaaafaaaafaaaafaaaafaaaafaaaafaaaafaaaafaaaafaaaafaaaafaaaafaaaafaaaafaaaafaaaafaaaafaaaafaaaafaaaafaaaafaaaafaaaafaaaafaaaafaaaafaaaafaaaafaaaafaaaafaaaafaaaafaaaafaaaafaaaafaaaafaaaafaaaafaaaafaaaafaaaafaaaafaaaafaaaafaaaafaaaafaaaafaaaafaaaafaaaafaaaafaaaafaaaafaaaafaaaafaaaafaaaafaaaafaaaafaaaafaaaafaaaafaaaafaaaafaaaafaaaafaaaafaaaafaaaafaaaafaaaafaaaafaaaafaaaafaaaafaaaafaaaafaaaafaaaafaaaafaaaafaaaafaaaafaaaafaaaafaaaafaaaafaaaafaaaafaaaafaaaafaaaafaaaafaaaafaaaafaaaafaaaafaaaafaaaafaaaafaaaafaaaafaaaafaaaafaaaafaaaafaaaafaaaafaaaafaaaafaaaafaaaafaaaafaaaafaaaafaaaafaaaafaaaafaaaafaaaafaaaafaaaafaaaafaaaafaaaafaaaafaaaafaaaafaaaafaaaafaaaafaaaafaaaafaaaafaaaafaaaafaaaafaaaafaaaafaaaafaaaafaaaafaaaafaaaafaaaafaaaafaaaafaaaafaaaafaaaafaaaafaaaafaaaafaaaafaaaafaaaafaaaafaaaafaaaafaaaafaaaafaaaafaaaafaaaafaaaafaaaafaaaafaaaafaaaafaaaafaaaafaaaafaaaafaaaafaaaafaaaafaaaafaaaafaaaafaaaafaaaafaaaafaaaafaaaafaaaafaaaafaaaafaaaafaaaafaaaafaaaafaaaafaaaafaaaafaaaafaaaafaaaafaaaafaaaafaaaafaaaafaaaafaaaafaaaafaaaafaaaafaaaafaaaafaaaafaaaafaaaafaaaafaaaafaaaafaaaafaaaafaaaafaaaafaaaafaaaafaaaafaaaafaaaafaaaafaaaafaaaafaaaafaaaafaaaafaaaafaaaafaaaafaaaafaaaafaaaafaaaafaaaafaaaafaaaafaaaafaaaafaaaafaaaafaaaafaaaafaaaafaaaafaaaafaaaafaaaafaaaafaaaafaaaafaaaafaaaafaaaafaaaafaaaafaaaafaaaafaaaafaaaafaaaafaaaafaaaafaaaafaaaafaaaafaaaafaaaafaaaafaaaafaaaafaaaafaaaafaaaafaaaafaaaafaaaafaaaafaaaafaaaafaaaafaaaafaaaafaaaafaaaafaaaafaaaafaaaafaaaafaaaafaaaafaaaafaaaafaaaafaaaafaaaafaaaafaaaafaaaafaaaafaaaafaaaafaaaafaaaafaaaafaaaafaaaafaaaafaaaafaaaafaaaafaaaafaaaafaaaafaaaafaaaafaaaafaaaafaaaafaaaafaaaafaaaafaaaafaaaafaaaafaaaafaaaafaaaafaaaafaaaafaaaafaaaafaaaafaaaafaaaafaaaafaaaafaaaafaaaafaaaafaaaafaaaafaaaafaaaafaaaafaaaafaaaafaaaafaaaafaaaafaaaafaaaafaaaafaaaafaaaafaaaafaaaafaaaafaaaafaaaafaaaafaaaafaaaafaaaafaaaafaaaafaaaafaaaafaaaafaaaafaaaafaaaafaaaafaaaafaaaafaaaafaaaafaaaafaaaafaaaafaaaafaaaafaaaafaaaafaaaafaaaafaaaafaaaafaaaafaaaafaaaafaaaafaaaafaaaafaaaafaaaafaaaafaaaafaaaafaaaafaaaafaaaafaaaafaaaafaaaafaaaafaaaafaaaafaaaafaaaafaaaafaaaafaaaafaaaafaaaafaaaafaaaafaaaafaaaafaaaafaaaafaaaafaaaafaaaafaaaafaaaafaaaafaaaafaaaafaaaafaaaafaaaafaaaafaaaafaaaafaaaafaaaafaaaafaaaafaaaafaaaafaaaafaaaafaaaafaaaafaaaafaaaafaaaafaaaafaaaafaaaafaaaafaaaafaaaafaaaafaaaafaaaafaaaafaaaafaaaafaaaafaaaafaaaafaaaafaaaafaaaafaaaafaaaafaaaafaaaafaaaafaaaafaaaafaaaafaaaafaaaafaaaafaaaafaaaafaaaafaaaafaaaafaaaafaaaafaaaafaaaafaaaafaaaafaaaafaaaafaaaafaaaafaaaafaaaafaaaafaaaafaaaafaaaafaaaafaaaafaaaafaaaafaaaafaaaafaaaafaaaafaaaafaaaafaaaafaaaafaaaafaaaafaaaafaaaafaaaafaaaafaaaafaaaafaaaafaaaafaaaafaaaafaaaafaaaafaaaafaaaafaaaafaaaafaaaafaaaafaaaafaaaafaaaafaaaafaaaafaaaafaaaafaaaafaaaafaaaafaaaafaaaafaaaafaaaafaaaafaaaafaaaafaaaafaaaafaaaafaaaafaaaafaaaafaaaafaaaafaaaafaaaafaaaafaaaafaaaafaaaafaaaafaaaafaaaafaaaafaaaafaaaafaaaafaaaafaaaafaaaafaaaafaaaafaaaafaaaafaaaafaaaafaaaafaaaafaaaafaaaafaaaafaaaafaaaafaaaafaaaafaaaafaaaafaaaafaaaafaaaafaaaafaaaafaaaafaaaafaaaafaaaafaaaafaaaafaaaafaaaafaaaafaaaafaaaafaaaafaaaafaaaafaaaafaaaafaaaafaaaafaaaafaaaafaaaafaaaafaaaafaaaafaaaafaaaafaaaafaaaafaaaafaaaafaaaafaaaafaaaafaaaafaaaafaaaafaaaafaaaafaaaafaaaafaaaafaaaafaaaafaaaafaaaafaaaafaaaafaaaafaaaafaaaafaaaafaaaafaaaafaaaafaaaafaaaafaaaafaaaafaaaafaaaafaaaafaaaafaaaafaaaafaaaafaaaafaaaafaaaafaaaafaaaafaaaafaaaafaaaafaaaafaaaafaaaafaaaafaaaafaaaafaaaafaaaafaaaafaaaafaaaafaaaafaaaafaaaafaaaafaaaafaaaafaaaafaaaafaaaafaaaafaaaafaaaafaaaafaaaafaaaafaaaafaaaafaaaafaaaafaaaafaaaafaaaafaaaafaaaafaaaafaaaafaaaafaaaafaaaafaaaafaaaafaaaafaaaafaaaafaaaafaaaafaaaafaaaafaaaafaaaafaaaafaaaafaaaafaaaafaaaafaaaafaaaafaaaafaaaafaaaafaaaafaaaafaaaafaaaafaaaafaaaafaaaafaaaafaaaafaaaafaaaafaaaafaaaafaaaafaaaafaaaafaaaafaaaafaaaafaaaafaaaafaaaafaaaafaaaafaaaafaaaafaaaafaaaafaaaafaaaafaaaafaaaafaaaafaaaafaaaafaaaafaaaafaaaafaaaafaaaafaaaafaaaafaaaafaaaafaaaafaaaafaaaafaaaafaaaafaaaafaaaafaaaafaaaafaaaafaaaafaaaafaaaafaaaafaaaafaaaafaaaafaaaafaaaafaaaafaaaafaaaafaaaafaaaafaaaafaaaafaaaafaaaafaaaafaaaafaaaafaaaafaaaafaaaafaaaafaaaafaaaafaaaafaaaafaaaafaaaafaaaafaaaafaaaafaaaafaaaafaaaafaaaafaaaafaaaafaaaafaaaafaaaafaaaafaaaafaaaafaaaafaaaafaaaafaaaafaaaafaaaafaaaafaaaafaaaafaaaafaaaafaaaafaaaafaaaafaaaafaaaafaaaafaaaafaaaafaaaafaaaafaaaafaaaafaaaafaaaafaaaafaaaafaaaafaaaafaaaafaaaafaaaafaaaafaaaafaaaafaaaafaaaafaaaafaaaafaaaafaaaafaaaafaaaafaaaafaaaafaaaafaaaafaaaafaaaafaaaafaaaafaaaafaaaafaaaafaaaafaaaafaaaafaaaafaaaafaaaafaaaafaaaafaaaafaaaafaaaafaaaafaaaafaaaafaaaafaaaafaaaafaaaafaaaafaaaafaaaafaaaafaaaafaaaafaaaafaaaafaaaafaaaafaaaafaaaafaaaafaaaafaaaafaaaafaaaafaaaafaaaafaaaafaaaafaaaafaaaafaaaafaaaafaaaafaaaafaaaafaaaafaaaafaaaafaaaafaaaafaaaafaaaafaaaafaaaafaaaafaaaafaaaafaaaafaaaafaaaafaaaafaaaafaaaafaaaafaaaafaaaafaaaafaaaafaaaafaaaafaaaafaaaafaaaafaaaafaaaafaaaafaaaafaaaafaaaafaaaafaaaafaaaafaaaafaaaafaaaafaaaafaaaafaaaafaaaafaaaafaaaafaaaafaaaafaaaafaaaafaaaafaaaafaaaafaaaafaaaafaaaafaaaafaaaafaaaafaaaafaaaafaaaafaaaafaaaafaaaafaaaafaaaafaaaafaaaafaaaafaaaafaaaafaaaafaaaafaaaafaaaafaaaafaaaafaaaafaaaafaaaafaaaafaaaafaaaafaaaafaaaafaaaafaaaafaaaafaaaafaaaafaaaafaaaafaaaafaaaafaaaafaaaafaaaafaaaafaaaafaaaafaaaafaaaafaaaafaaaafaaaafaaaafaaaafaaaafaaaafaaaafaaaafaaaafaaaafaaaafaaaafaaaafaaaafaaaafaaaafaaaafaaaafaaaafaaaafaaaafaaaafaaaafaaaafaaaafaaaafaaaafaaaafaaaafaaaafaaaafaaaafaaaafaaaafaaaafaaaafaaaafaaaafaaaafaaaafaaaafaaaafaaaafaaaafaaaafaaaafaaaafaaaafaaaafaaaafaaaafaaaafaaaafaaaafaaaafaaaafaaaafaaaafaaaafaaaafaaaafaaaafaaaafaaaafaaaafaaaafaaaafaaaafaaaafaaaafaaaafaaaafaaaafaaaafaaaafaaaafaaaafaaaafaaaafaaaafaaaafaaaafaaaafaaaafaaaafaaaafaaaafaaaafaaaafaaaafaaaafaaaafaaaafaaaafaaaafaaaafaaaafaaaafaaaafaaaafaaaafaaaafaaaafaaaafaaaafaaaafaaaafaaaafaaaafaaaafaaaafaaaafaaaafaaaafaaaafaaaafaaaafaaaafaaaafaaaafaaaafaaaafaaaafaaaafaaaafaaaafaaaafaaaafaaaafaaaafaaaafaaaafaaaafaaaafaaaafaaaafaaaafaaaafaaaafaaaafaaaafaaaafaaaafaaaafaaaafaaaafaaaafaaaafaaaafaaaafaaaafaaaafaaaafaaaafaaaafaaaafaaaafaaaafaaaafaaaafaaaafaaaafaaaafaaaafaaaafaaaafaaaafaaaafaaaafaaaafaaaafaaaafaaaafaaaafaaaafaaaafaaaafaaaafaaaafaaaafaaaafaaaafaaaafaaaafaaaafaaaafaaaafaaaafaaaafaaaafaaaafaaaafaaaafaaaafaaaafaaaafaaaafaaaafaaaafaaaafaaaafaaaafaaaafaaaafaaaafaaaafaaaafaaaafaaaafaaaafaaaafaaaafaaaafaaaafaaaafaaaafaaaafaaaafaaaafaaaafaaaafaaaafaaaafaaaafaaaafaaaafaaaafaaaafaaaafaaaafaaaafaaaafaaaafaaaafaaaafaaaafaaaafaaaafaaaafaaaafaaaafaaaafaaaafaaaafaaaafaaaafaaaafaaaafaaaafaaaafaaaafaaaafaaaafaaaafaaaafaaaafaaaafaaaafaaaafaaaafaaaafaaaafaaaafaaaafaaaafaaaafaaaafaaaafaaaafaaaafaaaafaaaafaaaafaaaafaaaafaaaafaaaafaaaafaaaafaaaafaaaafaaaafaaaafaaaafaaaafaaaafaaaafaaaafaaaafaaaafaaaafaaaafaaaafaaaafaaaafaaaafaaaafaaaafaaaafaaaafaaaafaaaafaaaafaaaafaaaafaaaafaaaafaaaafaaaafaaaafaaaafaaaafaaaafaaaafaaaafaaaafaaaafaaaafaaaafaaaafaaaafaaaafaaaafaaaafaaaafaaaafaaaafaaaafaaaafaaaafaaaafaaaafaaaafaaaafaaaafaaaafaaaafaaaafaaaafaaaafaaaafaaaafaaaafaaaafaaaafaaaafaaaafaaaafaaaafaaaafaaaafaaaafaaaafaaaafaaaafaaaafaaaafaaaafaaaafaaaafaaaafaaaafaaaafaaaafaaaafaaaafaaaafaaaafaaaafaaaafaaaafaaaafaaaafaaaafaaaafaaaafaaaafaaaafaaaafaaaafaaaafaaaafaaaafaaaafaaaafaaaafaaaafaaaafaaaafaaaafaaaafaaaafaaaafaaaafaaaafaaaafaaaafaaaafaaaafaaaafaaaafaaaafaaaafaaaafaaaafaaaafaaaafaaaafaaaafaaaafaaaafaaaafaaaafaaaafaaaafaaaafaaaafaaaafaaaafaaaafaaaafaaaafaaaafaaaafaaaafaaaafaaaafaaaafaaaafaaaafaaaafaaaafaaaafaaaafaaaafaaaafaaaafaaaafaaaafaaaafaaaafaaaafaaaafaaaafaaaafaaaafaaaafaaaafaaaafaaaafaaaafaaaafaaaafaaaafaaaafaaaafaaaafaaaafaaaafaaaafaaaafaaaafaaaafaaaafaaaafaaaafaaaafaaaafaaaafaaaafaaaafaaaafaaaafaaaafaaaafaaaafaaaafaaaafaaaafaaaafaaaafaaaafaaaafaaaafaaaafaaaafaaaafaaaafaaaafaaaafaaaafaaaafaaaafaaaafaaaafaaaafaaaafaaaafaaaafaaaafaaaafaaaafaaaafaaaafaaaafaaaafaaaafaaaafaaaafaaaafaaaafaaaafaaaafaaaafaaaafaaaafaaaafaaaafaaaafaaaafaaaafaaaafaaaafaaaafaaaafaaaafaaaafaaaafaaaafaaaafaaaafaaaafaaaafaaaafaaaafaaaafaaaafaaaafaaaafaaaafaaaafaaaafaaaafaaaafaaaafaaaafaaaafaaaafaaaafaaaafaaaafaaaafaaaafaaaafaaaafaaaafaaaafaaaafaaaafaaaafaaaafaaaafaaaafaaaafaaaafaaaafaaaafaaaafaaaafaaaafaaaafaaaafaaaafaaaafaaaafaaaafaaaafaaaafaaaafaaaafaaaafaaaafaaaafaaaafaaaafaaaafaaaafaaaafaaaafaaaafaaaafaaaafaaaafaaaafaaaafaaaafaaaafaaaafaaaafaaaafaaaafaaaafaaaafaaaafaaaafaaaafaaaafaaaafaaaafaaaafaaaafaaaafaaaafaaaafaaaafaaaafaaaafaaaafaaaafaaaafaaaafaaaafaaaafaaaafaaaafaaaafaaaafaaaafaaaafaaaafaaaafaaaafaaaafaaaafaaaafaaaafaaaafaaaafaaaafaaaafaaaafaaaafaaaafaaaafaaaafaaaafaaaafaaaafaaaafaaaafaaaafaaaafaaaafaaaafaaaafaaaafaaaafaaaafaaaafaaaafaaaafaaaafaaaafaaaafaaaafaaaafaaaafaaaafaaaafaaaafaaaafaaaafaaaafaaaafaaaafaaaafaaaafaaaafaaaafaaaafaaaafaaaafaaaafaaaafaaaafaaaafaaaafaaaafaaaafaaaafaaaafaaaafaaaafaaaafaaaafaaaafaaaafaaaafaaaafaaaafaaaafaaaafaaaafaaaafaaaafaaaafaaaafaaaafaaaafaaaafaaaafaaaafaaaafaaaafaaaafaaaafaaaafaaaafaaaafaaaafaaaafaaaafaaaafaaaafaaaafaaaafaaaafaaaafaaaafaaaafaaaafaaaafaaaafaaaafaaaafaaaafaaaafaaaafaaaafaaaafaaaafaaaafaaaafaaaafaaaafaaaafaaaafaaaafaaaafaaaafaaaafaaaafaaaafaaaafaaaafaaaafaaaafaaaafaaaafaaaafaaaafaaaafaaaafaaaafaaaafaaaafaaaafaaaafaaaafaaaafaaaafaaaafaaaafaaaafaaaafaaaafaaaafaaaafaaaafaaaafaaaafaaaafaaaafaaaafaaaafaaaafaaaafaaaafaaaafaaaafaaaafaaaafaaaafaaaafaaaafaaaafaaaafaaaafaaaafaaaafaaaafaaaafaaaafaaaafaaaafaaaafaaaafaaaafaaaafaaaafaaaafaaaafaaaafaaaafaaaafaaaafaaaafaaaafaaaafaaaafaaaafaaaafaaaafaaaafaaaafaaaafaaaafaaaafaaaafaaaafaaaafaaaafaaaafaaaafaaaafaaaafaaaafaaaafaaaafaaaafaaaafaaaafaaaafaaaafaaaafaaaafaaaafaaaafaaaafaaaafaaaafaaaafaaaafaaaafaaaafaaaafaaaafaaaafaaaafaaaafaaaafaaaafaaaafaaaafaaaafaaaafaaaafaaaafaaaafaaaafaaaafaaaafaaaafaaaafaaaafaaaafaaaafaaaafaaaafaaaafaaaafaaaafaaaafaaaafaaaafaaaafaaaafaaaafaaaafaaaafaaaafaaaafaaaafaaaafaaaafaaaafaaaafaaaafaaaafaaaafaaaafaaaafaaaafaaaafaaaafaaaafaaaafaaaafaaaafaaaafaaaafaaaafaaaafaaaafaaaafaaaafaaaafaaaafaaaafaaaafaaaafaaaafaaaafaaaafaaaafaaaafaaaafaaaafaaaafaaaafaaaafaaaafaaaafaaaafaaaafaaaafaaaafaaaafaaaafaaaafaaaafaaaafaaaafaaaafaaaafaaaafaaaafaaaafaaaafaaaafaaaafaaaafaaaafaaaafaaaafaaaafaaaafaaaafaaaafaaaafaaaafaaaafaaaafaaaafaaaafaaaafaaaafaaaafaaaafaaaafaaaafaaaafaaaafaaaafaaaafaaaafaaaafaaaafaaaafaaaafaaaafaaaafaaaafaaaafaaaafaaaafaaaafaaaafaaaafaaaafaaaafaaaafaaaafaaaafaaaafaaaafaaaafaaaafaaaafaaaafaaaafaaaafaaaafaaaafaaaafaaaafaaaafaaaafaaaafaaaafaaaafaaaafaaaafaaaafaaaafaaaafaaaafaaaafaaaafaaaafaaaafaaaafaaaafaaaafaaaafaaaafaaaafaaaafaaaafaaaafaaaafaaaafaaaafaaaafaaaafaaaafaaaafaaaafaaaafaaaafaaaafaaaafaaaafaaaafaaaafaaaafaaaafaaaafaaaafaaaafaaaafaaaafaaaafaaaafaaaafaaaafaaaafaaaafaaaafaaaafaaaafaaaafaaaafaaaafaaaafaaaafaaaafaaaafaaaafaaaafaaaafaaaafaaaafaaaafaaaafaaaafaaaafaaaafaaaafaaaafaaaafaaaafaaaafaaaafaaaafaaaafaaaafaaaafaaaafaaaafaaaafaaaafaaaafaaaafaaaafaaaafaaaafaaaafaaaafaaaafaaaafaaaafaaaafaaaafaaaafaaaafaaaafaaaafaaaafaaaafaaaafaaaafaaaafaaaafaaaafaaaafaaaafaaaafaaaafaaaafaaaafaaaafaaaafaaaafaaaafaaaafaaaafaaaafaaaafaaaafaaaafaaaafaaaafaaaafaaaafaaaafaaaafaaaafaaaafaaaafaaaafaaaafaaaafaaaafaaaafaaaafaaaafaaaafaaaafaaaafaaaafaaaafaaaafaaaafaaaafaaaafaaaafaaaafaaaafaaaafaaaafaaaafaaaafaaaafaaaafaaaafaaaafaaaafaaaafaaaafaaaafaaaafaaaafaaaafaaaafaaaafaaaafaaaafaaaafaaaafaaaafaaaafaaaafaaaafaaaafaaaafaaaafaaaafaaaafaaaafaaaafaaaafaaaafaaaafaaaafaaaafaaaafaaaafaaaafaaaafaaaafaaaafaaaafaaaafaaaafaaaafaaaafaaaafaaaafaaaafaaaafaaaafaaaafaaaafaaaafaaaafaaaafaaaafaaaafaaaafaaaafaaaafaaaafaaaafaaaafaaaafaaaafaaaafaaaafaaaafaaaafaaaafaaaafaaaafaaaafaaaafaaaafaaaafaaaafaaaafaaaafaaaafaaaafaaaafaaaafaaaafaaaafaaaafaaaafaaaafaaaafaaaafaaaafaaaafaaaafaaaafaaaafaaaafaaaafaaaafaaaafaaaafaaaafaaaafaaaafaaaafaaaafaaaafaaaafaaaafaaaafaaaafaaaafaaaafaaaafaaaafaaaafaaaafaaaafaaaafaaaafaaaafaaaafaaaafaaaafaaaafaaaafaaaafaaaafaaaafaaaafaaaafaaaafaaaafaaaafaaaafaaaafaaaafaaaafaaaafaaaafaaaafaaaafaaaafaaaafaaaafaaaafaaaafaaaafaaaafaaaafaaaafaaaafaaaafaaaafaaaafaaaafaaaafaaaafaaaafaaaafaaaafaaaafaaaafaaaafaaaafaaaafaaaafaaaafaaaafaaaafaaaafaaaafaaaafaaaafaaaafaaaafaaaafaaaafaaaafaaaafaaaafaaaafaaaafaaaafaaaafaaaafaaaafaaaafaaaafaaaafaaaafaaaafaaaafaaaafaaaafaaaafaaaafaaaafaaaafaaaafaaaafaaaafaaaafaaaafaaaafaaaafaaaafaaaafaaaafaaaafaaaafaaaafaaaafaaaafaaaafaaaafaaaafaaaafaaaafaaaafaaaafaaaafaaaafaaaafaaaafaaaafaaaafaaaafaaaafaaaafaaaafaaaafaaaafaaaafaaaafaaaafaaaafaaaafaaaafaaaafaaaafaaaafaaaafaaaafaaaafaaaafaaaafaaaafaaaafaaaafaaaafaaaafaaaafaaaafaaaafaaaafaaaafaaaafaaaafaaaafaaaafaaaafaaaafaaaafaaaafaaaafaaaafaaaafaaaafaaaafaaaafaaaafaaaafaaaafaaaafaaaafaaaafaaaafaaaafaaaafaaaafaaaafaaaafaaaafaaaafaaaafaaaafaaaafaaaafaaaafaaaafaaaafaaaafaaaafaaaafaaaafaaaafaaaafaaaafaaaafaaaafaaaafaaaafaaaafaaaafaaaafaaaafaaaafaaaafaaaafaaaafaaaafaaaafaaaafaaaafaaaafaaaafaaaafaaaafaaaafaaaafaaaafaaaafaaaafaaaafaaaafaaaafaaaafaaaafaaaafaaaafaaaafaaaafaaaafaaaafaaaafaaaafaaaafaaaafaaaafaaaafaaaafaaaafaaaafaaaafaaaafaaaafaaaafaaaafaaaafaaaafaaaafaaaafaaaafaaaafaaaafaaaafaaaafaaaafaaaafaaaafaaaafaaaafaaaafaaaafaaaafaaaafaaaafaaaafaaaafaaaafaaaafaaaafaaaafaaaafaaaafaaaafaaaafaaaafaaaafaaaafaaaafaaaafaaaafaaaafaaaafaaaafaaaafaaaafaaaafaaaafaaaafaaaafaaaafaaaafaaaafaaaafaaaafaaaafaaaafaaaafaaaafaaaafaaaafaaaafaaaafaaaafaaaafaaaafaaaafaaaafaaaafaaaafaaaafaaaafaaaafaaaafaaaafaaaafaaaafaaaafaaaafaaaafaaaafaaaafaaaafaaaafaaaafaaaafaaaafaaaafaaaafaaaafaaaafaaaafaaaafaaaafaaaafaaaafaaaafaaaafaaaafaaaafaaaafaaaafaaaafaaaafaaaafaaaafaaaafaaaafaaaafaaaafaaaafaaaafaaaafaaaafaaaafaaaafaaaafaaaafaaaafaaaafaaaafaaaafaaaafaaaafaaaafaaaafaaaafaaaafaaaafaaaafaaaafaaaafaaaafaaaafaaaafaaaafaaaafaaaafaaaafaaaafaaaafaaaafaaaafaaaafaaaafaaaafaaaafaaaafaaaafaaaafaaaafaaaafaaaafaaaafaaaafaaaafaaaafaaaafaaaafaaaafaaaafaaaafaaaafaaaafaaaafaaaafaaaafaaaafaaaafaaaafaaaafaaaafaaaafaaaafaaaafaaaafaaaafaaaafaaaafaaaafaaaafaaaafaaaafaaaafaaaafaaaafaaaafaaaafaaaafaaaafaaaafaaaafaaaafaaaafaaaafaaaafaaaafaaaafaaaafaaaafaaaafaaaafaaaafaaaafaaaafaaaafaaaafaaaafaaaafaaaafaaaafaaaafaaaafaaaafaaaafaaaafaaaafaaaafaaaafaaaafaaaafaaaafaaaafaaaafaaaafaaaafaaaafaaaafaaaafaaaafaaaafaaaafaaaafaaaafaaaafaaaafaaaafaaaafaaaafaaaafaaaafaaaafaaaafaaaafaaaafaaaafaaaafaaaafaaaafaaaafaaaafaaaafaaaafaaaafaaaafaaaafaaaafaaaafaaaafaaaafaaaafaaaafaaaafaaaafaaaafaaaafaaaafaaaafaaaafaaaafaaaafaaaafaaaafaaaafaaaafaaaafaaaafaaaafaaaafaaaafaaaafaaaafaaaafaaaafaaaafaaaafaaaafaaaafaaaafaaaafaaaafaaaafaaaafaaaafaaaafaaaafaaaafaaaafaaaafaaaafaaaafaaaafaaaafaaaafaaaafaaaafaaaafaaaafaaaafaaaafaaaafaaaafaaaafaaaafaaaafaaaafaaaafaaaafaaaafaaaafaaaafaaaafaaaafaaaafaaaafaaaafaaaafaaaafaaaafaaaafaaaafaaaafaaaafaaaafaaaafaaaafaaaafaaaafaaaafaaaafaaaafaaaafaaaafaaaafaaaafaaaafaaaafaaaafaaaafaaaafaaaafaaaafaaaafaaaafaaaafaaaafaaaafaaaafaaaafaaaafaaaafaaaafaaaafaaaafaaaafaaaafaaaafaaaafaaaafaaaafaaaafaaaafaaaafaaaafaaaafaaaafaaaafaaaafaaaafaaaafaaaafaaaafaaaafaaaafaaaafaaaafaaaafaaaafaaaafaaaafaaaafaaaafaaaafaaaafaaaafaaaafaaaafaaaafaaaafaaaafaaaafaaaafaaaafaaaafaaaafaaaafaaaafaaaafaaaafaaaafaaaafaaaafaaaafaaaafaaaafaaaafaaaafaaaafaaaafaaaafaaaafaaaafaaaafaaaafaaaafaaaafaaaafaaaafaaaafaaaafaaaafaaaafaaaafaaaafaaaafaaaafaaaafaaaafaaaafaaaafaaaafaaaafaaaafaaaafaaaafaaaafaaaafaaaafaaaafaaaafaaaafaaaafaaaafaaaafaaaafaaaafaaaafaaaafaaaafaaaafaaaafaaaafaaaafaaaafaaaafaaaafaaaafaaaafaaaafaaaafaaaafaaaafaaaafaaaafaaaafaaaafaaaafaaaafaaaafaaaafaaaafaaaafaaaafaaaafaaaafaaaafaaaafaaaafaaaafaaaafaaaafaaaafaaaafaaaafaaaafaaaafaaaafaaaafaaaafaaaafaaaafaaaafaaaafaaaafaaaafaaaafaaaafaaaafaaaafaaaafaaaafaaaafaaaafaaaafaaaafaaaafaaaafaaaafaaaafaaaafaaaafaaaafaaaafaaaafaaaafaaaafaaaafaaaafaaaafaaaafaaaafaaaafaaaafaaaafaaaafaaaafaaaafaaaafaaaafaaaafaaaafaaaafaaaafaaaafaaaafaaaafaaaafaaaafaaaafaaaafaaaafaaaafaaaafaaaafaaaafaaaafaaaafaaaafaaaafaaaafaaaafaaaafaaaafaaaafaaaafaaaafaaaafaaaafaaaafaaaafaaaafaaaafaaaafaaaafaaaafaaaafaaaafaaaafaaaafaaaafaaaafaaaafaaaafaaaafaaaafaaaafaaaafaaaafaaaafaaaafaaaafaaaafaaaafaaaafaaaafaaaafaaaafaaaafaaaafaaaafaaaafaaaafaaaafaaaafaaaafaaaafaaaafaaaafaaaafaaaafaaaafaaaafaaaafaaaafaaaafaaaafaaaafaaaafaaaafaaaafaaaafaaaafaaaafaaaafaaaafaaaafaaaafaaaafaaaafaaaafaaaafaaaafaaaafaaaafaaaafaaaafaaaafaaaafaaaafaaaafaaaafaaaafaaaafaaaafaaaafaaaafaaaafaaaafaaaafaaaafaaaafaaaafaaaafaaaafaaaafaaaafaaaafaaaafaaaafaaaafaaaafaaaafaaaafaaaafaaaafaaaafaaaafaaaafaaaafaaaafaaaafaaaafaaaafaaaafaaaafaaaafaaaafaaaafaaaafaaaafaaaafaaaafaaaafaaaafaaaafaaaafaaaafaaaafaaaafaaaafaaaafaaaafaaaafaaaafaaaafaaaafaaaafaaaafaaaafaaaafaaaafaaaafaaaafaaaafaaaafaaaafaaaafaaaafaaaafaaaafaaaafaaaafaaaafaaaafaaaafaaaafaaaafaaaafaaaafaaaafaaaafaaaafaaaafaaaafaaaafaaaafaaaafaaaafaaaafaaaafaaaafaaaafaaaafaaaafaaaafaaaafaaaafaaaafaaaafaaaafaaaafaaaafaaaafaaaafaaaafaaaafaaaafaaaafaaaafaaaafaaaafaaaafaaaafaaaafaaaafaaaafaaaafaaaafaaaafaaaafaaaafaaaafaaaafaaaafaaaafaaaafaaaafaaaafaaaafaaaafaaaafaaaafaaaafaaaafaaaafaaaafaaaafaaaafaaaafaaaafaaaafaaaafaaaafaaaafaaaafaaaafaaaafaaaafaaaafaaaafaaaafaaaafaaaafaaaafaaaafaaaafaaaafaaaafaaaafaaaafaaaafaaaafaaaafaaaafaaaafaaaafaaaafaaaafaaaafaaaafaaaafaaaafaaaafaaaafaaaafaaaafaaaafaaaafaaaafaaaafaaaafaaaafaaaafaaaafaaaafaaaafaaaafaaaafaaaafaaaafaaaafaaaafaaaafaaaafaaaafaaaafaaaafaaaafaaaafaaaafaaaafaaaafaaaafaaaafaaaafaaaafaaaafaaaafaaaafaaaafaaaafaaaafaaaafaaaafaaaafaaaafaaaafaaaafaaaafaaaafaaaafaaaafaaaafaaaafaaaafaaaafaaaafaaaafaaaafaaaafaaaafaaaafaaaafaaaafaaaafaaaafaaaafaaaafaaaafaaaafaaaafaaaafaaaafaaaafaaaafaaaafaaaafaaaafaaaafaaaafaaaafaaaafaaaafaaaafaaaafaaaafaaaafaaaafaaaafaaaafaaaafaaaafaaaafaaaafaaaafaaaafaaaafaaaafaaaafaaaafaaaafaaaafaaaafaaaafaaaafaaaafaaaafaaaafaaaafaaaafaaaafaaaafaaaafaaaafaaaafaaaafaaaafaaaafaaaafaaaafaaaafaaaafaaaafaaaafaaaafaaaafaaaafaaaafaaaafaaaafaaaafaaaafaaaafaaaafaaaafaaaafaaaafaaaafaaaafaaaafaaaafaaaafaaaafaaaafaaaafaaaafaaaafaaaafaaaafaaaafaaaafaaaafaaaafaaaafaaaafaaaafaaaafaaaafaaaafaaaafaaaafaaaafaaaafaaaafaaaafaaaafaaaafaaaafaaaafaaaafaaaafaaaafaaaafaaaafaaaafaaaafaaaafaaaafaaaafaaaafaaaafaaaafaaaafaaaafaaaafaaaafaaaafaaaafaaaafaaaafaaaafaaaafaaaafaaaafaaaafaaaafaaaafaaaafaaaafaaaafaaaafaaaafaaaafaaaafaaaafaaaafaaaafaaaafaaaafaaaafaaaafaaaafaaaafaaaafaaaafaaaafaaaafaaaafaaaafaaaafaaaafaaaafaaaafaaaafaaaafaaaafaaaafaaaafaaaafaaaafaaaafaaaafaaaafaaaafaaaafaaaafaaaafaaaafaaaafaaaafaaaafaaaafaaaafaaaafaaaafaaaafaaaafaaaafaaaafaaaafaaaafaaaafaaaafaaaafaaaafaaaafaaaafaaaafaaaafaaaafaaaafaaaafaaaafaaaafaaaafaaaafaaaafaaaafaaaafaaaafaaaafaaaafaaaafaaaafaaaafaaaafaaaafaaaafaaaafaaaafaaaafaaaafaaaafaaaafaaaafaaaafaaaafaaaafaaaafaaaafaaaafaaaafaaaafaaaafaaaafaaaafaaaafaaaafaaaafaaaafaaaafaaaafaaaafaaaafaaaafaaaafaaaafaaaafaaaafaaaafaaaafaaaafaaaafaaaafaaaafaaaafaaaafaaaafaaaafaaaafaaaafaaaafaaaafaaaafaaaafaaaafaaaafaaaafaaaafaaaafaaaafaaaafaaaafaaaafaaaafaaaafaaaafaaaafaaaafaaaafaaaafaaaafaaaafaaaafaaaafaaaafaaaafaaaafaaaafaaaafaaaafaaaafaaaafaaaafaaaafaaaafaaaafaaaafaaaafaaaafaaaafaaaafaaaafaaaafaaaafaaaafaaaafaaaafaaaafaaaafaaaafaaaafaaaafaaaafaaaafaaaafaaaafaaaafaaaafaaaafaaaafaaaafaaaafaaaafaaaafaaaafaaaafaaaafaaaafaaaafaaaafaaaafaaaafaaaafaaaafaaaafaaaafaaaafaaaafaaaafaaaafaaaafaaaafaaaafaaaafaaaafaaaafaaaafaaaafaaaafaaaafaaaafaaaafaaaafaaaafaaaafaaaafaaaafaaaafaaaafaaaafaaaafaaaafaaaafaaaafaaaafaaaafaaaafaaaafaaaafaaaafaaaafaaaafaaaafaaaafaaaafaaaafaaaafaaaafaaaafaaaafaaaafaaaafaaaafaaaafaaaafaaaafaaaafaaaafaaaafaaaafaaaafaaaafaaaafaaaafaaaafaaaafaaaafaaaafaaaafaaaafaaaafaaaafaaaafaaaafaaaafaaaafaaaafaaaafaaaafaaaafaaaafaaaafaaaafaaaafaaaafaaaafaaaafaaaafaaaafaaaafaaaafaaaafaaaafaaaafaaaafaaaafaaaafaaaafaaaafaaaafaaaafaaaafaaaafaaaafaaaafaaaafaaaafaaaafaaaafaaaafaaaafaaaafaaaafaaaafaaaafaaaafaaaafaaaafaaaafaaaafaaaafaaaafaaaafaaaafaaaafaaaafaaaafaaaafaaaafaaaafaaaafaaaafaaaafaaaafaaaafaaaafaaaafaaaafaaaafaaaafaaaafaaaafaaaafaaaafaaaafaaaafaaaafaaaafaaaafaaaafaaaafaaaafaaaafaaaafaaaafaaaafaaaafaaaafaaaafaaaafaaaafaaaafaaaafaaaafaaaafaaaafaaaafaaaafaaaafaaaafaaaafaaaafaaaafaaaafaaaafaaaafaaaafaaaafaaaafaaaafaaaafaaaafaaaafaaaafaaaafaaaafaaaafaaaafaaaafaaaafaaaafaaaafaaaafaaaafaaaafaaaafaaaafaaaafaaaafaaaafaaaafaaaafaaaafaaaafaaaafaaaafaaaafaaaafaaaafaaaafaaaafaaaafaaaafaaaafaaaafaaaafaaaafaaaafaaaafaaaafaaaafaaaafaaaafaaaafaaaafaaaafaaaafaaaafaaaafaaaafaaaafaaaafaaaafaaaafaaaafaaaafaaaafaaaafaaaafaaaafaaaafaaaafaaaafaaaafaaaafaaaafaaaafaaaafaaaafaaaafaaaafaaaafaaaafaaaafaaaafaaaafaaaafaaaafaaaafaaaafaaaafaaaafaaaafaaaafaaaafaaaafaaaafaaaafaaaafaaaafaaaafaaaafaaaafaaaafaaaafaaaafaaaafaaaafaaaafaaaafaaaafaaaafaaaafaaaafaaaafaaaafaaaafaaaafaaaafaaaafaaaafaaaafaaaafaaaafaaaafaaaafaaaafaaaafaaaafaaaafaaaafaaaafaaaafaaaafaaaafaaaafaaaafaaaafaaaafaaaafaaaafaaaafaaaafaaaafaaaafaaaafaaaafaaaafaaaafaaaafaaaafaaaafaaaafaaaafaaaafaaaafaaaafaaaafaaaafaaaafaaaafaaaafaaaafaaaafaaaafaaaafaaaafaaaafaaaafaaaafaaaafaaaafaaaafaaaafaaaafaaaafaaaafaaaafaaaafaaaafaaaafaaaafaaaafaaaafaaaafaaaafaaaafaaaafaaaafaaaafaaaafaaaafaaaafaaaafaaaafaaaafaaaafaaaafaaaafaaaafaaaafaaaafaaaafaaaafaaaafaaaafaaaafaaaafaaaafaaaafaaaafaaaafaaaafaaaafaaaafaaaafaaaafaaaafaaaafaaaafaaaafaaaafaaaafaaaafaaaafaaaafaaaafaaaafaaaafaaaafaaaafaaaafaaaafaaaafaaaafaaaafaaaafaaaafaaaafaaaafaaaafaaaafaaaafaaaafaaaafaaaafaaaafaaaafaaaafaaaafaaaafaaaafaaaafaaaafaaaafaaaafaaaafaaaafaaaafaaaafaaaafaaaafaaaafaaaafaaaafaaaafaaaafaaaafaaaafaaaafaaaafaaaafaaaafaaaafaaaafaaaafaaaafaaaafaaaafaaaafaaaafaaaafaaaafaaaafaaaafaaaafaaaafaaaafaaaafaaaafaaaafaaaafaaaafaaaafaaaafaaaafaaaafaaaafaaaafaaaafaaaafaaaafaaaafaaaafaaaafaaaafaaaafaaaafaaaafaaaafaaaafaaaafaaaafaaaafaaaafaaaafaaaafaaaafaaaafaaaafaaaafaaaafaaaafaaaafaaaafaaaafaaaafaaaafaaaafaaaafaaaafaaaafaaaafaaaafaaaafaaaafaaaafaaaafaaaafaaaafaaaafaaaafaaaafaaaafaaaafaaaafaaaafaaaafaaaafaaaafaaaafaaaafaaaafaaaafaaaafaaaafaaaafaaaafaaaafaaaafaaaafaaaafaaaafaaaafaaaafaaaafaaaafaaaafaaaafaaaafaaaafaaaafaaaafaaaafaaaafaaaafaaaafaaaafaaaafaaaafaaaafaaaafaaaafaaaafaaaafaaaafaaaafaaaafaaaafaaaafaaaafaaaafaaaafaaaafaaaafaaaafaaaafaaaafaaaafaaaafaaaafaaaafaaaafaaaafaaaafaaaafaaaafaaaafaaaafaaaafaaaafaaaafaaaafaaaafaaaafaaaafaaaafaaaafaaaafaaaafaaaafaaaafaaaafaaaafaaaafaaaafaaaafaaaafaaaafaaaafaaaafaaaafaaaafaaaafaaaafaaaafaaaafaaaafaaaafaaaafaaaafaaaafaaaafaaaafaaaafaaaafaaaafaaaafaaaafaaaafaaaafaaaafaaaafaaaafaaaafaaaafaaaafaaaafaaaafaaaafaaaafaaaafaaaafaaaafaaaafaaaafaaaafaaaafaaaafaaaafaaaafaaaafaaaafaaaafaaaafaaaafaaaafaaaafaaaafaaaafaaaafaaaafaaaafaaaafaaaafaaaafaaaafaaaafaaaafaaaafaaaafaaaafaaaafaaaafaaaafaaaafaaaafaaaafaaaafaaaafaaaafaaaafaaaafaaaafaaaafaaaafaaaafaaaafaaaafaaaafaaaafaaaafaaaafaaaafaaaafaaaafaaaafaaaafaaaafaaaafaaaafaaaafaaaafaaaafaaaafaaaafaaaafaaaafaaaafaaaafaaaafaaaafaaaafaaaafaaaafaaaafaaaafaaaafaaaafaaaafaaaafaaaafaaaafaaaafaaaafaaaafaaaafaaaafaaaafaaaafaaaafaaaafaaaafaaaafaaaafaaaafaaaafaaaafaaaafaaaafaaaafaaaafaaaafaaaafaaaafaaaafaaaafaaaafaaaafaaaafaaaafaaaafaaaafaaaafaaaafaaaafaaaafaaaafaaaafaaaafaaaafaaaafaaaafaaaafaaaafaaaafaaaafaaaafaaaafaaaafaaaafaaaafaaaafaaaafaaaafaaaafaaaafaaaafaaaafaaaafaaaafaaaafaaaafaaaafaaaafaaaafaaaafaaaafaaaafaaaafaaaafaaaafaaaafaaaafaaaafaaaafaaaafaaaafaaaafaaaafaaaafaaaafaaaafaaaafaaaafaaaafaaaafaaaafaaaafaaaafaaaafaaaafaaaafaaaafaaaafaaaafaaaafaaaafaaaafaaaafaaaafaaaafaaaafaaaafaaaafaaaafaaaafaaaafaaaafaaaafaaaafaaaafaaaafaaaafaaaafaaaafaaaafaaaafaaaafaaaafaaaafaaaafaaaafaaaafaaaafaaaafaaaafaaaafaaaafaaaafaaaafaaaafaaaafaaaafaaaafaaaafaaaafaaaafaaaafaaaafaaaafaaaafaaaafaaaafaaaafaaaafaaaafaaaafaaaafaaaafaaaafaaaafaaaafaaaafaaaafaaaafaaaafaaaafaaaafaaaafaaaafaaaafaaaafaaaafaaaafaaaafaaaafaaaafaaaafaaaafaaaafaaaafaaaafaaaafaaaafaaaafaaaafaaaafaaaafaaaafaaaafaaaafaaaafaaaafaaaafaaaafaaaafaaaafaaaafaaaafaaaafaaaafaaaafaaaafaaaafaaaafaaaafaaaafaaaafaaaafaaaafaaaafaaaafaaaafaaaafaaaafaaaafaaaafaaaafaaaafaaaafaaaafaaaafaaaafaaaafaaaafaaaafaaaafaaaafaaaafaaaafaaaafaaaafaaaafaaaafaaaafaaaafaaaafaaaafaaaafaaaafaaaafaaaafaaaafaaaafaaaafaaaafaaaafaaaafaaaafaaaafaaaafaaaafaaaafaaaafaaaafaaaafaaaafaaaafaaaafaaaafaaaafaaaafaaaafaaaafaaaafaaaafaaaafaaaafaaaafaaaafaaaafaaaafaaaafaaaafaaaafaaaafaaaafaaaafaaaafaaaafaaaafaaaafaaaafaaaafaaaafaaaafaaaafaaaafaaaafaaaafaaaafaaaafaaaafaaaafaaaafaaaafaaaafaaaafaaaafaaaafaaaafaaaafaaaafaaaafaaaafaaaafaaaafaaaafaaaafaaaafaaaafaaaafaaaafaaaafaaaafaaaafaaaafaaaafaaaafaaaafaaaafaaaafaaaafaaaafaaaafaaaafaaaafaaaafaaaafaaaafaaaafaaaafaaaafaaaafaaaafaaaafaaaafaaaafaaaafaaaafaaaafaaaafaaaafaaaafaaaafaaaafaaaafaaaafaaaafaaaafaaaafaaaafaaaafaaaafaaaafaaaafaaaafaaaafaaaafaaaafaaaafaaaafaaaafaaaafaaaafaaaafaaaafaaaafaaaafaaaafaaaafaaaafaaaafaaaafaaaafaaaafaaaafaaaafaaaafaaaafaaaafaaaafaaaafaaaafaaaafaaaafaaaafaaaafaaaafaaaafaaaafaaaafaaaafaaaafaaaafaaaafaaaafaaaafaaaafaaaafaaaafaaaafaaaafaaaafaaaafaaaafaaaafaaaafaaaafaaaafaaaafaaaafaaaafaaaafaaaafaaaafaaaafaaaafaaaafaaaafaaaafaaaafaaaafaaaafaaaafaaaafaaaafaaaafaaaafaaaafaaaafaaaafaaaafaaaafaaaafaaaafaaaafaaaafaaaafaaaafaaaafaaaafaaaafaaaafaaaafaaaafaaaafaaaafaaaafaaaafaaaafaaaafaaaafaaaafaaaafaaaafaaaafaaaafaaaafaaaafaaaafaaaafaaaafaaaafaaaafaaaafaaaafaaaafaaaafaaaafaaaafaaaafaaaafaaaafaaaafaaaafaaaafaaaafaaaafaaaafaaaafaaaafaaaafaaaafaaaafaaaafaaaafaaaafaaaafaaaafaaaafaaaafaaaafaaaafaaaafaaaafaaaafaaaafaaaafaaaafaaaafaaaafaaaafaaaafaaaafaaaafaaaafaaaafaaaafaaaafaaaafaaaafaaaafaaaafaaaafaaaafaaaafaaaafaaaafaaaafaaaafaaaafaaaafaaaafaaaafaaaafaaaafaaaafaaaafaaaafaaaafaaaafaaaafaaaafaaaafaaaafaaaafaaaafaaaafaaaafaaaafaaaafaaaafaaaafaaaafaaaafaaaafaaaafaaaafaaaafaaaafaaaafaaaafaaaafaaaafaaaafaaaafaaaafaaaafaaaafaaaafaaaafaaaafaaaafaaaafaaaafaaaafaaaafaaaafaaaafaaaafaaaafaaaafaaaafaaaafaaaafaaaafaaaafaaaafaaaafaaaafaaaafaaaafaaaafaaaafaaaafaaaafaaaafaaaafaaaafaaaafaaaafaaaafaaaafaaaafaaaafaaaafaaaafaaaafaaaafaaaafaaaafaaaafaaaafaaaafaaaafaaaafaaaafaaaafaaaafaaaafaaaafaaaafaaaafaaaafaaaafaaaafaaaafaaaafaaaafaaaafaaaafaaaafaaaafaaaafaaaafaaaafaaaafaaaafaaaafaaaafaaaafaaaafaaaafaaaafaaaafaaaafaaaafaaaafaaaafaaaafaaaafaaaafaaaafaaaafaaaafaaaafaaaafaaaafaaaafaaaafaaaafaaaafaaaafaaaafaaaafaaaafaaaafaaaafaaaafaaaafaaaafaaaafaaaafaaaafaaaafaaaafaaaafaaaafaaaafaaaafaaaafaaaafaaaafaaaafaaaafaaaafaaaafaaaafaaaafaaaafaaaafaaaafaaaafaaaafaaaafaaaafaaaafaaaafaaaafaaaafaaaafaaaafaaaafaaaafaaaafaaaafaaaafaaaafaaaafaaaafaaaafaaaafaaaafaaaafaaaafaaaafaaaafaaaafaaaafaaaafaaaafaaaafaaaafaaaafaaaafaaaafaaaafaaaafaaaafaaaafaaaafaaaafaaaafaaaafaaaafaaaafaaaafaaaafaaaafaaaafaaaafaaaafaaaafaaaafaaaafaaaafaaaafaaaafaaaafaaaafaaaafaaaafaaaafaaaafaaaafaaaafaaaafaaaafaaaafaaaafaaaafaaaafaaaafaaaafaaaafaaaafaaaafaaaafaaaafaaaafaaaafaaaafaaaafaaaafaaaafaaaafaaaafaaaafaaaafaaaafaaaafaaaafaaaafaaaafaaaafaaaafaaaafaaaafaaaafaaaafaaaafaaaafaaaafaaaafaaaafaaaafaaaafaaaafaaaafaaaafaaaafaaaafaaaafaaaafaaaafaaaafaaaafaaaafaaaafaaaafaaaafaaaafaaaafaaaafaaaafaaaafaaaafaaaafaaaafaaaafaaaafaaaafaaaafaaaafaaaafaaaafaaaafaaaafaaaafaaaafaaaafaaaafaaaafaaaafaaaafaaaafaaaafaaaafaaaafaaaafaaaafaaaafaaaafaaaafaaaafaaaafaaaafaaaafaaaafaaaafaaaafaaaafaaaafaaaafaaaafaaaafaaaafaaaafaaaafaaaafaaaafaaaafaaaafaaaafaaaafaaaafaaaafaaaafaaaafaaaafaaaafaaaafaaaafaaaafaaaafaaaafaaaafaaaafaaaafaaaafaaaafaaaafaaaafaaaafaaaafaaaafaaaafaaaafaaaafaaaafaaaafaaaafaaaafaaaafaaaafaaaafaaaafaaaafaaaafaaaafaaaafaaaafaaaafaaaafaaaafaaaafaaaafaaaafaaaafaaaafaaaafaaaafaaaafaaaafaaaafaaaafaaaafaaaafaaaafaaaafaaaafaaaafaaaafaaaafaaaafaaaafaaaafaaaafaaaafaaaafaaaafaaaafaaaafaaaafaaaafaaaafaaaafaaaafaaaafaaaafaaaafaaaafaaaafaaaafaaaafaaaafaaaafaaaafaaaafaaaafaaaafaaaafaaaafaaaafaaaafaaaafaaaafaaaafaaaafaaaafaaaafaaaafaaaafaaaafaaaafaaaafaaaafaaaafaaaafaaaafaaaafaaaafaaaafaaaafaaaafaaaafaaaafaaaafaaaafaaaafaaaafaaaafaaaafaaaafaaaafaaaafaaaafaaaafaaaafaaaafaaaafaaaafaaaafaaaafaaaafaaaafaaaafaaaafaaaafaaaafaaaafaaaafaaaafaaaafaaaafaaaafaaaafaaaafaaaafaaaafaaaafaaaafaaaafaaaafaaaafaaaafaaaafaaaafaaaafaaaafaaaafaaaafaaaafaaaafaaaafaaaafaaaafaaaafaaaafaaaafaaaafaaaafaaaafaaaafaaaafaaaafaaaafaaaafaaaafaaaafaaaafaaaafaaaafaaaafaaaafaaaafaaaafaaaafaaaafaaaafaaaafaaaafaaaafaaaafaaaafaaaafaaaafaaaafaaaafaaaafaaaafaaaafaaaafaaaafaaaafaaaafaaaafaaaafaaaafaaaafaaaafaaaafaaaafaaaafaaaafaaaafaaaafaaaafaaaafaaaafaaaafaaaafaaaafaaaafaaaafaaaafaaaafaaaafaaaafaaaafaaaafaaaafaaaafaaaafaaaafaaaafaaaafaaaafaaaafaaaafaaaafaaaafaaaafaaaafaaaafaaaafaaaafaaaafaaaafaaaafaaaafaaaafaaaafaaaafaaaafaaaafaaaafaaaafaaaafaaaafaaaafaaaafaaaafaaaafaaaafaaaafaaaafaaaafaaaafaaaafaaaafaaaafaaaafaaaafaaaafaaaafaaaafaaaafaaaafaaaafaaaafaaaafaaaafaaaafaaaafaaaafaaaafaaaafaaaafaaaafaaaafaaaafaaaafaaaafaaaafaaaafaaaafaaaafaaaafaaaafaaaafaaaafaaaafaaaafaaaafaaaafaaaafaaaafaaaafaaaafaaaafaaaafaaaafaaaafaaaafaaaafaaaafaaaafaaaafaaaafaaaafaaaafaaaafaaaafaaaafaaaafaaaafaaaafaaaafaaaafaaaafaaaafaaaafaaaafaaaafaaaafaaaafaaaafaaaafaaaafaaaafaaaafaaaafaaaafaaaafaaaafaaaafaaaafaaaafaaaafaaaafaaaafaaaafaaaafaaaafaaaafaaaafaaaafaaaafaaaafaaaafaaaafaaaafaaaafaaaafaaaafaaaafaaaafaaaafaaaafaaaafaaaafaaaafaaaafaaaafaaaafaaaafaaaafaaaafaaaafaaaafaaaafaaaafaaaafaaaafaaaafaaaafaaaafaaaafaaaafaaaafaaaafaaaafaaaafaaaafaaaafaaaafaaaafaaaafaaaafaaaafaaaafaaaafaaaafaaaafaaaafaaaafaaaafaaaafaaaafaaaafaaaafaaaafaaaafaaaafaaaafaaaafaaaafaaaafaaaafaaaafaaaafaaaafaaaafaaaafaaaafaaaafaaaafaaaafaaaafaaaafaaaafaaaafaaaafaaaafaaaafaaaafaaaafaaaafaaaafaaaafaaaafaaaafaaaafaaaafaaaafaaaafaaaafaaaafaaaafaaaafaaaafaaaafaaaafaaaafaaaafaaaafaaaafaaaafaaaafaaaafaaaafaaaafaaaafaaaafaaaafaaaafaaaafaaaafaaaafaaaafaaaafaaaafaaaafaaaafaaaafaaaafaaaafaaaafaaaafaaaafaaaafaaaafaaaafaaaafaaaafaaaafaaaafaaaafaaaafaaaafaaaafaaaafaaaafaaaafaaaafaaaafaaaafaaaafaaaafaaaafaaaafaaaafaaaafaaaafaaaafaaaafaaaafaaaafaaaafaaaafaaaafaaaafaaaafaaaafaaaafaaaafaaaafaaaafaaaafaaaafaaaafaaaafaaaafaaaafaaaafaaaafaaaafaaaafaaaafaaaafaaaafaaaafaaaafaaaafaaaafaaaafaaaafaaaafaaaafaaaafaaaafaaaafaaaafaaaafaaaafaaaafaaaafaaaafaaaafaaaafaaaafaaaafaaaafaaaafaaaafaaaafaaaafaaaafaaaafaaaafaaaafaaaafaaaafaaaafaaaafaaaafaaaafaaaafaaaafaaaafaaaafaaaafaaaafaaaafaaaafaaaafaaaafaaaafaaaafaaaafaaaafaaaafaaaafaaaafaaaafaaaafaaaafaaaafaaaafaaaafaaaafaaaafaaaafaaaafaaaafaaaafaaaafaaaafaaaafaaaafaaaafaaaafaaaafaaaafaaaafaaaafaaaafaaaafaaaafaaaafaaaafaaaafaaaafaaaafaaaafaaaafaaaafaaaafaaaafaaaafaaaafaaaafaaaafaaaafaaaafaaaafaaaafaaaafaaaafaaaafaaaafaaaafaaaafaaaafaaaafaaaafaaaafaaaafaaaafaaaafaaaafaaaafaaaafaaaafaaaafaaaafaaaafaaaafaaaafaaaafaaaafaaaafaaaafaaaafaaaafaaaafaaaafaaaafaaaafaaaafaaaafaaaafaaaafaaaafaaaafaaaafaaaafaaaafaaaafaaaafaaaafaaaafaaaafaaaafaaaafaaaafaaaafaaaafaaaafaaaafaaaafaaaafaaaafaaaafaaaafaaaafaaaafaaaafaaaafaaaafaaaafaaaafaaaafaaaafaaaafaaaafaaaafaaaafaaaafaaaafaaaafaaaafaaaafaaaafaaaafaaaafaaaafaaaafaaaafaaaafaaaafaaaafaaaafaaaafaaaafaaaafaaaafaaaafaaaafaaaafaaaafaaaafaaaafaaaafaaaafaaaafaaaafaaaafaaaafaaaafaaaafaaaafaaaafaaaafaaaafaaaafaaaafaaaafaaaafaaaafaaaafaaaafaaaafaaaafaaaafaaaafaaaafaaaafaaaafaaaafaaaafaaaafaaaafaaaafaaaafaaaafaaaafaaaafaaaafaaaafaaaafaaaafaaaafaaaafaaaafaaaafaaaafaaaafaaaafaaaafaaaafaaaafaaaafaaaafaaaafaaaafaaaafaaaafaaaafaaaafaaaafaaaafaaaafaaaafaaaafaaaafaaaafaaaafaaaafaaaafaaaafaaaafaaaafaaaafaaaafaaaafaaaafaaaafaaaafaaaafaaaafaaaafaaaafaaaafaaaafaaaafaaaafaaaafaaaafaaaafaaaafaaaafaaaafaaaafaaaafaaaafaaaafaaaafaaaafaaaafaaaafaaaafaaaafaaaafaaaafaaaafaaaafaaaafaaaafaaaafaaaafaaaafaaaafaaaafaaaafaaaafaaaafaaaafaaaafaaaafaaaafaaaafaaaafaaaafaaaafaaaafaaaafaaaafaaaafaaaafaaaafaaaafaaaafaaaafaaaafaaaafaaaafaaaafaaaafaaaafaaaafaaaafaaaafaaaafaaaafaaaafaaaafaaaafaaaafaaaafaaaafaaaafaaaafaaaafaaaafaaaafaaaafaaaafaaaafaaaafaaaafaaaafaaaafaaaafaaaafaaaafaaaafaaaafaaaafaaaafaaaafaaaafaaaafaaaafaaaafaaaafaaaafaaaafaaaafaaaafaaaafaaaafaaaafaaaafaaaafaaaafaaaafaaaafaaaafaaaafaaaafaaaafaaaafaaaafaaaafaaaafaaaafaaaafaaaafaaaafaaaafaaaafaaaafaaaafaaaafaaaafaaaafaaaafaaaafaaaafaaaafaaaafaaaafaaaafaaaafaaaafaaaafaaaafaaaafaaaafaaaafaaaafaaaafaaaafaaaafaaaafaaaafaaaafaaaafaaaafaaaafaaaafaaaafaaaafaaaafaaaafaaaafaaaafaaaafaaaafaaaafaaaafaaaafaaaafaaaafaaaafaaaafaaaafaaaafaaaafaaaafaaaafaaaafaaaafaaaafaaaafaaaafaaaafaaaafaaaafaaaafaaaafaaaafaaaafaaaafaaaafaaaafaaaafaaaafaaaafaaaafaaaafaaaafaaaafaaaafaaaafaaaafaaaafaaaafaaaafaaaafaaaafaaaafaaaafaaaafaaaafaaaafaaaafaaaafaaaafaaaafaaaafaaaafaaaafaaaafaaaafaaaafaaaafaaaafaaaafaaaafaaaafaaaafaaaafaaaafaaaafaaaafaaaafaaaafaaaafaaaafaaaafaaaafaaaafaaaafaaaafaaaafaaaafaaaafaaaafaaaafaaaafaaaafaaaafaaaafaaaafaaaafaaaafaaaafaaaafaaaafaaaafaaaafaaaafaaaafaaaafaaaafaaaafaaaafaaaafaaaafaaaafaaaafaaaafaaaafaaaafaaaafaaaafaaaafaaaafaaaafaaaafaaaafaaaafaaaafaaaafaaaafaaaafaaaafaaaafaaaafaaaafaaaafaaaafaaaafaaaafaaaafaaaafaaaafaaaafaaaafaaaafaaaafaaaafaaaafaaaafaaaafaaaafaaaafaaaafaaaafaaaafaaaafaaaafaaaafaaaafaaaafaaaafaaaafaaaafaaaafaaaafaaaafaaaafaaaafaaaafaaaafaaaafaaaafaaaafaaaafaaaafaaaafaaaafaaaafaaaafaaaafaaaafaaaafaaaafaaaafaaaafaaaafaaaafaaaafaaaafaaaafaaaafaaaafaaaafaaaafaaaafaaaafaaaafaaaafaaaafaaaafaaaafaaaafaaaafaaaafaaaafaaaafaaaafaaaafaaaafaaaafaaaafaaaafaaaafaaaafaaaafaaaafaaaafaaaafaaaafaaaafaaaafaaaafaaaafaaaafaaaafaaaafaaaafaaaafaaaafaaaafaaaafaaaafaaaafaaaafaaaafaaaafaaaafaaaafaaaafaaaafaaaafaaaafaaaafaaaafaaaafaaaafaaaafaaaafaaaafaaaafaaaafaaaafaaaafaaaafaaaafaaaafaaaafaaaafaaaafaaaafaaaafaaaafaaaafaaaafaaaafaaaafaaaafaaaafaaaafaaaafaaaafaaaafaaaafaaaafaaaafaaaafaaaafaaaafaaaafaaaafaaaafaaaafaaaafaaaafaaaafaaaafaaaafaaaafaaaafaaaafaaaafaaaafaaaafaaaafaaaafaaaafaaaafaaaafaaaafaaaafaaaafaaaafaaaafaaaafaaaafaaaafaaaafaaaafaaaafaaaafaaaafaaaafaaaafaaaafaaaafaaaafaaaafaaaafaaaafaaaafaaaafaaaafaaaafaaaafaaaafaaaafaaaafaaaafaaaafaaaafaaaafaaaafaaaafaaaafaaaafaaaafaaaafaaaafaaaafaaaafaaaafaaaafaaaafaaaafaaaafaaaafaaaafaaaafaaaafaaaafaaaafaaaafaaaafaaaafaaaafaaaafaaaafaaaafaaaafaaaafaaaafaaaafaaaafaaaafaaaafaaaafaaaafaaaafaaaafaaaafaaaafaaaafaaaafaaaafaaaafaaaafaaaafaaaafaaaafaaaafaaaafaaaafaaaafaaaafaaaafaaaafaaaafaaaafaaaafaaaafaaaafaaaafaaaafaaaafaaaafaaaafaaaafaaaafaaaafaaaafaaaafaaaafaaaafaaaafaaaafaaaafaaaafaaaafaaaafaaaafaaaafaaaafaaaafaaaafaaaafaaaafaaaafaaaafaaaafaaaafaaaafaaaafaaaafaaaafaaaafaaaafaaaafaaaafaaaafaaaafaaaafaaaafaaaafaaaafaaaafaaaafaaaafaaaafaaaafaaaafaaaafaaaafaaaafaaaafaaaafaaaafaaaafaaaafaaaafaaaafaaaafaaaafaaaafaaaafaaaafaaaafaaaafaaaafaaaafaaaafaaaafaaaafaaaafaaaafaaaafaaaafaaaafaaaafaaaafaaaafaaaafaaaafaaaafaaaafaaaafaaaafaaaafaaaafaaaafaaaafaaaafaaaafaaaafaaaafaaaafaaaafaaaafaaaafaaaafaaaafaaaafaaaafaaaafaaaafaaaafaaaafaaaafaaaafaaaafaaaafaaaafaaaafaaaafaaaafaaaafaaaafaaaafaaaafaaaafaaaafaaaafaaaafaaaafaaaafaaaafaaaafaaaafaaaafaaaafaaaafaaaafaaaafaaaafaaaafaaaafaaaafaaaafaaaafaaaafaaaafaaaafaaaafaaaafaaaafaaaafaaaafaaaafaaaafaaaafaaaafaaaafaaaafaaaafaaaafaaaafaaaafaaaafaaaafaaaafaaaafaaaafaaaafaaaafaaaafaaaafaaaafaaaafaaaafaaaafaaaafaaaafaaaafaaaafaaaafaaaafaaaafaaaafaaaafaaaafaaaafaaaafaaaafaaaafaaaafaaaafaaaafaaaafaaaafaaaafaaaafaaaafaaaafaaaafaaaafaaaafaaaafaaaafaaaafaaaafaaaafaaaafaaaafaaaafaaaafaaaafaaaafaaaafaaaafaaaafaaaafaaaafaaaafaaaafaaaafaaaafaaaafaaaafaaaafaaaafaaaafaaaafaaaafaaaafaaaafaaaafaaaafaaaafaaaafaaaafaaaafaaaafaaaafaaaafaaaafaaaafaaaafaaaafaaaafaaaafaaaafaaaafaaaafaaaafaaaafaaaafaaaafaaaafaaaafaaaafaaaafaaaafaaaafaaaafaaaafaaaafaaaafaaaafaaaafaaaafaaaafaaaafaaaafaaaafaaaafaaaafaaaafaaaafaaaafaaaafaaaafaaaafaaaafaaaafaaaafaaaafaaaafaaaafaaaafaaaafaaaafaaaafaaaafaaaafaaaafaaaafaaaafaaaafaaaafaaaafaaaafaaaafaaaafaaaafaaaafaaaafaaaafaaaafaaaafaaaafaaaafaaaafaaaafaaaafaaaafaaaafaaaafaaaafaaaafaaaafaaaafaaaafaaaafaaaafaaaafaaaafaaaafaaaafaaaafaaaafaaaafaaaafaaaafaaaafaaaafaaaafaaaafaaaafaaaafaaaafaaaafaaaafaaaafaaaafaaaafaaaafaaaafaaaafaaaafaaaafaaaafaaaafaaaafaaaafaaaafaaaafaaaafaaaafaaaafaaaafaaaafaaaafaaaafaaaafaaaafaaaafaaaafaaaafaaaafaaaafaaaafaaaafaaaafaaaafaaaafaaaafaaaafaaaafaaaafaaaafaaaafaaaafaaaafaaaafaaaafaaaafaaaafaaaafaaaafaaaafaaaafaaaafaaaafaaaafaaaafaaaafaaaafaaaafaaaafaaaafaaaafaaaafaaaafaaaafaaaafaaaafaaaafaaaafaaaafaaaafaaaafaaaafaaaafaaaafaaaafaaaafaaaafaaaafaaaafaaaafaaaafaaaafaaaafaaaafaaaafaaaafaaaafaaaafaaaafaaaafaaaafaaaafaaaafaaaafaaaafaaaafaaaafaaaafaaaafaaaafaaaafaaaafaaaafaaaafaaaafaaaafaaaafaaaafaaaafaaaafaaaafaaaafaaaafaaaafaaaafaaaafaaaafaaaafaaaafaaaafaaaafaaaafaaaafaaaafaaaafaaaafaaaafaaaafaaaafaaaafaaaafaaaafaaaafaaaafaaaafaaaafaaaafaaaafaaaafaaaafaaaafaaaafaaaafaaaafaaaafaaaafaaaafaaaafaaaafaaaafaaaafaaaafaaaafaaaafaaaafaaaafaaaafaaaafaaaafaaaafaaaafaaaafaaaafaaaafaaaafaaaafaaaafaaaafaaaafaaaafaaaafaaaafaaaafaaaafaaaafaaaafaaaafaaaafaaaafaaaafaaaafaaaafaaaafaaaafaaaafaaaafaaaafaaaafaaaafaaaafaaaafaaaafaaaafaaaafaaaafaaaafaaaafaaaafaaaafaaaafaaaafaaaafaaaafaaaafaaaafaaaafaaaafaaaafaaaafaaaafaaaafaaaafaaaafaaaafaaaafaaaafaaaafaaaafaaaafaaaafaaaafaaaafaaaafaaaafaaaafaaaafaaaafaaaafaaaafaaaafaaaafaaaafaaaafaaaafaaaafaaaafaaaafaaaafaaaafaaaafaaaafaaaafaaaafaaaafaaaafaaaafaaaafaaaafaaaafaaaafaaaafaaaafaaaafaaaafaaaafaaaafaaaafaaaafaaaafaaaafaaaafaaaafaaaafaaaafaaaafaaaafaaaafaaaafaaaafaaaafaaaafaaaafaaaafaaaafaaaafaaaafaaaafaaaafaaaafaaaafaaaafaaaafaaaafaaaafaaaafaaaafaaaafaaaafaaaafaaaafaaaafaaaafaaaafaaaafaaaafaaaafaaaafaaaafaaaafaaaafaaaafaaaafaaaafaaaafaaaafaaaafaaaafaaaafaaaafaaaafaaaafaaaafaaaafaaaafaaaafaaaafaaaafaaaafaaaafaaaafaaaafaaaafaaaafaaaafaaaafaaaafaaaafaaaafaaaafaaaafaaaafaaaafaaaafaaaafaaaafaaaafaaaafaaaafaaaafaaaafaaaafaaaafaaaafaaaafaaaafaaaafaaaafaaaafaaaafaaaafaaaafaaaafaaaafaaaafaaaafaaaafaaaafaaaafaaaafaaaafaaaafaaaafaaaafaaaafaaaafaaaafaaaafaaaafaaaafaaaafaaaafaaaafaaaafaaaafaaaafaaaafaaaafaaaafaaaafaaaafaaaafaaaafaaaafaaaafaaaafaaaafaaaafaaaafaaaafaaaafaaaafaaaafaaaafaaaafaaaafaaaafaaaafaaaafaaaafaaaafaaaafaaaafaaaafaaaafaaaafaaaafaaaafaaaafaaaafaaaafaaaafaaaafaaaafaaaafaaaafaaaafaaaafaaaafaaaafaaaafaaaafaaaafaaaafaaaafaaaafaaaafaaaafaaaafaaaafaaaafaaaafaaaafaaaafaaaafaaaafaaaafaaaafaaaafaaaafaaaafaaaafaaaafaaaafaaaafaaaafaaaafaaaafaaaafaaaafaaaafaaaafaaaafaaaafaaaafaaaafaaaafaaaafaaaafaaaafaaaafaaaafaaaafaaaafaaaafaaaafaaaafaaaafaaaafaaaafaaaafaaaafaaaafaaaafaaaafaaaafaaaafaaaafaaaafaaaafaaaafaaaafaaaafaaaafaaaafaaaafaaaafaaaafaaaafaaaafaaaafaaaafaaaafaaaafaaaafaaaafaaaafaaaafaaaafaaaafaaaafaaaafaaaafaaaafaaaafaaaafaaaafaaaafaaaafaaaafaaaafaaaafaaaafaaaafaaaafaaaafaaaafaaaafaaaafaaaafaaaafaaaafaaaafaaaafaaaafaaaafaaaafaaaafaaaafaaaafaaaafaaaafaaaafaaaafaaaafaaaafaaaafaaaafaaaafaaaafaaaafaaaafaaaafaaaafaaaafaaaafaaaafaaaafaaaafaaaafaaaafaaaafaaaafaaaafaaaafaaaafaaaafaaaafaaaafaaaafaaaafaaaafaaaafaaaafaaaafaaaafaaaafaaaafaaaafaaaafaaaafaaaafaaaafaaaafaaaafaaaafaaaafaaaafaaaafaaaafaaaafaaaafaaaafaaaafaaaafaaaafaaaafaaaafaaaafaaaafaaaafaaaafaaaafaaaafaaaafaaaafaaaafaaaafaaaafaaaafaaaafaaaafaaaafaaaafaaaafaaaafaaaafaaaafaaaafaaaafaaaafaaaafaaaafaaaafaaaafaaaafaaaafaaaafaaaafaaaafaaaafaaaafaaaafaaaafaaaafaaaafaaaafaaaafaaaafaaaafaaaafaaaafaaaafaaaafaaaafaaaafaaaafaaaafaaaafaaaafaaaafaaaafaaaafaaaafaaaafaaaafaaaafaaaafaaaafaaaafaaaafaaaafaaaafaaaafaaaafaaaafaaaafaaaafaaaafaaaafaaaafaaaafaaaafaaaafaaaafaaaafaaaafaaaafaaaafaaaafaaaafaaaafaaaafaaaafaaaafaaaafaaaafaaaafaaaafaaaafaaaafaaaafaaaafaaaafaaaafaaaafaaaafaaaafaaaafaaaafaaaafaaaafaaaafaaaafaaaafaaaafaaaafaaaafaaaafaaaafaaaafaaaafaaaafaaaafaaaafaaaafaaaafaaaafaaaafaaaafaaaafaaaafaaaafaaaafaaaafaaaafaaaafaaaafaaaafaaaafaaaafaaaafaaaafaaaafaaaafaaaafaaaafaaaafaaaafaaaafaaaafaaaafaaaafaaaafaaaafaaaafaaaafaaaafaaaafaaaafaaaafaaaafaaaafaaaafaaaafaaaafaaaafaaaafaaaafaaaafaaaafaaaafaaaafaaaafaaaafaaaafaaaafaaaafaaaafaaaafaaaafaaaafaaaafaaaafaaaafaaaafaaaafaaaafaaaafaaaafaaaafaaaafaaaafaaaafaaaafaaaafaaaafaaaafaaaafaaaafaaaafaaaafaaaafaaaafaaaafaaaafaaaafaaaafaaaafaaaafaaaafaaaafaaaafaaaafaaaafaaaafaaaafaaaafaaaafaaaafaaaafaaaafaaaafaaaafaaaafaaaafaaaafaaaafaaaafaaaafaaaafaaaafaaaafaaaafaaaafaaaafaaaafaaaafaaaafaaaafaaaafaaaafaaaafaaaafaaaafaaaafaaaafaaaafaaaafaaaafaaaafaaaafaaaafaaaafaaaafaaaafaaaafaaaafaaaafaaaafaaaafaaaafaaaafaaaafaaaafaaaafaaaafaaaafaaaafaaaafaaaafaaaafaaaafaaaafaaaafaaaafaaaafaaaafaaaafaaaafaaaafaaaafaaaafaaaafaaaafaaaafaaaafaaaafaaaafaaaafaaaafaaaafaaaafaaaafaaaafaaaafaaaafaaaafaaaafaaaafaaaafaaaafaaaafaaaafaaaafaaaafaaaafaaaafaaaafaaaafaaaafaaaafaaaafaaaafaaaafaaaafaaaafaaaafaaaafaaaafaaaafaaaafaaaafaaaafaaaafaaaafaaaafaaaafaaaafaaaafaaaafaaaafaaaafaaaafaaaafaaaafaaaafaaaafaaaafaaaafaaaafaaaafaaaafaaaafaaaafaaaafaaaafaaaafaaaafaaaafaaaafaaaafaaaafaaaafaaaafaaaafaaaafaaaafaaaafaaaafaaaafaaaafaaaafaaaafaaaafaaaafaaaafaaaafaaaafaaaafaaaafaaaafaaaafaaaafaaaafaaaafaaaafaaaafaaaafaaaafaaaafaaaafaaaafaaaafaaaafaaaafaaaafaaaafaaaafaaaafaaaafaaaafaaaafaaaafaaaafaaaafaaaafaaaafaaaafaaaafaaaafaaaafaaaafaaaafaaaafaaaafaaaafaaaafaaaafaaaafaaaafaaaafaaaafaaaafaaaafaaaafaaaafaaaafaaaafaaaafaaaafaaaafaaaafaaaafaaaafaaaafaaaafaaaafaaaafaaaafaaaafaaaafaaaafaaaafaaaafaaaafaaaafaaaafaaaafaaaafaaaafaaaafaaaafaaaafaaaafaaaafaaaafaaaafaaaafaaaafaaaafaaaafaaaafaaaafaaaafaaaafaaaafaaaafaaaafaaaafaaaafaaaafaaaafaaaafaaaafaaaafaaaafaaaafaaaafaaaafaaaafaaaafaaaafaaaafaaaafaaaafaaaafaaaafaaaafaaaafaaaafaaaafaaaafaaaafaaaafaaaafaaaafaaaafaaaafaaaafaaaafaaaafaaaafaaaafaaaafaaaafaaaafaaaafaaaafaaaafaaaafaaaafaaaafaaaafaaaafaaaafaaaafaaaafaaaafaaaafaaaafaaaafaaaafaaaafaaaafaaaafaaaafaaaafaaaafaaaafaaaafaaaafaaaafaaaafaaaafaaaafaaaafaaaafaaaafaaaafaaaafaaaafaaaafaaaafaaaafaaaafaaaafaaaafaaaafaaaafaaaafaaaafaaaafaaaafaaaafaaaafaaaafaaaafaaaafaaaafaaaafaaaafaaaafaaaafaaaafaaaafaaaafaaaafaaaafaaaafaaaafaaaafaaaafaaaafaaaafaaaafaaaafaaaafaaaafaaaafaaaafaaaafaaaafaaaafaaaafaaaafaaaafaaaafaaaafaaaafaaaafaaaafaaaafaaaafaaaafaaaafaaaafaaaafaaaafaaaafaaaafaaaafaaaafaaaafaaaafaaaafaaaafaaaafaaaafaaaafaaaafaaaafaaaafaaaafaaaafaaaafaaaafaaaafaaaafaaaafaaaafaaaafaaaafaaaafaaaafaaaafaaaafaaaafaaaafaaaafaaaafaaaafaaaafaaaafaaaafaaaafaaaafaaaafaaaafaaaafaaaafaaaafaaaafaaaafaaaafaaaafaaaafaaaafaaaafaaaafaaaafaaaafaaaafaaaafaaaafaaaafaaaafaaaafaaaafaaaafaaaafaaaafaaaafaaaafaaaafaaaafaaaafaaaafaaaafaaaafaaaafaaaafaaaafaaaafaaaafaaaafaaaafaaaafaaaafaaaafaaaafaaaafaaaafaaaafaaaafaaaafaaaafaaaafaaaafaaaafaaaafaaaafaaaafaaaafaaaafaaaafaaaafaaaafaaaafaaaafaaaafaaaafaaaafaaaafaaaafaaaafaaaafaaaafaaaafaaaafaaaafaaaafaaaafaaaafaaaafaaaafaaaafaaaafaaaafaaaafaaaafaaaafaaaafaaaafaaaafaaaafaaaafaaaafaaaafaaaafaaaafaaaafaaaafaaaafaaaafaaaafaaaafaaaafaaaafaaaafaaaafaaaafaaaafaaaafaaaafaaaafaaaafaaaafaaaafaaaafaaaafaaaafaaaafaaaafaaaafaaaafaaaafaaaafaaaafaaaafaaaafaaaafaaaafaaaafaaaafaaaafaaaafaaaafaaaafaaaafaaaafaaaafaaaafaaaafaaaafaaaafaaaafaaaafaaaafaaaafaaaafaaaafaaaafaaaafaaaafaaaafaaaafaaaafaaaafaaaafaaaafaaaafaaaafaaaafaaaafaaaafaaaafaaaafaaaafaaaafaaaafaaaafaaaafaaaafaaaafaaaafaaaafaaaafaaaafaaaafaaaafaaaafaaaafaaaafaaaafaaaafaaaafaaaafaaaafaaaafaaaafaaaafaaaafaaaafaaaafaaaafaaaafaaaafaaaafaaaafaaaafaaaafaaaafaaaafaaaafaaaafaaaafaaaafaaaafaaaafaaaafaaaafaaaafaaaafaaaafaaaafaaaafaaaafaaaafaaaafaaaafaaaafaaaafaaaafaaaafaaaafaaaafaaaafaaaafaaaafaaaafaaaafaaaafaaaafaaaafaaaafaaaafaaaafaaaafaaaafaaaafaaaafaaaafaaaafaaaafaaaafaaaafaaaafaaaafaaaafaaaafaaaafaaaafaaaafaaaafaaaafaaaafaaaafaaaafaaaafaaaafaaaafaaaafaaaafaaaafaaaafaaaafaaaafaaaafaaaafaaaafaaaafaaaafaaaafaaaafaaaafaaaafaaaafaaaafaaaafaaaafaaaafaaaafaaaafaaaafaaaafaaaafaaaafaaaafaaaafaaaafaaaafaaaafaaaafaaaafaaaafaaaafaaaafaaaafaaaafaaaafaaaafaaaafaaaafaaaafaaaafaaaafaaaafaaaafaaaafaaaafaaaafaaaafaaaafaaaafaaaafaaaafaaaafaaaafaaaafaaaafaaaafaaaafaaaafaaaafaaaafaaaafaaaafaaaafaaaafaaaafaaaafaaaafaaaafaaaafaaaafaaaafaaaafaaaafaaaafaaaafaaaafaaaafaaaafaaaafaaaafaaaafaaaafaaaafaaaafaaaafaaaafaaaafaaaafaaaafaaaafaaaafaaaafaaaafaaaafaaaafaaaafaaaafaaaafaaaafaaaafaaaafaaaafaaaafaaaafaaaafaaaafaaaafaaaafaaaafaaaafaaaafaaaafaaaafaaaafaaaafaaaafaaaafaaaafaaaafaaaafaaaafaaaafaaaafaaaafaaaafaaaafaaaafaaaafaaaafaaaafaaaafaaaafaaaafaaaafaaaafaaaafaaaafaaaafaaaafaaaafaaaafaaaafaaaafaaaafaaaafaaaafaaaafaaaafaaaafaaaafaaaafaaaafaaaafaaaafaaaafaaaafaaaafaaaafaaaafaaaafaaaafaaaafaaaafaaaafaaaafaaaafaaaafaaaafaaaafaaaafaaaafaaaafaaaafaaaafaaaafaaaafaaaafaaaafaaaafaaaafaaaafaaaafaaaafaaaafaaaafaaaafaaaafaaaafaaaafaaaafaaaafaaaafaaaafaaaafaaaafaaaafaaaafaaaafaaaafaaaafaaaafaaaafaaaafaaaafaaaafaaaafaaaafaaaafaaaafaaaafaaaafaaaafaaaafaaaafaaaafaaaafaaaafaaaafaaaafaaaafaaaafaaaafaaaafaaaafaaaafaaaafaaaafaaaafaaaafaaaafaaaafaaaafaaaafaaaafaaaafaaaafaaaafaaaafaaaafaaaafaaaafaaaafaaaafaaaafaaaafaaaafaaaafaaaafaaaafaaaafaaaafaaaafaaaafaaaafaaaafaaaafaaaafaaaafaaaafaaaafaaaafaaaafaaaafaaaafaaaafaaaafaaaafaaaafaaaafaaaafaaaafaaaafaaaafaaaafaaaafaaaafaaaafaaaafaaaafaaaafaaaafaaaafaaaafaaaafaaaafaaaafaaaafaaaafaaaafaaaafaaaafaaaafaaaafaaaafaaaafaaaafaaaafaaaafaaaafaaaafaaaafaaaafaaaafaaaafaaaafaaaafaaaafaaaafaaaafaaaafaaaafaaaafaaaafaaaafaaaafaaaafaaaafaaaafaaaafaaaafaaaafaaaafaaaafaaaafaaaafaaaafaaaafaaaafaaaafaaaafaaaafaaaafaaaafaaaafaaaafaaaafaaaafaaaafaaaafaaaafaaaafaaaafaaaafaaaafaaaafaaaafaaaafaaaafaaaafaaaafaaaafaaaafaaaafaaaafaaaafaaaafaaaafaaaafaaaafaaaafaaaafaaaafaaaafaaaafaaaafaaaafaaaafaaaafaaaafaaaafaaaafaaaafaaaafaaaafaaaafaaaafaaaafaaaafaaaafaaaafaaaafaaaafaaaafaaaafaaaafaaaafaaaafaaaafaaaafaaaafaaaafaaaafaaaafaaaafaaaafaaaafaaaafaaaafaaaafaaaafaaaafaaaafaaaafaaaafaaaafaaaafaaaafaaaafaaaafaaaafaaaafaaaafaaaafaaaafaaaafaaaafaaaafaaaafaaaafaaaafaaaafaaaafaaaafaaaafaaaafaaaafaaaafaaaafaaaafaaaafaaaafaaaafaaaafaaaafaaaafaaaafaaaafaaaafaaaafaaaafaaaafaaaafaaaafaaaafaaaafaaaafaaaafaaaafaaaafaaaafaaaafaaaafaaaafaaaafaaaafaaaafaaaafaaaafaaaafaaaafaaaafaaaafaaaafaaaafaaaafaaaafaaaafaaaafaaaafaaaafaaaafaaaafaaaafaaaafaaaafaaaafaaaafaaaafaaaafaaaafaaaafaaaafaaaafaaaafaaaafaaaafaaaafaaaafaaaafaaaafaaaafaaaafaaaafaaaafaaaafaaaafaaaafaaaafaaaafaaaafaaaafaaaafaaaafaaaafaaaafaaaafaaaafaaaafaaaafaaaafaaaafaaaafaaaafaaaafaaaafaaaafaaaafaaaafaaaafaaaafaaaafaaaafaaaafaaaafaaaafaaaafaaaafaaaafaaaafaaaafaaaafaaaafaaaafaaaafaaaafaaaafaaaafaaaafaaaafaaaafaaaafaaaafaaaafaaaafaaaafaaaafaaaafaaaafaaaafaaaafaaaafaaaafaaaafaaaafaaaafaaaafaaaafaaaafaaaafaaaafaaaafaaaafaaaafaaaafaaaafaaaafaaaafaaaafaaaafaaaafaaaafaaaafaaaafaaaafaaaafaaaafaaaafaaaafaaaafaaaafaaaafaaaafaaaafaaaafaaaafaaaafaaaafaaaafaaaafaaaafaaaafaaaafaaaafaaaafaaaafaaaafaaaafaaaafaaaafaaaafaaaafaaaafaaaafaaaafaaaafaaaafaaaafaaaafaaaafaaaafaaaafaaaafaaaafaaaafaaaafaaaafaaaafaaaafaaaafaaaafaaaafaaaafaaaafaaaafaaaafaaaafaaaafaaaafaaaafaaaafaaaafaaaafaaaafaaaafaaaafaaaafaaaafaaaafaaaafaaaafaaaafaaaafaaaafaaaafaaaafaaaafaaaafaaaafaaaafaaaafaaaafaaaafaaaafaaaafaaaafaaaafaaaafaaaafaaaafaaaafaaaafaaaafaaaafaaaafaaaafaaaafaaaafaaaafaaaafaaaafaaaafaaaafaaaafaaaafaaaafaaaafaaaafaaaafaaaafaaaafaaaafaaaafaaaafaaaafaaaafaaaafaaaafaaaafaaaafaaaafaaaafaaaafaaaafaaaafaaaafaaaafaaaafaaaafaaaafaaaafaaaafaaaafaaaafaaaafaaaafaaaafaaaafaaaafaaaafaaaafaaaafaaaafaaaafaaaafaaaafaaaafaaaafaaaafaaaafaaaafaaaafaaaafaaaafaaaafaaaafaaaafaaaafaaaafaaaafaaaafaaaafaaaafaaaafaaaafaaaafaaaafaaaafaaaafaaaafaaaafaaaafaaaafaaaafaaaafaaaafaaaafaaaafaaaafaaaafaaaafaaaafaaaafaaaafaaaafaaaafaaaafaaaafaaaafaaaafaaaafaaaafaaaafaaaafaaaafaaaafaaaafaaaafaaaafaaaafaaaafaaaafaaaafaaaafaaaafaaaafaaaafaaaafaaaafaaaafaaaafaaaafaaaafaaaafaaaafaaaafaaaafaaaafaaaafaaaafaaaafaaaafaaaafaaaafaaaafaaaafaaaafaaaafaaaafaaaafaaaafaaaafaaaafaaaafaaaafaaaafaaaafaaaafaaaafaaaafaaaafaaaafaaaafaaaafaaaafaaaafaaaafaaaafaaaafaaaafaaaafaaaafaaaafaaaafaaaafaaaafaaaafaaaafaaaafaaaafaaaafaaaafaaaafaaaafaaaafaaaafaaaafaaaafaaaafaaaafaaaafaaaafaaaafaaaafaaaafaaaafaaaafaaaafaaaafaaaafaaaafaaaafaaaafaaaafaaaafaaaafaaaafaaaafaaaafaaaafaaaafaaaafaaaafaaaafaaaafaaaafaaaafaaaafaaaafaaaafaaaafaaaafaaaafaaaafaaaafaaaafaaaafaaaafaaaafaaaafaaaafaaaafaaaafaaaafaaaafaaaafaaaafaaaafaaaafaaaafaaaafaaaafaaaafaaaafaaaafaaaafaaaafaaaafaaaafaaaafaaaafaaaafaaaafaaaafaaaafaaaafaaaafaaaafaaaafaaaafaaaafaaaafaaaafaaaafaaaafaaaafaaaafaaaafaaaafaaaafaaaafaaaafaaaafaaaafaaaafaaaafaaaafaaaafaaaafaaaafaaaafaaaafaaaafaaaafaaaafaaaafaaaafaaaafaaaafaaaafaaaafaaaafaaaafaaaafaaaafaaaafaaaafaaaafaaaafaaaafaaaafaaaafaaaafaaaafaaaafaaaafaaaafaaaafaaaafaaaafaaaafaaaafaaaafaaaafaaaafaaaafaaaafaaaafaaaafaaaafaaaafaaaafaaaafaaaafaaaafaaaafaaaafaaaafaaaafaaaafaaaafaaaafaaaafaaaafaaaafaaaafaaaafaaaafaaaafaaaafaaaafaaaafaaaafaaaafaaaafaaaafaaaafaaaafaaaafaaaafaaaafaaaafaaaafaaaafaaaafaaaafaaaafaaaafaaaafaaaafaaaafaaaafaaaafaaaafaaaafaaaafaaaafaaaafaaaafaaaafaaaafaaaafaaaafaaaafaaaafaaaafaaaafaaaafaaaafaaaafaaaafaaaafaaaafaaaafaaaafaaaafaaaafaaaafaaaafaaaafaaaafaaaafaaaafaaaafaaaafaaaafaaaafaaaafaaaafaaaafaaaafaaaafaaaafaaaafaaaafaaaafaaaafaaaafaaaafaaaafaaaafaaaafaaaafaaaafaaaafaaaafaaaafaaaafaaaafaaaafaaaafaaaafaaaafaaaafaaaafaaaafaaaafaaaafaaaafaaaafaaaafaaaafaaaafaaaafaaaafaaaafaaaafaaaafaaaafaaaafaaaafaaaafaaaafaaaafaaaafaaaafaaaafaaaafaaaafaaaafaaaafaaaafaaaafaaaafaaaafaaaafaaaafaaaafaaaafaaaafaaaafaaaafaaaafaaaafaaaafaaaafaaaafaaaafaaaafaaaafaaaafaaaafaaaafaaaafaaaafaaaafaaaafaaaafaaaafaaaafaaaafaaaafaaaafaaaafaaaafaaaafaaaafaaaafaaaafaaaafaaaafaaaafaaaafaaaafaaaafaaaafaaaafaaaafaaaafaaaafaaaafaaaafaaaafaaaafaaaafaaaafaaaafaaaafaaaafaaaafaaaafaaaafaaaafaaaafaaaafaaaafaaaafaaaafaaaafaaaafaaaafaaaafaaaafaaaafaaaafaaaafaaaafaaaafaaaafaaaafaaaafaaaafaaaafaaaafaaaafaaaafaaaafaaaafaaaafaaaafaaaafaaaafaaaafaaaafaaaafaaaafaaaafaaaafaaaafaaaafaaaafaaaafaaaafaaaafaaaafaaaafaaaafaaaafaaaafaaaafaaaafaaaafaaaafaaaafaaaafaaaafaaaafaaaafaaaafaaaafaaaafaaaafaaaafaaaafaaaafaaaafaaaafaaaafaaaafaaaafaaaafaaaafaaaafaaaafaaaafaaaafaaaafaaaafaaaafaaaafaaaafaaaafaaaafaaaafaaaafaaaafaaaafaaaafaaaafaaaafaaaafaaaafaaaafaaaafaaaafaaaafaaaafaaaafaaaafaaaafaaaafaaaafaaaafaaaafaaaafaaaafaaaafaaaafaaaafaaaafaaaafaaaafaaaafaaaafaaaafaaaafaaaafaaaafaaaafaaaafaaaafaaaafaaaafaaaafaaaafaaaafaaaafaaaafaaaafaaaafaaaafaaaafaaaafaaaafaaaafaaaafaaaafaaaafaaaafaaaafaaaafaaaafaaaafaaaafaaaafaaaafaaaafaaaafaaaafaaaafaaaafaaaafaaaafaaaafaaaafaaaafaaaafaaaafaaaafaaaafaaaafaaaafaaaafaaaafaaaafaaaafaaaafaaaafaaaafaaaafaaaafaaaafaaaafaaaafaaaafaaaafaaaafaaaafaaaafaaaafaaaafaaaafaaaafaaaafaaaafaaaafaaaafaaaafaaaafaaaafaaaafaaaafaaaafaaaafaaaafaaaafaaaafaaaafaaaafaaaafaaaafaaaafaaaafaaaafaaaafaaaafaaaafaaaafaaaafaaaafaaaafaaaafaaaafaaaafaaaafaaaafaaaafaaaafaaaafaaaafaaaafaaaafaaaafaaaafaaaafaaaafaaaafaaaafaaaafaaaafaaaafaaaafaaaafaaaafaaaafaaaafaaaafaaaafaaaafaaaafaaaafaaaafaaaafaaaafaaaafaaaafaaaafaaaafaaaafaaaafaaaafaaaafaaaafaaaafaaaafaaaafaaaafaaaafaaaafaaaafaaaafaaaafaaaafaaaafaaaafaaaafaaaafaaaafaaaafaaaafaaaafaaaafaaaafaaaafaaaafaaaafaaaafaaaafaaaafaaaafaaaafaaaafaaaafaaaafaaaafaaaafaaaafaaaafaaaafaaaafaaaafaaaafaaaafaaaafaaaafaaaafaaaafaaaafaaaafaaaafaaaafaaaafaaaafaaaafaaaafaaaafaaaafaaaafaaaafaaaafaaaafaaaafaaaafaaaafaaaafaaaafaaaafaaaafaaaafaaaafaaaafaaaafaaaafaaaafaaaafaaaafaaaafaaaafaaaafaaaafaaaafaaaafaaaafaaaafaaaafaaaafaaaafaaaafaaaafaaaafaaaafaaaafaaaafaaaafaaaafaaaafaaaafaaaafaaaafaaaafaaaafaaaafaaaafaaaafaaaafaaaafaaaafaaaafaaaafaaaafaaaafaaaafaaaafaaaafaaaafaaaafaaaafaaaafaaaafaaaafaaaafaaaafaaaafaaaafaaaafaaaafaaaafaaaafaaaafaaaafaaaafaaaafaaaafaaaafaaaafaaaafaaaafaaaafaaaafaaaafaaaafaaaafaaaafaaaafaaaafaaaafaaaafaaaafaaaafaaaafaaaafaaaafaaaafaaaafaaaafaaaafaaaafaaaafaaaafaaaafaaaafaaaafaaaafaaaafaaaafaaaafaaaafaaaafaaaafaaaafaaaafaaaafaaaafaaaafaaaafaaaafaaaafaaaafaaaafaaaafaaaafaaaafaaaafaaaafaaaafaaaafaaaafaaaafaaaafaaaafaaaafaaaafaaaafaaaafaaaafaaaafaaaafaaaafaaaafaaaafaaaafaaaafaaaafaaaafaaaafaaaafaaaafaaaafaaaafaaaafaaaafaaaafaaaafaaaafaaaafaaaafaaaafaaaafaaaafaaaafaaaafaaaafaaaafaaaafaaaafaaaafaaaafaaaafaaaafaaaafaaaafaaaafaaaafaaaafaaaafaaaafaaaafaaaafaaaafaaaafaaaafaaaafaaaafaaaafaaaafaaaafaaaafaaaafaaaafaaaafaaaafaaaafaaaafaaaafaaaafaaaafaaaafaaaafaaaafaaaafaaaafaaaafaaaafaaaafaaaafaaaafaaaafaaaafaaaafaaaafaaaafaaaafaaaafaaaafaaaafaaaafaaaafaaaafaaaafaaaafaaaafaaaafaaaafaaaafaaaafaaaafaaaafaaaafaaaafaaaafaaaafaaaafaaaafaaaafaaaafaaaafaaaafaaaafaaaafaaaafaaaafaaaafaaaafaaaafaaaafaaaafaaaafaaaafaaaafaaaafaaaafaaaafaaaafaaaafaaaafaaaafaaaafaaaafaaaafaaaafaaaafaaaafaaaafaaaafaaaafaaaafaaaafaaaafaaaafaaaafaaaafaaaafaaaafaaaafaaaafaaaafaaaafaaaafaaaafaaaafaaaafaaaafaaaafaaaafaaaafaaaafaaaafaaaafaaaafaaaafaaaafaaaafaaaafaaaafaaaafaaaafaaaafaaaafaaaafaaaafaaaafaaaafaaaafaaaafaaaafaaaafaaaafaaaafaaaafaaaafaaaafaaaafaaaafaaaafaaaafaaaafaaaafaaaafaaaafaaaafaaaafaaaafaaaafaaaafaaaafaaaafaaaafaaaafaaaafaaaafaaaafaaaafaaaafaaaafaaaafaaaafaaaafaaaafaaaafaaaafaaaafaaaafaaaafaaaafaaaafaaaafaaaafaaaafaaaafaaaafaaaafaaaafaaaafaaaafaaaafaaaafaaaafaaaafaaaafaaaafaaaafaaaafaaaafaaaafaaaafaaaafaaaafaaaafaaaafaaaafaaaafaaaafaaaafaaaafaaaafaaaafaaaafaaaafaaaafaaaafaaaafaaaafaaaafaaaafaaaafaaaafaaaafaaaafaaaafaaaafaaaafaaaafaaaafaaaafaaaafaaaafaaaafaaaafaaaafaaaafaaaafaaaafaaaafaaaafaaaafaaaafaaaafaaaafaaaafaaaafaaaafaaaafaaaafaaaafaaaafaaaafaaaafaaaafaaaafaaaafaaaafaaaafaaaafaaaafaaaafaaaafaaaafaaaafaaaafaaaafaaaafaaaafaaaafaaaafaaaafaaaafaaaafaaaafaaaafaaaafaaaafaaaafaaaafaaaafaaaafaaaafaaaafaaaafaaaafaaaafaaaafaaaafaaaafaaaafaaaafaaaafaaaafaaaafaaaafaaaafaaaafaaaafaaaafaaaafaaaafaaaafaaaafaaaafaaaafaaaafaaaafaaaafaaaafaaaafaaaafaaaafaaaafaaaafaaaafaaaafaaaafaaaafaaaafaaaafaaaafaaaafaaaafaaaafaaaafaaaafaaaafaaaafaaaafaaaafaaaafaaaafaaaafaaaafaaaafaaaafaaaafaaaafaaaafaaaafaaaafaaaafaaaafaaaafaaaafaaaafaaaafaaaafaaaafaaaafaaaafaaaafaaaafaaaafaaaafaaaafaaaafaaaafaaaafaaaafaaaafaaaafaaaafaaaafaaaafaaaafaaaafaaaafaaaafaaaafaaaafaaaafaaaafaaaafaaaafaaaafaaaafaaaafaaaafaaaafaaaafaaaafaaaafaaaafaaaafaaaafaaaafaaaafaaaafaaaafaaaafaaaafaaaafaaaafaaaafaaaafaaaafaaaafaaaafaaaafaaaafaaaafaaaafaaaafaaaafaaaafaaaafaaaafaaaafaaaafaaaafaaaafaaaafaaaafaaaafaaaafaaaafaaaafaaaafaaaafaaaafaaaafaaaafaaaafaaaafaaaafaaaafaaaafaaaafaaaafaaaafaaaafaaaafaaaafaaaafaaaafaaaafaaaafaaaafaaaafaaaafaaaafaaaafaaaafaaaafaaaafaaaafaaaafaaaafaaaafaaaafaaaafaaaafaaaafaaaafaaaafaaaafaaaafaaaafaaaafaaaafaaaafaaaafaaaafaaaafaaaafaaaafaaaafaaaafaaaafaaaafaaaafaaaafaaaafaaaafaaaafaaaafaaaafaaaafaaaafaaaafaaaafaaaafaaaafaaaafaaaafaaaafaaaafaaaafaaaafaaaafaaaafaaaafaaaafaaaafaaaafaaaafaaaafaaaafaaaafaaaafaaaafaaaafaaaafaaaafaaaafaaaafaaaafaaaafaaaafaaaafaaaafaaaafaaaafaaaafaaaafaaaafaaaafaaaafaaaafaaaafaaaafaaaafaaaafaaaafaaaafaaaafaaaafaaaafaaaafaaaafaaaafaaaafaaaafaaaafaaaafaaaafaaaafaaaafaaaafaaaafaaaafaaaafaaaafaaaafaaaafaaaafaaaafaaaafaaaafaaaafaaaafaaaafaaaafaaaafaaaafaaaafaaaafaaaafaaaafaaaafaaaafaaaafaaaafaaaafaaaafaaaafaaaafaaaafaaaafaaaafaaaafaaaafaaaafaaaafaaaafaaaafaaaafaaaafaaaafaaaafaaaafaaaafaaaafaaaafaaaafaaaafaaaafaaaafaaaafaaaafaaaafaaaafaaaafaaaafaaaafaaaafaaaafaaaafaaaafaaaafaaaafaaaafaaaafaaaafaaaafaaaafaaaafaaaafaaaafaaaafaaaafaaaafaaaafaaaafaaaafaaaafaaaafaaaafaaaafaaaafaaaafaaaafaaaafaaaafaaaafaaaafaaaafaaaafaaaafaaaafaaaafaaaafaaaafaaaafaaaafaaaafaaaafaaaafaaaafaaaafaaaafaaaafaaaafaaaafaaaafaaaafaaaafaaaafaaaafaaaafaaaafaaaafaaaafaaaafaaaafaaaafaaaafaaaafaaaafaaaafaaaafaaaafaaaafaaaafaaaafaaaafaaaafaaaafaaaafaaaafaaaafaaaafaaaafaaaafaaaafaaaafaaaafaaaafaaaafaaaafaaaafaaaafaaaafaaaafaaaafaaaafaaaafaaaafaaaafaaaafaaaafaaaafaaaafaaaafaaaafaaaafaaaafaaaafaaaafaaaafaaaafaaaafaaaafaaaafaaaafaaaafaaaafaaaafaaaafaaaafaaaafaaaafaaaafaaaafaaaafaaaafaaaafaaaafaaaafaaaafaaaafaaaafaaaafaaaafaaaafaaaafaaaafaaaafaaaafaaaafaaaafaaaafaaaafaaaafaaaafaaaafaaaafaaaafaaaafaaaafaaaafaaaafaaaafaaaafaaaafaaaafaaaafaaaafaaaafaaaafaaaafaaaafaaaafaaaafaaaafaaaafaaaafaaaafaaaafaaaafaaaafaaaafaaaafaaaafaaaafaaaafaaaafaaaafaaaafaaaafaaaafaaaafaaaafaaaafaaaafaaaafaaaafaaaafaaaafaaaafaaaafaaaafaaaafaaaafaaaafaaaafaaaafaaaafaaaafaaaafaaaafaaaafaaaafaaaafaaaafaaaafaaaafaaaafaaaafaaaafaaaafaaaafaaaafaaaafaaaafaaaafaaaafaaaafaaaafaaaafaaaafaaaafaaaafaaaafaaaafaaaafaaaafaaaafaaaafaaaafaaaafaaaafaaaafaaaafaaaafaaaafaaaafaaaafaaaafaaaafaaaafaaaafaaaafaaaafaaaafaaaafaaaafaaaafaaaafaaaafaaaafaaaafaaaafaaaafaaaafaaaafaaaafaaaafaaaafaaaafaaaafaaaafaaaafaaaafaaaafaaaafaaaafaaaafaaaafaaaafaaaafaaaafaaaafaaaafaaaafaaaafaaaafaaaafaaaafaaaafaaaafaaaafaaaafaaaafaaaafaaaafaaaafaaaafaaaafaaaafaaaafaaaafaaaafaaaafaaaafaaaafaaaafaaaafaaaafaaaafaaaafaaaafaaaafaaaafaaaafaaaafaaaafaaaafaaaafaaaafaaaafaaaafaaaafaaaafaaaafaaaafaaaafaaaafaaaafaaaafaaaafaaaafaaaafaaaafaaaafaaaafaaaafaaaafaaaafaaaafaaaafaaaafaaaafaaaafaaaafaaaafaaaafaaaafaaaafaaaafaaaafaaaafaaaafaaaafaaaafaaaafaaaafaaaafaaaafaaaafaaaafaaaafaaaafaaaafaaaafaaaafaaaafaaaafaaaafaaaafaaaafaaaafaaaafaaaafaaaafaaaafaaaafaaaafaaaafaaaafaaaafaaaafaaaafaaaafaaaafaaaafaaaafaaaafaaaafaaaafaaaafaaaafaaaafaaaafaaaafaaaafaaaafaaaafaaaafaaaafaaaafaaaafaaaafaaaafaaaafaaaafaaaafaaaafaaaafaaaafaaaafaaaafaaaafaaaafaaaafaaaafaaaafaaaafaaaafaaaafaaaafaaaafaaaafaaaafaaaafaaaafaaaafaaaafaaaafaaaafaaaafaaaafaaaafaaaafaaaafaaaafaaaafaaaafaaaafaaaafaaaafaaaafaaaafaaaafaaaafaaaafaaaafaaaafaaaafaaaafaaaafaaaafaaaafaaaafaaaafaaaafaaaafaaaafaaaafaaaafaaaafaaaafaaaafaaaafaaaafaaaafaaaafaaaafaaaafaaaafaaaafaaaafaaaafaaaafaaaafaaaafaaaafaaaafaaaafaaaafaaaafaaaafaaaafaaaafaaaafaaaafaaaafaaaafaaaafaaaafaaaafaaaafaaaafaaaafaaaafaaaafaaaafaaaafaaaafaaaafaaaafaaaafaaaafaaaafaaaafaaaafaaaafaaaafaaaafaaaafaaaafaaaafaaaafaaaafaaaafaaaafaaaafaaaafaaaafaaaafaaaafaaaafaaaafaaaafaaaafaaaafaaaafaaaafaaaafaaaafaaaafaaaafaaaafaaaafaaaafaaaafaaaafaaaafaaaafaaaafaaaafaaaafaaaafaaaafaaaafaaaafaaaafaaaafaaaafaaaafaaaafaaaafaaaafaaaafaaaafaaaafaaaafaaaafaaaafaaaafaaaafaaaafaaaafaaaafaaaafaaaafaaaafaaaafaaaafaaaafaaaafaaaafaaaafaaaafaaaafaaaafaaaafaaaafaaaafaaaafaaaafaaaafaaaafaaaafaaaafaaaafaaaafaaaafaaaafaaaafaaaafaaaafaaaafaaaafaaaafaaaafaaaafaaaafaaaafaaaafaaaafaaaafaaaafaaaafaaaafaaaafaaaafaaaafaaaafaaaafaaaafaaaafaaaafaaaafaaaafaaaafaaaafaaaafaaaafaaaafaaaafaaaafaaaafaaaafaaaafaaaafaaaafaaaafaaaafaaaafaaaafaaaafaaaafaaaafaaaafaaaafaaaafaaaafaaaafaaaafaaaafaaaafaaaafaaaafaaaafaaaafaaaafaaaafaaaafaaaafaaaafaaaafaaaafaaaafaaaafaaaafaaaafaaaafaaaafaaaafaaaafaaaafaaaafaaaafaaaafaaaafaaaafaaaafaaaafaaaafaaaafaaaafaaaafaaaafaaaafaaaafaaaafaaaafaaaafaaaafaaaafaaaafaaaafaaaafaaaafaaaafaaaafaaaafaaaafaaaafaaaafaaaafaaaafaaaafaaaafaaaafaaaafaaaafaaaafaaaafaaaafaaaafaaaafaaaafaaaafaaaafaaaafaaaafaaaafaaaafaaaafaaaafaaaafaaaafaaaafaaaafaaaafaaaafaaaafaaaafaaaafaaaafaaaafaaaafaaaafaaaafaaaafaaaafaaaafaaaafaaaafaaaafaaaafaaaafaaaafaaaafaaaafaaaafaaaafaaaafaaaafaaaafaaaafaaaafaaaafaaaafaaaafaaaafaaaafaaaafaaaafaaaafaaaafaaaafaaaafaaaafaaaafaaaafaaaafaaaafaaaafaaaafaaaafaaaafaaaafaaaafaaaafaaaafaaaafaaaafaaaafaaaafaaaafaaaafaaaafaaaafaaaafaaaafaaaafaaaafaaaafaaaafaaaafaaaafaaaafaaaafaaaafaaaafaaaafaaaafaaaafaaaafaaaafaaaafaaaafaaaafaaaafaaaafaaaafaaaafaaaafaaaafaaaafaaaafaaaafaaaafaaaafaaaafaaaafaaaafaaaafaaaafaaaafaaaafaaaafaaaafaaaafaaaafaaaafaaaafaaaafaaaafaaaafaaaafaaaafaaaafaaaafaaaafaaaafaaaafaaaafaaaafaaaafaaaafaaaafaaaafaaaafaaaafaaaafaaaafaaaafaaaafaaaafaaaafaaaafaaaafaaaafaaaafaaaafaaaafaaaafaaaafaaaafaaaafaaaafaaaafaaaafaaaafaaaafaaaafaaaafaaaafaaaafaaaafaaaafaaaafaaaafaaaafaaaafaaaafaaaafaaaafaaaafaaaafaaaafaaaafaaaafaaaafaaaafaaaafaaaafaaaafaaaafaaaafaaaafaaaafaaaafaaaafaaaafaaaafaaaafaaaafaaaafaaaafaaaafaaaafaaaafaaaafaaaafaaaafaaaafaaaafaaaafaaaafaaaafaaaafaaaafaaaafaaaafaaaafaaaafaaaafaaaafaaaafaaaafaaaafaaaafaaaafaaaafaaaafaaaafaaaafaaaafaaaafaaaafaaaafaaaafaaaafaaaafaaaafaaaafaaaafaaaafaaaafaaaafaaaafaaaafaaaafaaaafaaaafaaaafaaaafaaaafaaaafaaaafaaaafaaaafaaaafaaaafaaaafaaaafaaaafaaaafaaaafaaaafaaaafaaaafaaaafaaaafaaaafaaaafaaaafaaaafaaaafaaaafaaaafaaaafaaaafaaaafaaaafaaaafaaaafaaaafaaaafaaaafaaaafaaaafaaaafaaaafaaaafaaaafaaaafaaaafaaaafaaaafaaaafaaaafaaaafaaaafaaaafaaaafaaaafaaaafaaaafaaaafaaaafaaaafaaaafaaaafaaaafaaaafaaaafaaaafaaaafaaaafaaaafaaaafaaaafaaaafaaaafaaaafaaaafaaaafaaaafaaaafaaaafaaaafaaaafaaaafaaaafaaaafaaaafaaaafaaaafaaaafaaaafaaaafaaaafaaaafaaaafaaaafaaaafaaaafaaaafaaaafaaaafaaaafaaaafaaaafaaaafaaaafaaaafaaaafaaaafaaaafaaaafaaaafaaaafaaaafaaaafaaaafaaaafaaaafaaaafaaaafaaaafaaaafaaaafaaaafaaaafaaaafaaaafaaaafaaaafaaaafaaaafaaaafaaaafaaaafaaaafaaaafaaaafaaaafaaaafaaaafaaaafaaaafaaaafaaaafaaaafaaaafaaaafaaaafaaaafaaaafaaaafaaaafaaaafaaaafaaaafaaaafaaaafaaaafaaaafaaaafaaaafaaaafaaaafaaaafaaaafaaaafaaaafaaaafaaaafaaaafaaaafaaaafaaaafaaaafaaaafaaaafaaaafaaaafaaaafaaaafaaaafaaaafaaaafaaaafaaaafaaaafaaaafaaaafaaaafaaaafaaaafaaaafaaaafaaaafaaaafaaaafaaaafaaaafaaaafaaaafaaaafaaaafaaaafaaaafaaaafaaaafaaaafaaaafaaaafaaaafaaaafaaaafaaaafaaaafaaaafaaaafaaaafaaaafaaaafaaaafaaaafaaaafaaaafaaaafaaaafaaaafaaaafaaaafaaaafaaaafaaaafaaaafaaaafaaaafaaaafaaaafaaaafaaaafaaaafaaaafaaaafaaaafaaaafaaaafaaaafaaaafaaaafaaaafaaaafaaaafaaaafaaaafaaaafaaaafaaaafaaaafaaaafaaaafaaaafaaaafaaaafaaaafaaaafaaaafaaaafaaaafaaaafaaaafaaaafaaaafaaaafaaaafaaaafaaaafaaaafaaaafaaaafaaaafaaaafaaaafaaaafaaaafaaaafaaaafaaaafaaaafaaaafaaaafaaaafaaaafaaaafaaaafaaaafaaaafaaaafaaaafaaaafaaaafaaaafaaaafaaaafaaaafaaaafaaaafaaaafaaaafaaaafaaaafaaaafaaaafaaaafaaaafaaaafaaaafaaaafaaaafaaaafaaaafaaaafaaaafaaaafaaaafaaaafaaaafaaaafaaaafaaaafaaaafaaaafaaaafaaaafaaaafaaaafaaaafaaaafaaaafaaaafaaaafaaaafaaaafaaaafaaaafaaaafaaaafaaaafaaaafaaaafaaaafaaaafaaaafaaaafaaaafaaaafaaaafaaaafaaaafaaaafaaaafaaaafaaaafaaaafaaaafaaaafaaaafaaaafaaaafaaaafaaaafaaaafaaaafaaaafaaaafaaaafaaaafaaaafaaaafaaaafaaaafaaaafaaaafaaaafaaaafaaaafaaaafaaaafaaaafaaaafaaaafaaaafaaaafaaaafaaaafaaaafaaaafaaaafaaaafaaaafaaaafaaaafaaaafaaaafaaaafaaaafaaaafaaaafaaaafaaaafaaaafaaaafaaaafaaaafaaaafaaaafaaaafaaaafaaaafaaaafaaaafaaaafaaaafaaaafaaaafaaaafaaaafaaaafaaaafaaaafaaaafaaaafaaaafaaaafaaaafaaaafaaaafaaaafaaaafaaaafaaaafaaaafaaaafaaaafaaaafaaaafaaaafaaaafaaaafaaaafaaaafaaaafaaaafaaaafaaaafaaaafaaaafaaaafaaaafaaaafaaaafaaaafaaaafaaaafaaaafaaaafaaaafaaaafaaaafaaaafaaaafaaaafaaaafaaaafaaaafaaaafaaaafaaaafaaaafaaaafaaaafaaaafaaaafaaaafaaaafaaaafaaaafaaaafaaaafaaaafaaaafaaaafaaaafaaaafaaaafaaaafaaaafaaaafaaaafaaaafaaaafaaaafaaaafaaaafaaaafaaaafaaaafaaaafaaaafaaaafaaaafaaaafaaaafaaaafaaaafaaaafaaaafaaaafaaaafaaaafaaaafaaaafaaaafaaaafaaaafaaaafaaaafaaaafaaaafaaaafaaaafaaaafaaaafaaaafaaaafaaaafaaaafaaaafaaaafaaaafaaaafaaaafaaaafaaaafaaaafaaaafaaaafaaaafaaaafaaaafaaaafaaaafaaaafaaaafaaaafaaaafaaaafaaaafaaaafaaaafaaaafaaaafaaaafaaaafaaaafaaaafaaaafaaaafaaaafaaaafaaaafaaaafaaaafaaaafaaaafaaaafaaaafaaaafaaaafaaaafaaaafaaaafaaaafaaaafaaaafaaaafaaaafaaaafaaaafaaaafaaaafaaaafaaaafaaaafaaaafaaaafaaaafaaaafaaaafaaaafaaaafaaaafaaaafaaaafaaaafaaaafaaaafaaaafaaaafaaaafaaaafaaaafaaaafaaaafaaaafaaaafaaaafaaaafaaaafaaaafaaaafaaaafaaaafaaaafaaaafaaaafaaaafaaaafaaaafaaaafaaaafaaaafaaaafaaaafaaaafaaaafaaaafaaaafaaaafaaaafaaaafaaaafaaaafaaaafaaaafaaaafaaaafaaaafaaaafaaaafaaaafaaaafaaaafaaaafaaaafaaaafaaaafaaaafaaaafaaaafaaaafaaaafaaaafaaaafaaaafaaaafaaaafaaaafaaaafaaaafaaaafaaaafaaaafaaaafaaaafaaaafaaaafaaaafaaaafaaaafaaaafaaaafaaaafaaaafaaaafaaaafaaaafaaaafaaaafaaaafaaaafaaaafaaaafaaaafaaaafaaaafaaaafaaaafaaaafaaaafaaaafaaaafaaaafaaaafaaaafaaaafaaaafaaaafaaaafaaaafaaaafaaaafaaaafaaaafaaaafaaaafaaaafaaaafaaaafaaaafaaaafaaaafaaaafaaaafaaaafaaaafaaaafaaaafaaaafaaaafaaaafaaaafaaaafaaaafaaaafaaaafaaaafaaaafaaaafaaaafaaaafaaaafaaaafaaaafaaaafaaaafaaaafaaaafaaaafaaaafaaaafaaaafaaaafaaaafaaaafaaaafaaaafaaaafaaaafaaaafaaaafaaaafaaaafaaaafaaaafaaaafaaaafaaaafaaaafaaaafaaaafaaaafaaaafaaaafaaaafaaaafaaaafaaaafaaaafaaaafaaaafaaaafaaaafaaaafaaaafaaaafaaaafaaaafaaaafaaaafaaaafaaaafaaaafaaaafaaaafaaaafaaaafaaaafaaaafaaaafaaaafaaaafaaaafaaaafaaaafaaaafaaaafaaaafaaaafaaaafaaaafaaaafaaaafaaaafaaaafaaaafaaaafaaaafaaaafaaaafaaaafaaaafaaaafaaaafaaaafaaaafaaaafaaaafaaaafaaaafaaaafaaaafaaaafaaaafaaaafaaaafaaaafaaaafaaaafaaaafaaaafaaaafaaaafaaaafaaaafaaaafaaaafaaaafaaaafaaaafaaaafaaaafaaaafaaaafaaaafaaaafaaaafaaaafaaaafaaaafaaaafaaaafaaaafaaaafaaaafaaaafaaaafaaaafaaaafaaaafaaaafaaaafaaaafaaaafaaaafaaaafaaaafaaaafaaaafaaaafaaaafaaaafaaaafaaaafaaaafaaaafaaaafaaaafaaaafaaaafaaaafaaaafaaaafaaaafaaaafaaaafaaaafaaaafaaaafaaaafaaaafaaaafaaaafaaaafaaaafaaaafaaaafaaaafaaaafaaaafaaaafaaaafaaaafaaaafaaaafaaaafaaaafaaaafaaaafaaaafaaaafaaaafaaaafaaaafaaaafaaaafaaaafaaaafaaaafaaaafaaaafaaaafaaaafaaaafaaaafaaaafaaaafaaaafaaaafaaaafaaaafaaaafaaaafaaaafaaaafaaaafaaaafaaaafaaaafaaaafaaaafaaaafaaaafaaaafaaaafaaaafaaaafaaaafaaaafaaaafaaaafaaaafaaaafaaaafaaaafaaaafaaaafaaaafaaaafaaaafaaaafaaaafaaaafaaaafaaaafaaaafaaaafaaaafaaaafaaaafaaaafaaaafaaaafaaaafaaaafaaaafaaaafaaaafaaaafaaaafaaaafaaaafaaaafaaaafaaaafaaaafaaaafaaaafaaaafaaaafaaaafaaaafaaaafaaaafaaaafaaaafaaaafaaaafaaaafaaaafaaaafaaaafaaaafaaaafaaaafaaaafaaaafaaaafaaaafaaaafaaaafaaaafaaaafaaaafaaaafaaaafaaaafaaaafaaaafaaaafaaaafaaaafaaaafaaaafaaaafaaaafaaaafaaaafaaaafaaaafaaaafaaaafaaaafaaaafaaaafaaaafaaaafaaaafaaaafaaaafaaaafaaaafaaaafaaaafaaaafaaaafaaaafaaaafaaaafaaaafaaaafaaaafaaaafaaaafaaaafaaaafaaaafaaaafaaaafaaaafaaaafaaaafaaaafaaaafaaaafaaaafaaaafaaaafaaaafaaaafaaaafaaaafaaaafaaaafaaaafaaaafaaaafaaaafaaaafaaaafaaaafaaaafaaaafaaaafaaaafaaaafaaaafaaaafaaaafaaaafaaaafaaaafaaaafaaaafaaaafaaaafaaaafaaaafaaaafaaaafaaaafaaaafaaaafaaaafaaaafaaaafaaaafaaaafaaaafaaaafaaaafaaaafaaaafaaaafaaaafaaaafaaaafaaaafaaaafaaaafaaaafaaaafaaaafaaaafaaaafaaaafaaaafaaaafaaaafaaaafaaaafaaaafaaaafaaaafaaaafaaaafaaaafaaaafaaaafaaaafaaaafaaaafaaaafaaaafaaaafaaaafaaaafaaaafaaaafaaaafaaaafaaaafaaaafaaaafaaaafaaaafaaaafaaaafaaaafaaaafaaaafaaaafaaaafaaaafaaaafaaaafaaaafaaaafaaaafaaaafaaaafaaaafaaaafaaaafaaaafaaaafaaaafaaaafaaaafaaaafaaaafaaaafaaaafaaaafaaaafaaaafaaaafaaaafaaaafaaaafaaaafaaaafaaaafaaaafaaaafaaaafaaaafaaaafaaaafaaaafaaaafaaaafaaaafaaaafaaaafaaaafaaaafaaaafaaaafaaaafaaaafaaaafaaaafaaaafaaaafaaaafaaaafaaaafaaaafaaaafaaaafaaaafaaaafaaaafaaaafaaaafaaaafaaaafaaaafaaaafaaaafaaaafaaaafaaaafaaaafaaaafaaaafaaaafaaaafaaaafaaaafaaaafaaaafaaaafaaaafaaaafaaaafaaaafaaaafaaaafaaaafaaaafaaaafaaaafaaaafaaaafaaaafaaaafaaaafaaaafaaaafaaaafaaaafaaaafaaaafaaaafaaaafaaaafaaaafaaaafaaaafaaaafaaaafaaaafaaaafaaaafaaaafaaaafaaaafaaaafaaaafaaaafaaaafaaaafaaaafaaaafaaaafaaaafaaaafaaaafaaaafaaaafaaaafaaaafaaaafaaaafaaaafaaaafaaaafaaaafaaaafaaaafaaaafaaaafaaaafaaaafaaaafaaaafaaaafaaaafaaaafaaaafaaaafaaaafaaaafaaaafaaaafaaaafaaaafaaaafaaaafaaaafaaaafaaaafaaaafaaaafaaaafaaaafaaaafaaaafaaaafaaaafaaaafaaaafaaaafaaaafaaaafaaaafaaaafaaaafaaaafaaaafaaaafaaaafaaaafaaaafaaaafaaaafaaaafaaaafaaaafaaaafaaaafaaaafaaaafaaaafaaaafaaaafaaaafaaaafaaaafaaaafaaaafaaaafaaaafaaaafaaaafaaaafaaaafaaaafaaaafaaaafaaaafaaaafaaaafaaaafaaaafaaaafaaaafaaaafaaaafaaaafaaaafaaaafaaaafaaaafaaaafaaaafaaaafaaaafaaaafaaaafaaaafaaaafaaaafaaaafaaaafaaaafaaaafaaaafaaaafaaaafaaaafaaaafaaaafaaaafaaaafaaaafaaaafaaaafaaaafaaaafaaaafaaaafaaaafaaaafaaaafaaaafaaaafaaaafaaaafaaaafaaaafaaaafaaaafaaaafaaaafaaaafaaaafaaaafaaaafaaaafaaaafaaaafaaaafaaaafaaaafaaaafaaaafaaaafaaaafaaaafaaaafaaaafaaaafaaaafaaaafaaaafaaaafaaaafaaaafaaaafaaaafaaaafaaaafaaaafaaaafaaaafaaaafaaaafaaaafaaaafaaaafaaaafaaaafaaaafaaaafaaaafaaaafaaaafaaaafaaaafaaaafaaaafaaaafaaaafaaaafaaaafaaaafaaaafaaaafaaaafaaaafaaaafaaaafaaaafaaaafaaaafaaaafaaaafaaaafaaaafaaaafaaaafaaaafaaaafaaaafaaaafaaaafaaaafaaaafaaaafaaaafaaaafaaaafaaaafaaaafaaaafaaaafaaaafaaaafaaaafaaaafaaaafaaaafaaaafaaaafaaaafaaaafaaaafaaaafaaaafaaaafaaaafaaaafaaaafaaaafaaaafaaaafaaaafaaaafaaaafaaaafaaaafaaaafaaaafaaaafaaaafaaaafaaaafaaaafaaaafaaaafaaaafaaaafaaaafaaaafaaaafaaaafaaaafaaaafaaaafaaaafaaaafaaaafaaaafaaaafaaaafaaaafaaaafaaaafaaaafaaaafaaaafaaaafaaaafaaaafaaaafaaaafaaaafaaaafaaaafaaaafaaaafaaaafaaaafaaaafaaaafaaaafaaaafaaaafaaaafaaaafaaaafaaaafaaaafaaaafaaaafaaaafaaaafaaaafaaaafaaaafaaaafaaaafaaaafaaaafaaaafaaaafaaaafaaaafaaaafaaaafaaaafaaaafaaaafaaaafaaaafaaaafaaaafaaaafaaaafaaaafaaaafaaaafaaaafaaaafaaaafaaaafaaaafaaaafaaaafaaaafaaaafaaaafaaaafaaaafaaaafaaaafaaaafaaaafaaaafaaaafaaaafaaaafaaaafaaaafaaaafaaaafaaaafaaaafaaaafaaaafaaaafaaaafaaaafaaaafaaaafaaaafaaaafaaaafaaaafaaaafaaaafaaaafaaaafaaaafaaaafaaaafaaaafaaaafaaaafaaaafaaaafaaaafaaaafaaaafaaaafaaaafaaaafaaaafaaaafaaaafaaaafaaaafaaaafaaaafaaaafaaaafaaaafaaaafaaaafaaaafaaaafaaaafaaaafaaaafaaaafaaaafaaaafaaaafaaaafaaaafaaaafaaaafaaaafaaaafaaaafaaaafaaaafaaaafaaaafaaaafaaaafaaaafaaaafaaaafaaaafaaaafaaaafaaaafaaaafaaaafaaaafaaaafaaaafaaaafaaaafaaaafaaaafaaaafaaaafaaaafaaaafaaaafaaaafaaaafaaaafaaaafaaaafaaaafaaaafaaaafaaaafaaaafaaaafaaaafaaaafaaaafaaaafaaaafaaaafaaaafaaaafaaaafaaaafaaaafaaaafaaaafaaaafaaaafaaaafaaaafaaaafaaaafaaaafaaaafaaaafaaaafaaaafaaaafaaaafaaaafaaaafaaaafaaaafaaaafaaaafaaaafaaaafaaaafaaaafaaaafaaaafaaaafaaaafaaaafaaaafaaaafaaaafaaaafaaaafaaaafaaaafaaaafaaaafaaaafaaaafaaaafaaaafaaaafaaaafaaaafaaaafaaaafaaaafaaaafaaaafaaaafaaaafaaaafaaaafaaaafaaaafaaaafaaaafaaaafaaaafaaaafaaaafaaaafaaaafaaaafaaaafaaaafaaaafaaaafaaaafaaaafaaaafaaaafaaaafaaaafaaaafaaaafaaaafaaaafaaaafaaaafaaaafaaaafaaaafaaaafaaaafaaaafaaaafaaaafaaaafaaaafaaaafaaaafaaaafaaaafaaaafaaaafaaaafaaaafaaaafaaaafaaaafaaaafaaaafaaaafaaaafaaaafaaaafaaaafaaaafaaaafaaaafaaaafaaaafaaaafaaaafaaaafaaaafaaaafaaaafaaaafaaaafaaaafaaaafaaaafaaaafaaaafaaaafaaaafaaaafaaaafaaaafaaaafaaaafaaaafaaaafaaaafaaaafaaaafaaaafaaaafaaaafaaaafaaaafaaaafaaaafaaaafaaaafaaaafaaaafaaaafaaaafaaaafaaaafaaaafaaaafaaaafaaaafaaaafaaaafaaaafaaaafaaaafaaaafaaaafaaaafaaaafaaaafaaaafaaaafaaaafaaaafaaaafaaaafaaaafaaaafaaaafaaaafaaaafaaaafaaaafaaaafaaaafaaaafaaaafaaaafaaaafaaaafaaaafaaaafaaaafaaaafaaaafaaaafaaaafaaaafaaaafaaaafaaaafaaaafaaaafaaaafaaaafaaaafaaaafaaaafaaaafaaaafaaaafaaaafaaaafaaaafaaaafaaaafaaaafaaaafaaaafaaaafaaaafaaaafaaaafaaaafaaaafaaaafaaaafaaaafaaaafaaaafaaaafaaaafaaaafaaaafaaaafaaaafaaaafaaaafaaaafaaaafaaaafaaaafaaaafaaaafaaaafaaaafaaaafaaaafaaaafaaaafaaaafaaaafaaaafaaaafaaaafaaaafaaaafaaaafaaaafaaaafaaaafaaaafaaaafaaaafaaaafaaaafaaaafaaaafaaaafaaaafaaaafaaaafaaaafaaaafaaaafaaaafaaaafaaaafaaaafaaaafaaaafaaaafaaaafaaaafaaaafaaaafaaaafaaaafaaaafaaaafaaaafaaaafaaaafaaaafaaaafaaaafaaaafaaaafaaaafaaaafaaaafaaaafaaaafaaaafaaaafaaaafaaaafaaaafaaaafaaaafaaaafaaaafaaaafaaaafaaaafaaaafaaaafaaaafaaaafaaaafaaaafaaaafaaaafaaaafaaaafaaaafaaaafaaaafaaaafaaaafaaaafaaaafaaaafaaaafaaaafaaaafaaaafaaaafaaaafaaaafaaaafaaaafaaaafaaaafaaaafaaaafaaaafaaaafaaaafaaaafaaaafaaaafaaaafaaaafaaaafaaaafaaaafaaaafaaaafaaaafaaaafaaaafaaaafaaaafaaaafaaaafaaaafaaaafaaaafaaaafaaaafaaaafaaaafaaaafaaaafaaaafaaaafaaaafaaaafaaaafaaaafaaaafaaaafaaaafaaaafaaaafaaaafaaaafaaaafaaaafaaaafaaaafaaaafaaaafaaaafaaaafaaaafaaaafaaaafaaaafaaaafaaaafaaaafaaaafaaaafaaaafaaaafaaaafaaaafaaaafaaaafaaaafaaaafaaaafaaaafaaaafaaaafaaaafaaaafaaaafaaaafaaaafaaaafaaaafaaaafaaaafaaaafaaaafaaaafaaaafaaaafaaaafaaaafaaaafaaaafaaaafaaaafaaaafaaaafaaaafaaaafaaaafaaaafaaaafaaaafaaaafaaaafaaaafaaaafaaaafaaaafaaaafaaaafaaaafaaaafaaaafaaaafaaaafaaaafaaaafaaaafaaaafaaaafaaaafaaaafaaaafaaaafaaaafaaaafaaaafaaaafaaaafaaaafaaaafaaaafaaaafaaaafaaaafaaaafaaaafaaaafaaaafaaaafaaaafaaaafaaaafaaaafaaaafaaaafaaaafaaaafaaaafaaaafaaaafaaaafaaaafaaaafaaaafaaaafaaaafaaaafaaaafaaaafaaaafaaaafaaaafaaaafaaaafaaaafaaaafaaaafaaaafaaaafaaaafaaaafaaaafaaaafaaaafaaaafaaaafaaaafaaaafaaaafaaaafaaaafaaaafaaaafaaaafaaaafaaaafaaaafaaaafaaaafaaaafaaaafaaaafaaaafaaaafaaaafaaaafaaaafaaaafaaaafaaaafaaaafaaaafaaaafaaaafaaaafaaaafaaaafaaaafaaaafaaaafaaaafaaaafaaaafaaaafaaaafaaaafaaaafaaaafaaaafaaaafaaaafaaaafaaaafaaaafaaaafaaaafaaaafaaaafaaaafaaaafaaaafaaaafaaaafaaaafaaaafaaaafaaaafaaaafaaaafaaaafaaaafaaaafaaaafaaaafaaaafaaaafaaaafaaaafaaaafaaaafaaaafaaaafaaaafaaaafaaaafaaaafaaaafaaaafaaaafaaaafaaaafaaaafaaaafaaaafaaaafaaaafaaaafaaaafaaaafaaaafaaaafaaaafaaaafaaaafaaaafaaaafaaaafaaaafaaaafaaaafaaaafaaaafaaaafaaaafaaaafaaaafaaaafaaaafaaaafaaaafaaaafaaaafaaaafaaaafaaaafaaaafaaaafaaaafaaaafaaaafaaaafaaaafaaaafaaaafaaaafaaaafaaaafaaaafaaaafaaaafaaaafaaaafaaaafaaaafaaaafaaaafaaaafaaaafaaaafaaaafaaaafaaaafaaaafaaaafaaaafaaaafaaaafaaaafaaaafaaaafaaaafaaaafaaaafaaaafaaaafaaaafaaaafaaaafaaaafaaaafaaaafaaaafaaaafaaaafaaaafaaaafaaaafaaaafaaaafaaaafaaaafaaaafaaaafaaaafaaaafaaaafaaaafaaaafaaaafaaaafaaaafaaaafaaaafaaaafaaaafaaaafaaaafaaaafaaaafaaaafaaaafaaaafaaaafaaaafaaaafaaaafaaaafaaaafaaaafaaaafaaaafaaaafaaaafaaaafaaaafaaaafaaaafaaaafaaaafaaaafaaaafaaaafaaaafaaaafaaaafaaaafaaaafaaaafaaaafaaaafaaaafaaaafaaaafaaaafaaaafaaaafaaaafaaaafaaaafaaaafaaaafaaaafaaaafaaaafaaaafaaaafaaaafaaaafaaaafaaaafaaaafaaaafaaaafaaaafaaaafaaaafaaaafaaaafaaaafaaaafaaaafaaaafaaaafaaaafaaaafaaaafaaaafaaaafaaaafaaaafaaaafaaaafaaaafaaaafaaaafaaaafaaaafaaaafaaaafaaaafaaaafaaaafaaaafaaaafaaaafaaaafaaaafaaaafaaaafaaaafaaaafaaaafaaaafaaaafaaaafaaaafaaaafaaaafaaaafaaaafaaaafaaaafaaaafaaaafaaaafaaaafaaaafaaaafaaaafaaaafaaaafaaaafaaaafaaaafaaaafaaaafaaaafaaaafaaaafaaaafaaaafaaaafaaaafaaaafaaaafaaaafaaaafaaaafaaaafaaaafaaaafaaaafaaaafaaaafaaaafaaaafaaaafaaaafaaaafaaaafaaaafaaaafaaaafaaaafaaaafaaaafaaaafaaaafaaaafaaaafaaaafaaaafaaaafaaaafaaaafaaaafaaaafaaaafaaaafaaaafaaaafaaaafaaaafaaaafaaaafaaaafaaaafaaaafaaaafaaaafaaaafaaaafaaaafaaaafaaaafaaaafaaaafaaaafaaaafaaaafaaaafaaaafaaaafaaaafaaaafaaaafaaaafaaaafaaaafaaaafaaaafaaaafaaaafaaaafaaaafaaaafaaaafaaaafaaaafaaaafaaaafaaaafaaaafaaaafaaaafaaaafaaaafaaaafaaaafaaaafaaaafaaaafaaaafaaaafaaaafaaaafaaaafaaaafaaaafaaaafaaaafaaaafaaaafaaaafaaaafaaaafaaaafaaaafaaaafaaaafaaaafaaaafaaaafaaaafaaaafaaaafaaaafaaaafaaaafaaaafaaaafaaaafaaaafaaaafaaaafaaaafaaaafaaaafaaaafaaaafaaaafaaaafaaaafaaaafaaaafaaaafaaaafaaaafaaaafaaaafaaaafaaaafaaaafaaaafaaaafaaaafaaaafaaaafaaaafaaaafaaaafaaaafaaaafaaaafaaaafaaaafaaaafaaaafaaaafaaaafaaaafaaaafaaaafaaaafaaaafaaaafaaaafaaaafaaaafaaaafaaaafaaaafaaaafaaaafaaaafaaaafaaaafaaaafaaaafaaaafaaaafaaaafaaaafaaaafaaaafaaaafaaaafaaaafaaaafaaaafaaaafaaaafaaaafaaaafaaaafaaaafaaaafaaaafaaaafaaaafaaaafaaaafaaaafaaaafaaaafaaaafaaaafaaaafaaaafaaaafaaaafaaaafaaaafaaaafaaaafaaaafaaaafaaaafaaaafaaaafaaaafaaaafaaaafaaaafaaaafaaaafaaaafaaaafaaaafaaaafaaaafaaaafaaaafaaaafaaaafaaaafaaaafaaaafaaaafaaaafaaaafaaaafaaaafaaaafaaaafaaaafaaaafaaaafaaaafaaaafaaaafaaaafaaaafaaaafaaaafaaaafaaaafaaaafaaaafaaaafaaaafaaaafaaaafaaaafaaaafaaaafaaaafaaaafaaaafaaaafaaaafaaaafaaaafaaaafaaaafaaaafaaaafaaaafaaaafaaaafaaaafaaaafaaaafaaaafaaaafaaaafaaaafaaaafaaaafaaaafaaaafaaaafaaaafaaaafaaaafaaaafaaaafaaaafaaaafaaaafaaaafaaaafaaaafaaaafaaaafaaaafaaaafaaaafaaaafaaaafaaaafaaaafaaaafaaaafaaaafaaaafaaaafaaaafaaaafaaaafaaaafaaaafaaaafaaaafaaaafaaaafaaaafaaaafaaaafaaaafaaaafaaaafaaaafaaaafaaaafaaaafaaaafaaaafaaaafaaaafaaaafaaaafaaaafaaaafaaaafaaaafaaaafaaaafaaaafaaaafaaaafaaaafaaaafaaaafaaaafaaaafaaaafaaaafaaaafaaaafaaaafaaaafaaaafaaaafaaaafaaaafaaaafaaaafaaaafaaaafaaaafaaaafaaaafaaaafaaaafaaaafaaaafaaaafaaaafaaaafaaaafaaaafaaaafaaaafaaaafaaaafaaaafaaaafaaaafaaaafaaaafaaaafaaaafaaaafaaaafaaaafaaaafaaaafaaaafaaaafaaaafaaaafaaaafaaaafaaaafaaaafaaaafaaaafaaaafaaaafaaaafaaaafaaaafaaaafaaaafaaaafaaaafaaaafaaaafaaaafaaaafaaaafaaaafaaaafaaaafaaaafaaaafaaaafaaaafaaaafaaaafaaaafaaaafaaaafaaaafaaaafaaaafaaaafaaaafaaaafaaaafaaaafaaaafaaaafaaaafaaaafaaaafaaaafaaaafaaaafaaaafaaaafaaaafaaaafaaaafaaaafaaaafaaaafaaaafaaaafaaaafaaaafaaaafaaaafaaaafaaaafaaaafaaaafaaaafaaaafaaaafaaaafaaaafaaaafaaaafaaaafaaaafaaaafaaaafaaaafaaaafaaaafaaaafaaaafaaaafaaaafaaaafaaaafaaaafaaaafaaaafaaaafaaaafaaaafaaaafaaaafaaaafaaaafaaaafaaaafaaaafaaaafaaaafaaaafaaaafaaaafaaaafaaaafaaaafaaaafaaaafaaaafaaaafaaaafaaaafaaaafaaaafaaaafaaaafaaaafaaaafaaaafaaaafaaaafaaaafaaaafaaaafaaaafaaaafaaaafaaaafaaaafaaaafaaaafaaaafaaaafaaaafaaaafaaaafaaaafaaaafaaaafaaaafaaaafaaaafaaaafaaaafaaaafaaaafaaaafaaaafaaaafaaaafaaaafaaaafaaaafaaaafaaaafaaaafaaaafaaaafaaaafaaaafaaaafaaaafaaaafaaaafaaaafaaaafaaaafaaaafaaaafaaaafaaaafaaaafaaaafaaaafaaaafaaaafaaaafaaaafaaaafaaaafaaaafaaaafaaaafaaaafaaaafaaaafaaaafaaaafaaaafaaaafaaaafaaaafaaaafaaaafaaaafaaaafaaaafaaaafaaaafaaaafaaaafaaaafaaaafaaaafaaaafaaaafaaaafaaaafaaaafaaaafaaaafaaaafaaaafaaaafaaaafaaaafaaaafaaaafaaaafaaaafaaaafaaaafaaaafaaaafaaaafaaaafaaaafaaaafaaaafaaaafaaaafaaaafaaaafaaaafaaaafaaaafaaaafaaaafaaaafaaaafaaaafaaaafaaaafaaaafaaaafaaaafaaaafaaaafaaaafaaaafaaaafaaaafaaaafaaaafaaaafaaaafaaaafaaaafaaaafaaaafaaaafaaaafaaaafaaaafaaaafaaaafaaaafaaaafaaaafaaaafaaaafaaaafaaaafaaaafaaaafaaaafaaaafaaaafaaaafaaaafaaaafaaaafaaaafaaaafaaaafaaaafaaaafaaaafaaaafaaaafaaaafaaaafaaaafaaaafaaaafaaaafaaaafaaaafaaaafaaaafaaaafaaaafaaaafaaaafaaaafaaaafaaaafaaaafaaaafaaaafaaaafaaaafaaaafaaaafaaaafaaaafaaaafaaaafaaaafaaaafaaaafaaaafaaaafaaaafaaaafaaaafaaaafaaaafaaaafaaaafaaaafaaaafaaaafaaaafaaaafaaaafaaaafaaaafaaaafaaaafaaaafaaaafaaaafaaaafaaaafaaaafaaaafaaaafaaaafaaaafaaaafaaaafaaaafaaaafaaaafaaaafaaaafaaaafaaaafaaaafaaaafaaaafaaaafaaaafaaaafaaaafaaaafaaaafaaaafaaaafaaaafaaaafaaaafaaaafaaaafaaaafaaaafaaaafaaaafaaaafaaaafaaaafaaaafaaaafaaaafaaaafaaaafaaaafaaaafaaaafaaaafaaaafaaaafaaaafaaaafaaaafaaaafaaaafaaaafaaaafaaaafaaaafaaaafaaaafaaaafaaaafaaaafaaaafaaaafaaaafaaaafaaaafaaaafaaaafaaaafaaaafaaaafaaaafaaaafaaaafaaaafaaaafaaaafaaaafaaaafaaaafaaaafaaaafaaaafaaaafaaaafaaaafaaaafaaaafaaaafaaaafaaaafaaaafaaaafaaaafaaaafaaaafaaaafaaaafaaaafaaaafaaaafaaaafaaaafaaaafaaaafaaaafaaaafaaaafaaaafaaaafaaaafaaaafaaaafaaaafaaaafaaaafaaaafaaaafaaaafaaaafaaaafaaaafaaaafaaaafaaaafaaaafaaaafaaaafaaaafaaaafaaaafaaaafaaaafaaaafaaaafaaaafaaaafaaaafaaaafaaaafaaaafaaaafaaaafaaaafaaaafaaaafaaaafaaaafaaaafaaaafaaaafaaaafaaaafaaaafaaaafaaaafaaaafaaaafaaaafaaaafaaaafaaaafaaaafaaaafaaaafaaaafaaaafaaaafaaaafaaaafaaaafaaaafaaaafaaaafaaaafaaaafaaaafaaaafaaaafaaaafaaaafaaaafaaaafaaaafaaaafaaaafaaaafaaaafaaaafaaaafaaaafaaaafaaaafaaaafaaaafaaaafaaaafaaaafaaaafaaaafaaaafaaaafaaaafaaaafaaaafaaaafaaaafaaaafaaaafaaaafaaaafaaaafaaaafaaaafaaaafaaaafaaaafaaaafaaaafaaaafaaaafaaaafaaaafaaaafaaaafaaaafaaaafaaaafaaaafaaaafaaaafaaaafaaaafaaaafaaaafaaaafaaaafaaaafaaaafaaaafaaaafaaaafaaaafaaaafaaaafaaaafaaaafaaaafaaaafaaaafaaaafaaaafaaaafaaaafaaaafaaaafaaaafaaaafaaaafaaaafaaaafaaaafaaaafaaaafaaaafaaaafaaaafaaaafaaaafaaaafaaaafaaaafaaaafaaaafaaaafaaaafaaaafaaaafaaaafaaaafaaaafaaaafaaaafaaaafaaaafaaaafaaaafaaaafaaaafaaaafaaaafaaaafaaaafaaaafaaaafaaaafaaaafaaaafaaaafaaaafaaaafaaaafaaaafaaaafaaaafaaaafaaaafaaaafaaaafaaaafaaaafaaaafaaaafaaaafaaaafaaaafaaaafaaaafaaaafaaaafaaaafaaaafaaaafaaaafaaaafaaaafaaaafaaaafaaaafaaaafaaaafaaaafaaaafaaaafaaaafaaaafaaaafaaaafaaaafaaaafaaaafaaaafaaaafaaaafaaaafaaaafaaaafaaaafaaaafaaaafaaaafaaaafaaaafaaaafaaaafaaaafaaaafaaaafaaaafaaaafaaaafaaaafaaaafaaaafaaaafaaaafaaaafaaaafaaaafaaaafaaaafaaaafaaaafaaaafaaaafaaaafaaaafaaaafaaaafaaaafaaaafaaaafaaaafaaaafaaaafaaaafaaaafaaaafaaaafaaaafaaaafaaaafaaaafaaaafaaaafaaaafaaaafaaaafaaaafaaaafaaaafaaaafaaaafaaaafaaaafaaaafaaaafaaaafaaaafaaaafaaaafaaaafaaaafaaaafaaaafaaaafaaaafaaaafaaaafaaaafaaaafaaaafaaaafaaaafaaaafaaaafaaaafaaaafaaaafaaaafaaaafaaaafaaaafaaaafaaaafaaaafaaaafaaaafaaaafaaaafaaaafaaaafaaaafaaaafaaaafaaaafaaaafaaaafaaaafaaaafaaaafaaaafaaaafaaaafaaaafaaaafaaaafaaaafaaaafaaaafaaaafaaaafaaaafaaaafaaaafaaaafaaaafaaaafaaaafaaaafaaaafaaaafaaaafaaaafaaaafaaaafaaaafaaaafaaaafaaaafaaaafaaaafaaaafaaaafaaaafaaaafaaaafaaaafaaaafaaaafaaaafaaaafaaaafaaaafaaaafaaaafaaaafaaaafaaaafaaaafaaaafaaaafaaaafaaaafaaaafaaaafaaaafaaaafaaaafaaaafaaaafaaaafaaaafaaaafaaaafaaaafaaaafaaaafaaaafaaaafaaaafaaaafaaaafaaaafaaaafaaaafaaaafaaaafaaaafaaaafaaaafaaaafaaaafaaaafaaaafaaaafaaaafaaaafaaaafaaaafaaaafaaaafaaaafaaaafaaaafaaaafaaaafaaaafaaaafaaaafaaaafaaaafaaaafaaaafaaaafaaaafaaaafaaaafaaaafaaaafaaaafaaaafaaaafaaaafaaaafaaaafaaaafaaaafaaaafaaaafaaaafaaaafaaaafaaaafaaaafaaaafaaaafaaaafaaaafaaaafaaaafaaaafaaaafaaaafaaaafaaaafaaaafaaaafaaaafaaaafaaaafaaaafaaaafaaaafaaaafaaaafaaaafaaaafaaaafaaaafaaaafaaaafaaaafaaaafaaaafaaaafaaaafaaaafaaaafaaaafaaaafaaaafaaaafaaaafaaaafaaaafaaaafaaaafaaaafaaaafaaaafaaaafaaaafaaaafaaaafaaaafaaaafaaaafaaaafaaaafaaaafaaaafaaaafaaaafaaaafaaaafaaaafaaaafaaaafaaaafaaaafaaaafaaaafaaaafaaaafaaaafaaaafaaaafaaaafaaaafaaaafaaaafaaaafaaaafaaaafaaaafaaaafaaaafaaaafaaaafaaaafaaaafaaaafaaaafaaaafaaaafaaaafaaaafaaaafaaaafaaaafaaaafaaaafaaaafaaaafaaaafaaaafaaaafaaaafaaaafaaaafaaaafaaaafaaaafaaaafaaaafaaaafaaaafaaaafaaaafaaaafaaaafaaaafaaaafaaaafaaaafaaaafaaaafaaaafaaaafaaaafaaaafaaaafaaaafaaaafaaaafaaaafaaaafaaaafaaaafaaaafaaaafaaaafaaaafaaaafaaaafaaaafaaaafaaaafaaaafaaaafaaaafaaaafaaaafaaaafaaaafaaaafaaaafaaaafaaaafaaaafaaaafaaaafaaaafaaaafaaaafaaaafaaaafaaaafaaaafaaaafaaaafaaaafaaaafaaaafaaaafaaaafaaaafaaaafaaaafaaaafaaaafaaaafaaaafaaaafaaaafaaaafaaaafaaaafaaaafaaaafaaaafaaaafaaaafaaaafaaaafaaaafaaaafaaaafaaaafaaaafaaaafaaaafaaaafaaaafaaaafaaaafaaaafaaaafaaaafaaaafaaaafaaaafaaaafaaaafaaaafaaaafaaaafaaaafaaaafaaaafaaaafaaaafaaaafaaaafaaaafaaaafaaaafaaaafaaaafaaaafaaaafaaaafaaaafaaaafaaaafaaaafaaaafaaaafaaaafaaaafaaaafaaaafaaaafaaaafaaaafaaaafaaaafaaaafaaaafaaaafaaaafaaaafaaaafaaaafaaaafaaaafaaaafaaaafaaaafaaaafaaaafaaaafaaaafaaaafaaaafaaaafaaaafaaaafaaaafaaaafaaaafaaaafaaaafaaaafaaaafaaaafaaaafaaaafaaaafaaaafaaaafaaaafaaaafaaaafaaaafaaaafaaaafaaaafaaaafaaaafaaaafaaaafaaaafaaaafaaaafaaaafaaaafaaaafaaaafaaaafaaaafaaaafaaaafaaaafaaaafaaaafaaaafaaaafaaaafaaaafaaaafaaaafaaaafaaaafaaaafaaaafaaaafaaaafaaaafaaaafaaaafaaaafaaaafaaaafaaaafaaaafaaaafaaaafaaaafaaaafaaaafaaaafaaaafaaaafaaaafaaaafaaaafaaaafaaaafaaaafaaaafaaaafaaaafaaaafaaaafaaaafaaaafaaaafaaaafaaaafaaaafaaaafaaaafaaaafaaaafaaaafaaaafaaaafaaaafaaaafaaaafaaaafaaaafaaaafaaaafaaaafaaaafaaaafaaaafaaaafaaaafaaaafaaaafaaaafaaaafaaaafaaaafaaaafaaaafaaaafaaaafaaaafaaaafaaaafaaaafaaaafaaaafaaaafaaaafaaaafaaaafaaaafaaaafaaaafaaaafaaaafaaaafaaaafaaaafaaaafaaaafaaaafaaaafaaaafaaaafaaaafaaaafaaaafaaaafaaaafaaaafaaaafaaaafaaaafaaaafaaaafaaaafaaaafaaaafaaaafaaaafaaaafaaaafaaaafaaaafaaaafaaaafaaaafaaaafaaaafaaaafaaaafaaaafaaaafaaaafaaaafaaaafaaaafaaaafaaaafaaaafaaaafaaaafaaaafaaaafaaaafaaaafaaaafaaaafaaaafaaaafaaaafaaaafaaaafaaaafaaaafaaaafaaaafaaaafaaaafaaaafaaaafaaaafaaaafaaaafaaaafaaaafaaaafaaaafaaaafaaaafaaaafaaaafaaaafaaaafaaaafaaaafaaaafaaaafaaaafaaaafaaaafaaaafaaaafaaaafaaaafaaaafaaaafaaaafaaaafaaaafaaaafaaaafaaaafaaaafaaaafaaaafaaaafaaaafaaaafaaaafaaaafaaaafaaaafaaaafaaaafaaaafaaaafaaaafaaaafaaaafaaaafaaaafaaaafaaaafaaaafaaaafaaaafaaaafaaaafaaaafaaaafaaaafaaaafaaaafaaaafaaaafaaaafaaaafaaaafaaaafaaaafaaaafaaaafaaaafaaaafaaaafaaaafaaaafaaaafaaaafaaaafaaaafaaaafaaaafaaaafaaaafaaaafaaaafaaaafaaaafaaaafaaaafaaaafaaaafaaaafaaaafaaaafaaaafaaaafaaaafaaaafaaaafaaaafaaaafaaaafaaaafaaaafaaaafaaaafaaaafaaaafaaaafaaaafaaaafaaaafaaaafaaaafaaaafaaaafaaaafaaaafaaaafaaaafaaaafaaaafaaaafaaaafaaaafaaaafaaaafaaaafaaaafaaaafaaaafaaaafaaaafaaaafaaaafaaaafaaaafaaaafaaaafaaaafaaaafaaaafaaaafaaaafaaaafaaaafaaaafaaaafaaaafaaaafaaaafaaaafaaaafaaaafaaaafaaaafaaaafaaaafaaaafaaaafaaaafaaaafaaaafaaaafaaaafaaaafaaaafaaaafaaaafaaaafaaaafaaaafaaaafaaaafaaaafaaaafaaaafaaaafaaaafaaaafaaaafaaaafaaaafaaaafaaaafaaaafaaaafaaaafaaaafaaaafaaaafaaaafaaaafaaaafaaaafaaaafaaaafaaaafaaaafaaaafaaaafaaaafaaaafaaaafaaaafaaaafaaaafaaaafaaaafaaaafaaaafaaaafaaaafaaaafaaaafaaaafaaaafaaaafaaaafaaaafaaaafaaaafaaaafaaaafaaaafaaaafaaaafaaaafaaaafaaaafaaaafaaaafaaaafaaaafaaaafaaaafaaaafaaaafaaaafaaaafaaaafaaaafaaaafaaaafaaaafaaaafaaaafaaaafaaaafaaaafaaaafaaaafaaaafaaaafaaaafaaaafaaaafaaaafaaaafaaaafaaaafaaaafaaaafaaaafaaaafaaaafaaaafaaaafaaaafaaaafaaaafaaaafaaaafaaaafaaaafaaaafaaaafaaaafaaaafaaaafaaaafaaaafaaaafaaaafaaaafaaaafaaaafaaaafaaaafaaaafaaaafaaaafaaaafaaaafaaaafaaaafaaaafaaaafaaaafaaaafaaaafaaaafaaaafaaaafaaaafaaaafaaaafaaaafaaaafaaaafaaaafaaaafaaaafaaaafaaaafaaaafaaaafaaaafaaaafaaaafaaaafaaaafaaaafaaaafaaaafaaaafaaaafaaaafaaaafaaaafaaaafaaaafaaaafaaaafaaaafaaaafaaaafaaaafaaaafaaaafaaaafaaaafaaaafaaaafaaaafaaaafaaaafaaaafaaaafaaaafaaaafaaaafaaaafaaaafaaaafaaaafaaaafaaaafaaaafaaaafaaaafaaaafaaaafaaaafaaaafaaaafaaaafaaaafaaaafaaaafaaaafaaaafaaaafaaaafaaaafaaaafaaaafaaaafaaaafaaaafaaaafaaaafaaaafaaaafaaaafaaaafaaaafaaaafaaaafaaaafaaaafaaaafaaaafaaaafaaaafaaaafaaaafaaaafaaaafaaaafaaaafaaaafaaaafaaaafaaaafaaaafaaaafaaaafaaaafaaaafaaaafaaaafaaaafaaaafaaaafaaaafaaaafaaaafaaaafaaaafaaaafaaaafaaaafaaaafaaaafaaaafaaaafaaaafaaaafaaaafaaaafaaaafaaaafaaaafaaaafaaaafaaaafaaaafaaaafaaaafaaaafaaaafaaaafaaaafaaaafaaaafaaaafaaaafaaaafaaaafaaaafaaaafaaaafaaaafaaaafaaaafaaaafaaaafaaaafaaaafaaaafaaaafaaaafaaaafaaaafaaaafaaaafaaaafaaaafaaaafaaaafaaaafaaaafaaaafaaaafaaaafaaaafaaaafaaaafaaaafaaaafaaaafaaaafaaaafaaaafaaaafaaaafaaaafaaaafaaaafaaaafaaaafaaaafaaaafaaaafaaaafaaaafaaaafaaaafaaaafaaaafaaaafaaaafaaaafaaaafaaaafaaaafaaaafaaaafaaaafaaaafaaaafaaaafaaaafaaaafaaaafaaaafaaaafaaaafaaaafaaaafaaaafaaaafaaaafaaaafaaaafaaaafaaaafaaaafaaaafaaaafaaaafaaaafaaaafaaaafaaaafaaaafaaaafaaaafaaaafaaaafaaaafaaaafaaaafaaaafaaaafaaaafaaaafaaaafaaaafaaaafaaaafaaaafaaaafaaaafaaaafaaaafaaaafaaaafaaaafaaaafaaaafaaaafaaaafaaaafaaaafaaaafaaaafaaaafaaaafaaaafaaaafaaaafaaaafaaaafaaaafaaaafaaaafaaaafaaaafaaaafaaaafaaaafaaaafaaaafaaaafaaaafaaaafaaaafaaaafaaaafaaaafaaaafaaaafaaaafaaaafaaaafaaaafaaaafaaaafaaaafaaaafaaaafaaaafaaaafaaaafaaaafaaaafaaaafaaaafaaaafaaaafaaaafaaaafaaaafaaaafaaaafaaaafaaaafaaaafaaaafaaaafaaaafaaaafaaaafaaaafaaaafaaaafaaaafaaaafaaaafaaaafaaaafaaaafaaaafaaaafaaaafaaaafaaaafaaaafaaaafaaaafaaaafaaaafaaaafaaaafaaaafaaaafaaaafaaaafaaaafaaaafaaaafaaaafaaaafaaaafaaaafaaaafaaaafaaaafaaaafaaaafaaaafaaaafaaaafaaaafaaaafaaaafaaaafaaaafaaaafaaaafaaaafaaaafaaaafaaaafaaaafaaaafaaaafaaaafaaaafaaaafaaaafaaaafaaaafaaaafaaaafaaaafaaaafaaaafaaaafaaaafaaaafaaaafaaaafaaaafaaaafaaaafaaaafaaaafaaaafaaaafaaaafaaaafaaaafaaaafaaaafaaaafaaaafaaaafaaaafaaaafaaaafaaaafaaaafaaaafaaaafaaaafaaaafaaaafaaaafaaaafaaaafaaaafaaaafaaaafaaaafaaaafaaaafaaaafaaaafaaaafaaaafaaaafaaaafaaaafaaaafaaaafaaaafaaaafaaaafaaaafaaaafaaaafaaaafaaaafaaaafaaaafaaaafaaaafaaaafaaaafaaaafaaaafaaaafaaaafaaaafaaaafaaaafaaaafaaaafaaaafaaaafaaaafaaaafaaaafaaaafaaaafaaaafaaaafaaaafaaaafaaaafaaaafaaaafaaaafaaaafaaaafaaaafaaaafaaaafaaaafaaaafaaaafaaaafaaaafaaaafaaaafaaaafaaaafaaaafaaaafaaaafaaaafaaaafaaaafaaaafaaaafaaaafaaaafaaaafaaaafaaaafaaaafaaaafaaaafaaaafaaaafaaaafaaaafaaaafaaaafaaaafaaaafaaaafaaaafaaaafaaaafaaaafaaaafaaaafaaaafaaaafaaaafaaaafaaaafaaaafaaaafaaaafaaaafaaaafaaaafaaaafaaaafaaaafaaaafaaaafaaaafaaaafaaaafaaaafaaaafaaaafaaaafaaaafaaaafaaaafaaaafaaaafaaaafaaaafaaaafaaaafaaaafaaaafaaaafaaaafaaaafaaaafaaaafaaaafaaaafaaaafaaaafaaaafaaaafaaaafaaaafaaaafaaaafaaaafaaaafaaaafaaaafaaaafaaaafaaaafaaaafaaaafaaaafaaaafaaaafaaaafaaaafaaaafaaaafaaaafaaaafaaaafaaaafaaaafaaaafaaaafaaaafaaaafaaaafaaaafaaaafaaaafaaaafaaaafaaaafaaaafaaaafaaaafaaaafaaaafaaaafaaaafaaaafaaaafaaaafaaaafaaaafaaaafaaaafaaaafaaaafaaaafaaaafaaaafaaaafaaaafaaaafaaaafaaaafaaaafaaaafaaaafaaaafaaaafaaaafaaaafaaaafaaaafaaaafaaaafaaaafaaaafaaaafaaaafaaaafaaaafaaaafaaaafaaaafaaaafaaaafaaaafaaaafaaaafaaaafaaaafaaaafaaaafaaaafaaaafaaaafaaaafaaaafaaaafaaaafaaaafaaaafaaaafaaaafaaaafaaaafaaaafaaaafaaaafaaaafaaaafaaaafaaaafaaaafaaaafaaaafaaaafaaaafaaaafaaaafaaaafaaaafaaaafaaaafaaaafaaaafaaaafaaaafaaaafaaaafaaaafaaaafaaaafaaaafaaaafaaaafaaaafaaaafaaaafaaaafaaaafaaaafaaaafaaaafaaaafaaaafaaaafaaaafaaaafaaaafaaaafaaaafaaaafaaaafaaaafaaaafaaaafaaaafaaaafaaaafaaaafaaaafaaaafaaaafaaaafaaaafaaaafaaaafaaaafaaaafaaaafaaaafaaaafaaaafaaaafaaaafaaaafaaaafaaaafaaaafaaaafaaaafaaaafaaaafaaaafaaaafaaaafaaaafaaaafaaaafaaaafaaaafaaaafaaaafaaaafaaaafaaaafaaaafaaaafaaaafaaaafaaaafaaaafaaaafaaaafaaaafaaaafaaaafaaaafaaaafaaaafaaaafaaaafaaaafaaaafaaaafaaaafaaaafaaaafaaaafaaaafaaaafaaaafaaaafaaaafaaaafaaaafaaaafaaaafaaaafaaaafaaaafaaaafaaaafaaaafaaaafaaaafaaaafaaaafaaaafaaaafaaaafaaaafaaaafaaaafaaaafaaaafaaaafaaaafaaaafaaaafaaaafaaaafaaaafaaaafaaaafaaaafaaaafaaaafaaaafaaaafaaaafaaaafaaaafaaaafaaaafaaaafaaaafaaaafaaaafaaaafaaaafaaaafaaaafaaaafaaaafaaaafaaaafaaaafaaaafaaaafaaaafaaaafaaaafaaaafaaaafaaaafaaaafaaaafaaaafaaaafaaaafaaaafaaaafaaaafaaaafaaaafaaaafaaaafaaaafaaaafaaaafaaaafaaaafaaaafaaaafaaaafaaaafaaaafaaaafaaaafaaaafaaaafaaaafaaaafaaaafaaaafaaaafaaaafaaaafaaaafaaaafaaaafaaaafaaaafaaaafaaaafaaaafaaaafaaaafaaaafaaaafaaaafaaaafaaaafaaaafaaaafaaaafaaaafaaaafaaaafaaaafaaaafaaaafaaaafaaaafaaaafaaaafaaaafaaaafaaaafaaaafaaaafaaaafaaaafaaaafaaaafaaaafaaaafaaaafaaaafaaaafaaaafaaaafaaaafaaaafaaaafaaaafaaaafaaaafaaaafaaaafaaaafaaaafaaaafaaaafaaaafaaaafaaaafaaaafaaaafaaaafaaaafaaaafaaaafaaaafaaaafaaaafaaaafaaaafaaaafaaaafaaaafaaaafaaaafaaaafaaaafaaaafaaaafaaaafaaaafaaaafaaaafaaaafaaaafaaaafaaaafaaaafaaaafaaaafaaaafaaaafaaaafaaaafaaaafaaaafaaaafaaaafaaaafaaaafaaaafaaaafaaaafaaaafaaaafaaaafaaaafaaaafaaaafaaaafaaaafaaaafaaaafaaaafaaaafaaaafaaaafaaaafaaaafaaaafaaaafaaaafaaaafaaaafaaaafaaaafaaaafaaaafaaaafaaaafaaaafaaaafaaaafaaaafaaaafaaaafaaaafaaaafaaaafaaaafaaaafaaaafaaaafaaaafaaaafaaaafaaaafaaaafaaaafaaaafaaaafaaaafaaaafaaaafaaaafaaaafaaaafaaaafaaaafaaaafaaaafaaaafaaaafaaaafaaaafaaaafaaaafaaaafaaaafaaaafaaaafaaaafaaaafaaaafaaaafaaaafaaaafaaaafaaaafaaaafaaaafaaaafaaaafaaaafaaaafaaaafaaaafaaaafaaaafaaaafaaaafaaaafaaaafaaaafaaaafaaaafaaaafaaaafaaaafaaaafaaaafaaaafaaaafaaaafaaaafaaaafaaaafaaaafaaaafaaaafaaaafaaaafaaaafaaaafaaaafaaaafaaaafaaaafaaaafaaaafaaaafaaaafaaaafaaaafaaaafaaaafaaaafaaaafaaaafaaaafaaaafaaaafaaaafaaaafaaaafaaaafaaaafaaaafaaaafaaaafaaaafaaaafaaaafaaaafaaaafaaaafaaaafaaaafaaaafaaaafaaaafaaaafaaaafaaaafaaaafaaaafaaaafaaaafaaaafaaaafaaaafaaaafaaaafaaaafaaaafaaaafaaaafaaaafaaaafaaaafaaaafaaaafaaaafaaaafaaaafaaaafaaaafaaaafaaaafaaaafaaaafaaaafaaaafaaaafaaaafaaaafaaaafaaaafaaaafaaaafaaaafaaaafaaaafaaaafaaaafaaaafaaaafaaaafaaaafaaaafaaaafaaaafaaaafaaaafaaaafaaaafaaaafaaaafaaaafaaaafaaaafaaaafaaaafaaaafaaaafaaaafaaaafaaaafaaaafaaaafaaaafaaaafaaaafaaaafaaaafaaaafaaaafaaaafaaaafaaaafaaaafaaaafaaaafaaaafaaaafaaaafaaaafaaaafaaaafaaaafaaaafaaaafaaaafaaaafaaaafaaaafaaaafaaaafaaaafaaaafaaaafaaaafaaaafaaaafaaaafaaaafaaaafaaaafaaaafaaaafaaaafaaaafaaaafaaaafaaaafaaaafaaaafaaaafaaaafaaaafaaaafaaaafaaaafaaaafaaaafaaaafaaaafaaaafaaaafaaaafaaaafaaaafaaaafaaaafaaaafaaaafaaaafaaaafaaaafaaaafaaaafaaaafaaaafaaaafaaaafaaaafaaaafaaaafaaaafaaaafaaaafaaaafaaaafaaaafaaaafaaaafaaaafaaaafaaaafaaaafaaaafaaaafaaaafaaaafaaaafaaaafaaaafaaaafaaaafaaaafaaaafaaaafaaaafaaaafaaaafaaaafaaaafaaaafaaaafaaaafaaaafaaaafaaaafaaaafaaaafaaaafaaaafaaaafaaaafaaaafaaaafaaaafaaaafaaaafaaaafaaaafaaaafaaaafaaaafaaaafaaaafaaaafaaaafaaaafaaaafaaaafaaaafaaaafaaaafaaaafaaaafaaaafaaaafaaaafaaaafaaaafaaaafaaaafaaaafaaaafaaaafaaaafaaaafaaaafaaaafaaaafaaaafaaaafaaaafaaaafaaaafaaaafaaaafaaaafaaaafaaaafaaaafaaaafaaaafaaaafaaaafaaaafaaaafaaaafaaaafaaaafaaaafaaaafaaaafaaaafaaaafaaaafaaaafaaaafaaaafaaaafaaaafaaaafaaaafaaaafaaaafaaaafaaaafaaaafaaaafaaaafaaaafaaaafaaaafaaaafaaaafaaaafaaaafaaaafaaaafaaaafaaaafaaaafaaaafaaaafaaaafaaaafaaaafaaaafaaaafaaaafaaaafaaaafaaaafaaaafaaaafaaaafaaaafaaaafaaaafaaaafaaaafaaaafaaaafaaaafaaaafaaaafaaaafaaaafaaaafaaaafaaaafaaaafaaaafaaaafaaaafaaaafaaaafaaaafaaaafaaaafaaaafaaaafaaaafaaaafaaaafaaaafaaaafaaaafaaaafaaaafaaaafaaaafaaaafaaaafaaaafaaaafaaaafaaaafaaaafaaaafaaaafaaaafaaaafaaaafaaaafaaaafaaaafaaaafaaaafaaaafaaaafaaaafaaaafaaaafaaaafaaaafaaaafaaaafaaaafaaaafaaaafaaaafaaaafaaaafaaaafaaaafaaaafaaaafaaaafaaaafaaaafaaaafaaaafaaaafaaaafaaaafaaaafaaaafaaaafaaaafaaaafaaaafaaaafaaaafaaaafaaaafaaaafaaaafaaaafaaaafaaaafaaaafaaaafaaaafaaaafaaaafaaaafaaaafaaaafaaaafaaaafaaaafaaaafaaaafaaaafaaaafaaaafaaaafaaaafaaaafaaaafaaaafaaaafaaaafaaaafaaaafaaaafaaaafaaaafaaaafaaaafaaaafaaaafaaaafaaaafaaaafaaaafaaaafaaaafaaaafaaaafaaaafaaaafaaaafaaaafaaaafaaaafaaaafaaaafaaaafaaaafaaaafaaaafaaaafaaaafaaaafaaaafaaaafaaaafaaaafaaaafaaaafaaaafaaaafaaaafaaaafaaaafaaaafaaaafaaaafaaaafaaaafaaaafaaaafaaaafaaaafaaaafaaaafaaaafaaaafaaaafaaaafaaaafaaaafaaaafaaaafaaaafaaaafaaaafaaaafaaaafaaaafaaaafaaaafaaaafaaaafaaaafaaaafaaaafaaaafaaaafaaaafaaaafaaaafaaaafaaaafaaaafaaaafaaaafaaaafaaaafaaaafaaaafaaaafaaaafaaaafaaaafaaaafaaaafaaaafaaaafaaaafaaaafaaaafaaaafaaaafaaaafaaaafaaaafaaaafaaaafaaaafaaaafaaaafaaaafaaaafaaaafaaaafaaaafaaaafaaaafaaaafaaaafaaaafaaaafaaaafaaaafaaaafaaaafaaaafaaaafaaaafaaaafaaaafaaaafaaaafaaaafaaaafaaaafaaaafaaaafaaaafaaaafaaaafaaaafaaaafaaaafaaaafaaaafaaaafaaaafaaaafaaaafaaaafaaaafaaaafaaaafaaaafaaaafaaaafaaaafaaaafaaaafaaaafaaaafaaaafaaaafaaaafaaaafaaaafaaaafaaaafaaaafaaaafaaaafaaaafaaaafaaaafaaaafaaaafaaaafaaaafaaaafaaaafaaaafaaaafaaaafaaaafaaaafaaaafaaaafaaaafaaaafaaaafaaaafaaaafaaaafaaaafaaaafaaaafaaaafaaaafaaaafaaaafaaaafaaaafaaaafaaaafaaaafaaaafaaaafaaaafaaaafaaaafaaaafaaaafaaaafaaaafaaaafaaaafaaaafaaaafaaaafaaaafaaaafaaaafaaaafaaaafaaaafaaaafaaaafaaaafaaaafaaaafaaaafaaaafaaaafaaaafaaaafaaaafaaaafaaaafaaaafaaaafaaaafaaaafaaaafaaaafaaaafaaaafaaaafaaaafaaaafaaaafaaaafaaaafaaaafaaaafaaaafaaaafaaaafaaaafaaaafaaaafaaaafaaaafaaaafaaaafaaaafaaaafaaaafaaaafaaaafaaaafaaaafaaaafaaaafaaaafaaaafaaaafaaaafaaaafaaaafaaaafaaaafaaaafaaaafaaaafaaaafaaaafaaaafaaaafaaaafaaaafaaaafaaaafaaaafaaaafaaaafaaaafaaaafaaaafaaaafaaaafaaaafaaaafaaaafaaaafaaaafaaaafaaaafaaaafaaaafaaaafaaaafaaaafaaaafaaaafaaaafaaaafaaaafaaaafaaaafaaaafaaaafaaaafaaaafaaaafaaaafaaaafaaaafaaaafaaaafaaaafaaaafaaaafaaaafaaaafaaaafaaaafaaaafaaaafaaaafaaaafaaaafaaaafaaaafaaaafaaaafaaaafaaaafaaaafaaaafaaaafaaaafaaaafaaaafaaaafaaaafaaaafaaaafaaaafaaaafaaaafaaaafaaaafaaaafaaaafaaaafaaaafaaaafaaaafaaaafaaaafaaaafaaaafaaaafaaaafaaaafaaaafaaaafaaaafaaaafaaaafaaaafaaaafaaaafaaaafaaaafaaaafaaaafaaaafaaaafaaaafaaaafaaaafaaaafaaaafaaaafaaaafaaaafaaaafaaaafaaaafaaaafaaaafaaaafaaaafaaaafaaaafaaaafaaaafaaaafaaaafaaaafaaaafaaaafaaaafaaaafaaaafaaaafaaaafaaaafaaaafaaaafaaaafaaaafaaaafaaaafaaaafaaaafaaaafaaaafaaaafaaaafaaaafaaaafaaaafaaaafaaaafaaaafaaaafaaaafaaaafaaaafaaaafaaaafaaaafaaaafaaaafaaaafaaaafaaaafaaaafaaaafaaaafaaaafaaaafaaaafaaaafaaaafaaaafaaaafaaaafaaaafaaaafaaaafaaaafaaaafaaaafaaaafaaaafaaaafaaaafaaaafaaaafaaaafaaaafaaaafaaaafaaaafaaaafaaaafaaaafaaaafaaaafaaaafaaaafaaaafaaaafaaaafaaaafaaaafaaaafaaaafaaaafaaaafaaaafaaaafaaaafaaaafaaaafaaaafaaaafaaaafaaaafaaaafaaaafaaaafaaaafaaaafaaaafaaaafaaaafaaaafaaaafaaaafaaaafaaaafaaaafaaaafaaaafaaaafaaaafaaaafaaaafaaaafaaaafaaaafaaaafaaaafaaaafaaaafaaaafaaaafaaaafaaaafaaaafaaaafaaaafaaaafaaaafaaaafaaaafaaaafaaaafaaaafaaaafaaaafaaaafaaaafaaaafaaaafaaaafaaaafaaaafaaaafaaaafaaaafaaaafaaaafaaaafaaaafaaaafaaaafaaaafaaaafaaaafaaaafaaaafaaaafaaaafaaaafaaaafaaaafaaaafaaaafaaaafaaaafaaaafaaaafaaaafaaaafaaaafaaaafaaaafaaaafaaaafaaaafaaaafaaaafaaaafaaaafaaaafaaaafaaaafaaaafaaaafaaaafaaaafaaaafaaaafaaaafaaaafaaaafaaaafaaaafaaaafaaaafaaaafaaaafaaaafaaaafaaaafaaaafaaaafaaaafaaaafaaaafaaaafaaaafaaaafaaaafaaaafaaaafaaaafaaaafaaaafaaaafaaaafaaaafaaaafaaaafaaaafaaaafaaaafaaaafaaaafaaaafaaaafaaaafaaaafaaaafaaaafaaaafaaaafaaaafaaaafaaaafaaaafaaaafaaaafaaaafaaaafaaaafaaaafaaaafaaaafaaaafaaaafaaaafaaaafaaaafaaaafaaaafaaaafaaaafaaaafaaaafaaaafaaaafaaaafaaaafaaaafaaaafaaaafaaaafaaaafaaaafaaaafaaaafaaaafaaaafaaaafaaaafaaaafaaaafaaaafaaaafaaaafaaaafaaaafaaaafaaaafaaaafaaaafaaaafaaaafaaaafaaaafaaaafaaaafaaaafaaaafaaaafaaaafaaaafaaaafaaaafaaaafaaaafaaaafaaaafaaaafaaaafaaaafaaaafaaaafaaaafaaaafaaaafaaaafaaaafaaaafaaaafaaaafaaaafaaaafaaaafaaaafaaaafaaaafaaaafaaaafaaaafaaaafaaaafaaaafaaaafaaaafaaaafaaaafaaaafaaaafaaaafaaaafaaaafaaaafaaaafaaaafaaaafaaaafaaaafaaaafaaaafaaaafaaaafaaaafaaaafaaaafaaaafaaaafaaaafaaaafaaaafaaaafaaaafaaaafaaaafaaaafaaaafaaaafaaaafaaaafaaaafaaaafaaaafaaaafaaaafaaaafaaaafaaaafaaaafaaaafaaaafaaaafaaaafaaaafaaaafaaaafaaaafaaaafaaaafaaaafaaaafaaaafaaaafaaaafaaaafaaaafaaaafaaaafaaaafaaaafaaaafaaaafaaaafaaaafaaaafaaaafaaaafaaaafaaaafaaaafaaaafaaaafaaaafaaaafaaaafaaaafaaaafaaaafaaaafaaaafaaaafaaaafaaaafaaaafaaaafaaaafaaaafaaaafaaaafaaaafaaaafaaaafaaaafaaaafaaaafaaaafaaaafaaaafaaaafaaaafaaaafaaaafaaaafaaaafaaaafaaaafaaaafaaaafaaaafaaaafaaaafaaaafaaaafaaaafaaaafaaaafaaaafaaaafaaaafaaaafaaaafaaaafaaaafaaaafaaaafaaaafaaaafaaaafaaaafaaaafaaaafaaaafaaaafaaaafaaaafaaaafaaaafaaaafaaaafaaaafaaaafaaaafaaaafaaaafaaaafaaaafaaaafaaaafaaaafaaaafaaaafaaaafaaaafaaaafaaaafaaaafaaaafaaaafaaaafaaaafaaaafaaaafaaaafaaaafaaaafaaaafaaaafaaaafaaaafaaaafaaaafaaaafaaaafaaaafaaaafaaaafaaaafaaaafaaaafaaaafaaaafaaaafaaaafaaaafaaaafaaaafaaaafaaaafaaaafaaaafaaaafaaaafaaaafaaaafaaaafaaaafaaaafaaaafaaaafaaaafaaaafaaaafaaaafaaaafaaaafaaaafaaaafaaaafaaaafaaaafaaaafaaaafaaaafaaaafaaaafaaaafaaaafaaaafaaaafaaaafaaaafaaaafaaaafaaaafaaaafaaaafaaaafaaaafaaaafaaaafaaaafaaaafaaaafaaaafaaaafaaaafaaaafaaaafaaaafaaaafaaaafaaaafaaaafaaaafaaaafaaaafaaaafaaaafaaaafaaaafaaaafaaaafaaaafaaaafaaaafaaaafaaaafaaaafaaaafaaaafaaaafaaaafaaaafaaaafaaaafaaaafaaaafaaaafaaaafaaaafaaaafaaaafaaaafaaaafaaaafaaaafaaaafaaaafaaaafaaaafaaaafaaaafaaaafaaaafaaaafaaaafaaaafaaaafaaaafaaaafaaaafaaaafaaaafaaaafaaaafaaaafaaaafaaaafaaaafaaaafaaaafaaaafaaaafaaaafaaaafaaaafaaaafaaaafaaaafaaaafaaaafaaaafaaaafaaaafaaaafaaaafaaaafaaaafaaaafaaaafaaaafaaaafaaaafaaaafaaaafaaaafaaaafaaaafaaaafaaaafaaaafaaaafaaaafaaaafaaaafaaaafaaaafaaaafaaaafaaaafaaaafaaaafaaaafaaaafaaaafaaaafaaaafaaaafaaaafaaaafaaaafaaaafaaaafaaaafaaaafaaaafaaaafaaaafaaaafaaaafaaaafaaaafaaaafaaaafaaaafaaaafaaaafaaaafaaaafaaaafaaaafaaaafaaaafaaaafaaaafaaaafaaaafaaaafaaaafaaaafaaaafaaaafaaaafaaaafaaaafaaaafaaaafaaaafaaaafaaaafaaaafaaaafaaaafaaaafaaaafaaaafaaaafaaaafaaaafaaaafaaaafaaaafaaaafaaaafaaaafaaaafaaaafaaaafaaaafaaaafaaaafaaaafaaaafaaaafaaaafaaaafaaaafaaaafaaaafaaaafaaaafaaaafaaaafaaaafaaaafaaaafaaaafaaaafaaaafaaaafaaaafaaaafaaaafaaaafaaaafaaaafaaaafaaaafaaaafaaaafaaaafaaaafaaaafaaaafaaaafaaaafaaaafaaaafaaaafaaaafaaaafaaaafaaaafaaaafaaaafaaaafaaaafaaaafaaaafaaaafaaaafaaaafaaaafaaaafaaaafaaaafaaaafaaaafaaaafaaaafaaaafaaaafaaaafaaaafaaaafaaaafaaaafaaaafaaaafaaaafaaaafaaaafaaaafaaaafaaaafaaaafaaaafaaaafaaaafaaaafaaaafaaaafaaaafaaaafaaaafaaaafaaaafaaaafaaaafaaaafaaaafaaaafaaaafaaaafaaaafaaaafaaaafaaaafaaaafaaaafaaaafaaaafaaaafaaaafaaaafaaaafaaaafaaaafaaaafaaaafaaaafaaaafaaaafaaaafaaaafaaaafaaaafaaaafaaaafaaaafaaaafaaaafaaaafaaaafaaaafaaaafaaaafaaaafaaaafaaaafaaaafaaaafaaaafaaaafaaaafaaaafaaaafaaaafaaaafaaaafaaaafaaaafaaaafaaaafaaaafaaaafaaaafaaaafaaaafaaaafaaaafaaaafaaaafaaaafaaaafaaaafaaaafaaaafaaaafaaaafaaaafaaaafaaaafaaaafaaaafaaaafaaaafaaaafaaaafaaaafaaaafaaaafaaaafaaaafaaaafaaaafaaaafaaaafaaaafaaaafaaaafaaaafaaaafaaaafaaaafaaaafaaaafaaaafaaaafaaaafaaaafaaaafaaaafaaaafaaaafaaaafaaaafaaaafaaaafaaaafaaaafaaaafaaaafaaaafaaaafaaaafaaaafaaaafaaaafaaaafaaaafaaaafaaaafaaaafaaaafaaaafaaaafaaaafaaaafaaaafaaaafaaaafaaaafaaaafaaaafaaaafaaaafaaaafaaaafaaaafaaaafaaaafaaaafaaaafaaaafaaaafaaaafaaaafaaaafaaaafaaaafaaaafaaaafaaaafaaaafaaaafaaaafaaaafaaaafaaaafaaaafaaaafaaaafaaaafaaaafaaaafaaaafaaaafaaaafaaaafaaaafaaaafaaaafaaaafaaaafaaaafaaaafaaaafaaaafaaaafaaaafaaaafaaaafaaaafaaaafaaaafaaaafaaaafaaaafaaaafaaaafaaaafaaaafaaaafaaaafaaaafaaaafaaaafaaaafaaaafaaaafaaaafaaaafaaaafaaaafaaaafaaaafaaaafaaaafaaaafaaaafaaaafaaaafaaaafaaaafaaaafaaaafaaaafaaaafaaaafaaaafaaaafaaaafaaaafaaaafaaaafaaaafaaaafaaaafaaaafaaaafaaaafaaaafaaaafaaaafaaaafaaaafaaaafaaaafaaaafaaaafaaaafaaaafaaaafaaaafaaaafaaaafaaaafaaaafaaaafaaaafaaaafaaaafaaaafaaaafaaaafaaaafaaaafaaaafaaaafaaaafaaaafaaaafaaaafaaaafaaaafaaaafaaaafaaaafaaaafaaaafaaaafaaaafaaaafaaaafaaaafaaaafaaaafaaaafaaaafaaaafaaaafaaaafaaaafaaaafaaaafaaaafaaaafaaaafaaaafaaaafaaaafaaaafaaaafaaaafaaaafaaaafaaaafaaaafaaaafaaaafaaaafaaaafaaaafaaaafaaaafaaaafaaaafaaaafaaaafaaaafaaaafaaaafaaaafaaaafaaaafaaaafaaaafaaaafaaaafaaaafaaaafaaaafaaaafaaaafaaaafaaaafaaaafaaaafaaaafaaaafaaaafaaaafaaaafaaaafaaaafaaaafaaaafaaaafaaaafaaaafaaaafaaaafaaaafaaaafaaaafaaaafaaaafaaaafaaaafaaaafaaaafaaaafaaaafaaaafaaaafaaaafaaaafaaaafaaaafaaaafaaaafaaaafaaaafaaaafaaaafaaaafaaaafaaaafaaaafaaaafaaaafaaaafaaaafaaaafaaaafaaaafaaaafaaaafaaaafaaaafaaaafaaaafaaaafaaaafaaaafaaaafaaaafaaaafaaaafaaaafaaaafaaaafaaaafaaaafaaaafaaaafaaaafaaaafaaaafaaaafaaaafaaaafaaaafaaaafaaaafaaaafaaaafaaaafaaaafaaaafaaaafaaaafaaaafaaaafaaaafaaaafaaaafaaaafaaaafaaaafaaaafaaaafaaaafaaaafaaaafaaaafaaaafaaaafaaaafaaaafaaaafaaaafaaaafaaaafaaaafaaaafaaaafaaaafaaaafaaaafaaaafaaaafaaaafaaaafaaaafaaaafaaaafaaaafaaaafaaaafaaaafaaaafaaaafaaaafaaaafaaaafaaaafaaaafaaaafaaaafaaaafaaaafaaaafaaaafaaaafaaaafaaaafaaaafaaaafaaaafaaaafaaaafaaaafaaaafaaaafaaaafaaaafaaaafaaaafaaaafaaaafaaaafaaaafaaaafaaaafaaaafaaaafaaaafaaaafaaaafaaaafaaaafaaaafaaaafaaaafaaaafaaaafaaaafaaaafaaaafaaaafaaaafaaaafaaaafaaaafaaaafaaaafaaaafaaaafaaaafaaaafaaaafaaaafaaaafaaaafaaaafaaaafaaaafaaaafaaaafaaaafaaaafaaaafaaaafaaaafaaaafaaaafaaaafaaaafaaaafaaaafaaaafaaaafaaaafaaaafaaaafaaaafaaaafaaaafaaaafaaaafaaaafaaaafaaaafaaaafaaaafaaaafaaaafaaaafaaaafaaaafaaaafaaaafaaaafaaaafaaaafaaaafaaaafaaaafaaaafaaaafaaaafaaaafaaaafaaaafaaaafaaaafaaaafaaaafaaaafaaaafaaaafaaaafaaaafaaaafaaaafaaaafaaaafaaaafaaaafaaaafaaaafaaaafaaaafaaaafaaaafaaaafaaaafaaaafaaaafaaaafaaaafaaaafaaaafaaaafaaaafaaaafaaaafaaaafaaaafaaaafaaaafaaaafaaaafaaaafaaaafaaaafaaaafaaaafaaaafaaaafaaaafaaaafaaaafaaaafaaaafaaaafaaaafaaaafaaaafaaaafaaaafaaaafaaaafaaaafaaaafaaaafaaaafaaaafaaaafaaaafaaaafaaaafaaaafaaaafaaaafaaaafaaaafaaaafaaaafaaaafaaaafaaaafaaaafaaaafaaaafaaaafaaaafaaaafaaaafaaaafaaaafaaaafaaaafaaaafaaaafaaaafaaaafaaaafaaaafaaaafaaaafaaaafaaaafaaaafaaaafaaaafaaaafaaaafaaaafaaaafaaaafaaaafaaaafaaaafaaaafaaaafaaaafaaaafaaaafaaaafaaaafaaaafaaaafaaaafaaaafaaaafaaaafaaaafaaaafaaaafaaaafaaaafaaaafaaaafaaaafaaaafaaaafaaaafaaaafaaaafaaaafaaaafaaaafaaaafaaaafaaaafaaaafaaaafaaaafaaaafaaaafaaaafaaaafaaaafaaaafaaaafaaaafaaaafaaaafaaaafaaaafaaaafaaaafaaaafaaaafaaaafaaaafaaaafaaaafaaaafaaaafaaaafaaaafaaaafaaaafaaaafaaaafaaaafaaaafaaaafaaaafaaaafaaaafaaaafaaaafaaaafaaaafaaaafaaaafaaaafaaaafaaaafaaaafaaaafaaaafaaaafaaaafaaaafaaaafaaaafaaaafaaaafaaaafaaaafaaaafaaaafaaaafaaaafaaaafaaaafaaaafaaaafaaaafaaaafaaaafaaaafaaaafaaaafaaaafaaaafaaaafaaaafaaaafaaaafaaaafaaaafaaaafaaaafaaaafaaaafaaaafaaaafaaaafaaaafaaaafaaaafaaaafaaaafaaaafaaaafaaaafaaaafaaaafaaaafaaaafaaaafaaaafaaaafaaaafaaaafaaaafaaaafaaaafaaaafaaaafaaaafaaaafaaaafaaaafaaaafaaaafaaaafaaaafaaaafaaaafaaaafaaaafaaaafaaaafaaaafaaaafaaaafaaaafaaaafaaaafaaaafaaaafaaaafaaaafaaaafaaaafaaaafaaaafaaaafaaaafaaaafaaaafaaaafaaaafaaaafaaaafaaaafaaaafaaaafaaaafaaaafaaaafaaaafaaaafaaaafaaaafaaaafaaaafaaaafaaaafaaaafaaaafaaaafaaaafaaaafaaaafaaaafaaaafaaaafaaaafaaaafaaaafaaaafaaaafaaaafaaaafaaaafaaaafaaaafaaaafaaaafaaaafaaaafaaaafaaaafaaaafaaaafaaaafaaaafaaaafaaaafaaaafaaaafaaaafaaaafaaaafaaaafaaaafaaaafaaaafaaaafaaaafaaaafaaaafaaaafaaaafaaaafaaaafaaaafaaaafaaaafaaaafaaaafaaaafaaaafaaaafaaaafaaaafaaaafaaaafaaaafaaaafaaaafaaaafaaaafaaaafaaaafaaaafaaaafaaaafaaaafaaaafaaaafaaaafaaaafaaaafaaaafaaaafaaaafaaaafaaaafaaaafaaaafaaaafaaaafaaaafaaaafaaaafaaaafaaaafaaaafaaaafaaaafaaaafaaaafaaaafaaaafaaaafaaaafaaaafaaaafaaaafaaaafaaaafaaaafaaaafaaaafaaaafaaaafaaaafaaaafaaaafaaaafaaaafaaaafaaaafaaaafaaaafaaaafaaaafaaaafaaaafaaaafaaaafaaaafaaaafaaaafaaaafaaaafaaaafaaaafaaaafaaaafaaaafaaaafaaaafaaaafaaaafaaaafaaaafaaaafaaaafaaaafaaaafaaaafaaaafaaaafaaaafaaaafaaaafaaaafaaaafaaaafaaaafaaaafaaaafaaaafaaaafaaaafaaaafaaaafaaaafaaaafaaaafaaaafaaaafaaaafaaaafaaaafaaaafaaaafaaaafaaaafaaaafaaaafaaaafaaaafaaaafaaaafaaaafaaaafaaaafaaaafaaaafaaaafaaaafaaaafaaaafaaaafaaaafaaaafaaaafaaaafaaaafaaaafaaaafaaaafaaaafaaaafaaaafaaaafaaaafaaaafaaaafaaaafaaaafaaaafaaaafaaaafaaaafaaaafaaaafaaaafaaaafaaaafaaaafaaaafaaaafaaaafaaaafaaaafaaaafaaaafaaaafaaaafaaaafaaaafaaaafaaaafaaaafaaaafaaaafaaaafaaaafaaaafaaaafaaaafaaaafaaaafaaaafaaaafaaaafaaaafaaaafaaaafaaaafaaaafaaaafaaaafaaaafaaaafaaaafaaaafaaaafaaaafaaaafaaaafaaaafaaaafaaaafaaaafaaaafaaaafaaaafaaaafaaaafaaaafaaaafaaaafaaaafaaaafaaaafaaaafaaaafaaaafaaaafaaaafaaaafaaaafaaaafaaaafaaaafaaaafaaaafaaaafaaaafaaaafaaaafaaaafaaaafaaaafaaaafaaaafaaaafaaaafaaaafaaaafaaaafaaaafaaaafaaaafaaaafaaaafaaaafaaaafaaaafaaaafaaaafaaaafaaaafaaaafaaaafaaaafaaaafaaaafaaaafaaaafaaaafaaaafaaaafaaaafaaaafaaaafaaaafaaaafaaaafaaaafaaaafaaaafaaaafaaaafaaaafaaaafaaaafaaaafaaaafaaaafaaaafaaaafaaaafaaaafaaaafaaaafaaaafaaaafaaaafaaaafaaaafaaaafaaaafaaaafaaaafaaaafaaaafaaaafaaaafaaaafaaaafaaaafaaaafaaaafaaaafaaaafaaaafaaaafaaaafaaaafaaaafaaaafaaaafaaaafaaaafaaaafaaaafaaaafaaaafaaaafaaaafaaaafaaaafaaaafaaaafaaaafaaaafaaaafaaaafaaaafaaaafaaaafaaaafaaaafaaaafaaaafaaaafaaaafaaaafaaaafaaaafaaaafaaaafaaaafaaaafaaaafaaaafaaaafaaaafaaaafaaaafaaaafaaaafaaaafaaaafaaaafaaaafaaaafaaaafaaaafaaaafaaaafaaaafaaaafaaaafaaaafaaaafaaaafaaaafaaaafaaaafaaaafaaaafaaaafaaaafaaaafaaaafaaaafaaaafaaaafaaaafaaaafaaaafaaaafaaaafaaaafaaaafaaaafaaaafaaaafaaaafaaaafaaaafaaaafaaaafaaaafaaaafaaaafaaaafaaaafaaaafaaaafaaaafaaaafaaaafaaaafaaaafaaaafaaaafaaaafaaaafaaaafaaaafaaaafaaaafaaaafaaaafaaaafaaaafaaaafaaaafaaaafaaaafaaaafaaaafaaaafaaaafaaaafaaaafaaaafaaaafaaaafaaaafaaaafaaaafaaaafaaaafaaaafaaaafaaaafaaaafaaaafaaaafaaaafaaaafaaaafaaaafaaaafaaaafaaaafaaaafaaaafaaaafaaaafaaaafaaaafaaaafaaaafaaaafaaaafaaaafaaaafaaaafaaaafaaaafaaaafaaaafaaaafaaaafaaaafaaaafaaaafaaaafaaaafaaaafaaaafaaaafaaaafaaaafaaaafaaaafaaaafaaaafaaaafaaaafaaaafaaaafaaaafaaaafaaaafaaaafaaaafaaaafaaaafaaaafaaaafaaaafaaaafaaaafaaaafaaaafaaaafaaaafaaaafaaaafaaaafaaaafaaaafaaaafaaaafaaaafaaaafaaaafaaaafaaaafaaaafaaaafaaaafaaaafaaaafaaaafaaaafaaaafaaaafaaaafaaaafaaaafaaaafaaaafaaaafaaaafaaaafaaaafaaaafaaaafaaaafaaaafaaaafaaaafaaaafaaaafaaaafaaaafaaaafaaaafaaaafaaaafaaaafaaaafaaaafaaaafaaaafaaaafaaaafaaaafaaaafaaaafaaaafaaaafaaaafaaaafaaaafaaaafaaaafaaaafaaaafaaaafaaaafaaaafaaaafaaaafaaaafaaaafaaaafaaaafaaaafaaaafaaaafaaaafaaaafaaaafaaaafaaaafaaaafaaaafaaaafaaaafaaaafaaaafaaaafaaaafaaaafaaaafaaaafaaaafaaaafaaaafaaaafaaaafaaaafaaaafaaaafaaaafaaaafaaaafaaaafaaaafaaaafaaaafaaaafaaaafaaaafaaaafaaaafaaaafaaaafaaaafaaaafaaaafaaaafaaaafaaaafaaaafaaaafaaaafaaaafaaaafaaaafaaaafaaaafaaaafaaaafaaaafaaaafaaaafaaaafaaaafaaaafaaaafaaaafaaaafaaaafaaaafaaaafaaaafaaaafaaaafaaaafaaaafaaaafaaaafaaaafaaaafaaaafaaaafaaaafaaaafaaaafaaaafaaaafaaaafaaaafaaaafaaaafaaaafaaaafaaaafaaaafaaaafaaaafaaaafaaaafaaaafaaaafaaaafaaaafaaaafaaaafaaaafaaaafaaaafaaaafaaaafaaaafaaaafaaaafaaaafaaaafaaaafaaaafaaaafaaaafaaaafaaaafaaaafaaaafaaaafaaaafaaaafaaaafaaaafaaaafaaaafaaaafaaaafaaaafaaaafaaaafaaaafaaaafaaaafaaaafaaaafaaaafaaaafaaaafaaaafaaaafaaaafaaaafaaaafaaaafaaaafaaaafaaaafaaaafaaaafaaaafaaaafaaaafaaaafaaaafaaaafaaaafaaaafaaaafaaaafaaaafaaaafaaaafaaaafaaaafaaaafaaaafaaaafaaaafaaaafaaaafaaaafaaaafaaaafaaaafaaaafaaaafaaaafaaaafaaaafaaaafaaaafaaaafaaaafaaaafaaaafaaaafaaaafaaaafaaaafaaaafaaaafaaaafaaaafaaaafaaaafaaaafaaaafaaaafaaaafaaaafaaaafaaaafaaaafaaaafaaaafaaaafaaaafaaaafaaaafaaaafaaaafaaaafaaaafaaaafaaaafaaaafaaaafaaaafaaaafaaaafaaaafaaaafaaaafaaaafaaaafaaaafaaaafaaaafaaaafaaaafaaaafaaaafaaaafaaaafaaaafaaaafaaaafaaaafaaaafaaaafaaaafaaaafaaaafaaaafaaaafaaaafaaaafaaaafaaaafaaaafaaaafaaaafaaaafaaaafaaaafaaaafaaaafaaaafaaaafaaaafaaaafaaaafaaaafaaaafaaaafaaaafaaaafaaaafaaaafaaaafaaaafaaaafaaaafaaaafaaaafaaaafaaaafaaaafaaaafaaaafaaaafaaaafaaaafaaaafaaaafaaaafaaaafaaaafaaaafaaaafaaaafaaaafaaaafaaaafaaabfaaaafaaabfaaaafaaabfaaaafaaabfaaaafaaabfaaaafaaabfaaaafaaabfaaaafaaabfaaaafaaabfaaaafaaabfaaaafaaabfaaaafaaabfaaaafaaabfaaaafaaabfaaaafaaabfaaaafaaabfaaaafaaabfaaaafaaabfaaaafaaabfaaaafaaabfaaaafaaabfaaaafaaabfaaaafaaabfaaaafaaaafaaaafaaaafaaaafaaaafaaaafaaaafaaaafaaaafaaaafaaaafaaaafaaaafaaaafaaaafaaaafaaaafaaaafaaabfaaaafaaabfaaaafaaabfaaaafaaabfaaaafaaabfaaaafaaabfaaaafaaabfaaaafaaabfaaaafaaabfaaaafaaabfaaaafaaabfaaaafaaabfaaaafaaabfaaaafaaabfaaaafaaaafaaaafaaaafaaaafaaaafaaaafaaaafaaaafaaaafaaaafaaaafaaaafaaaafaaaafaaaafaaaafaaaafaaaafaaaafaaaafaaaafaaaafaaaafaaaafaaaafaaaafaaaafaaaafaaaafaaaafaaaafaaaafaaaafaaaafaaaafaaaafaaaafaaaafaaaafaaaafaaaafaaaafaaaafaaaafaaaafaaaafaaaafaaaafaaaafaaaafaaaafaaaafaaaafaaaafaaaafaaaafaaaafaaaafaaaafaaaafaaaafaaaafaaaafaaaafaaaafaaaafaaaafaaaafaaaafaaaafaaaafaaaafaaaafaaaafaaaafaaaafaaaafaaaafaaaafaaaafaaaafaaaafaaaafaaaafaaaafaaaafaaaafaaaafaaaafaaaafaaaafaaaafaaaafaaaafaaaafaaaafaaaafaaaafaaaafaaaafaaaafaaaafaaaafaaaafaaaafaaaafaaaafaaaafaaaafaaaafaaaafaaaafaaaafaaaafaaaafaaaafaaaafaaaafaaaafaaaafaaaafaaaafaaaafaaaafaaaafaaaafaaaafaaaafaaaafaaaafaaaafaaaafaaaafaaaafaaabfaaaafaaabfaaaafaaabfaaaafaaabfaaaafaaabfaaaafaaabfaaaafaaabfaaaafaaaafaaaafaaabfaaaafaaabfaaaafaaabfaaaafaaabfaaaafaaabfaaaafaaabfaaaafaaabfaaaafaaabfaaaafaaabfaaaafaaabfaaaafaaabfaaaafaaabfaaaafaaabfaaaafaaabfaaaafaaabfaaaafaaabfaaaafaaabfaaaafaaabfaaaafaaabfaaaafaaabfaaaafaaabfaaaafaaabfaaaafaaabfaaaafaaabfaaaafaaabfaaaafaaabfaaaafaaabfaaaafaaabfaaaafaaabfaaaafaaabfaaaafaaabfaaaafaaaafaaaafaaaafaaaafaaaafaaaafaaaafaaaafaaaafaaabfaaaafaaabfaaaabeggifaaabfaaaafaaabfaaaafaaabfaaaafaaabfaaaafaaabfaaaafaaaafaaaafaaaafaaabfaaaaahhcafaaaafaaaafaaabfaaaafaaabfaaaafaaaafaaaafaaabfaaaafaaabfaaaafaaabfaaaafaaabfaaaafaaabfaaaafaaabfaaaafaaabfaaaafaaabfaaaafaaabfaaaafaaabfaaaaahgjcahgibahgifahgjfahgjcfaaaaahhecahhbiahhdjfajcifaaabfaaaafaaabfaaaafaaabfaaaafaaabfaaaafaaabfaaaafaaabfaaaafaaabfaaaafaaabfaaaaejjfcahgjdbegbgfaaabfaaaafaaabfaaaafaaaafaaaafaaaafaaaafaaaafaaabfaaaafaaaafaaaafaaaafaaaafaaabfaaaafaaabfaaaafaaaafaaaafaaaafaaaafaaaafaaaafaaaafaaaafaaaafaaaafaaaafaaaafaaaafaaaafaaaafaaaafaaaafaaaafaaaafaaaafaaaafaaaafaaaafaaaafaaaafaaaafaaaafaaabfaaaafaaaafaaaafaaaafaaaafaaaafaaaafaaaafaaaafaaaafaaaafaaaafaaaafaaaafaaaafaaaafaaaafaaaafaaaafaaaafaaaafaaaafaaaafaaaafaaaafaaaafaaaafaaaafaaaafaaaafaaaafaaaafaaaafaaaafaaaafaaaafaaaafaaaafaaaafaaaafaaaafaaaafaaaafaaaafaaaafaaaafaaaafaaaafaaaafaaaafaaaafaaaafaaaafaaaafaaaafaaaafaaaafaaaafaaaafaaaafaaaafaaaafaaaafaaaafaaaafaaaafaaaafaaaafaaaafaaaafaaaafaaaafaaaafaaaafaaaafaaaafaaaafaaaafaaaafaaaafaaaafaaaafaaaafaaaafaaaafaaaafaaaafaaaafaaaafaaaafaaaafaaaafaaaafaaaafaaaafaaaafaaaafaaaafaaaafaaaafaaaafaaaafaaaafaaaafaaaafaaaafaaaafaaaafaaaafaaaafaaaafaaaafaaaafaaaafaaaafaaaafaaaafaaaafaaaafaaaafaaaafaaaafaaaafaaaafaaaafaaaafaaaafaaaafaaaafaaaafaaaafaaaafaaaafaaaafaaaafaaaafaaaafaaaafaaaafaaaafaaaafaaaafaaaafaaaafaaaafaaaafaaaafaaaafaaaafaaaafaaaafaaaafaaaafaaaafaaaafaaaafaaaafaaaafaaaafaaaafaaaafaaaafaaaafaaaafaaaafaaaafaaaafaaaafaaaafaaaafaaaafaaaafaaaafaaaafaaaafaaaafaaaafaaaafaaaafaaaafaaaafaaaafaaaafaaaafaaaafaaaafaaaafaaaafaaaafaaaafaaaafaaaafaaaafaaaafaaaafaaaafaaaafaaaafaaaafaaaafaaaafaaaafaaaafaaaafaaaafaaaafaaaafaaaafaaaafaaaafaaaafaaaafaaaafaaaafaaaafaaaafaaaafaaaafaaaafaaaafaaaafaaaafaaaafaaaafaaaafaaaafaaaafaaaafaaaafaaaafaaaafaaaafaaaafaaaafaaaafaaaafaaaafaaaafaaaafaaaafaaaafaaaafaaaafaaaafaaaafaaaafaaaafaaaafaaaafaaaafaaaafaaaafaaaafaaaafaaaafaaaafaaaafaaaafaaaafaaaafaaaafaaaafaaaafaaaafaaaafaaaafaaaafaaaafaaaafaaaafaaaafaaaafaaaafaaaafaaaafaaaafaaaafaaaafaaaafaaaafaaaafaaaafaaaafaaaafaaaafaaaafaaaafaaaafaaaafaaaafaaaafaaaafaaaafaaaafaaaafaaaafaaaafaaaafaaaafaaaafaaaafaaaafaaaafaaaafaaaafaaaafaaaafaaaafaaaafaaaafaaaafaaaafaaaafaaaafaaaafaaaafaaaafaaaafaaaafaaaafaaaafaaaafaaaafaaaafaaaafaaaafaaaafaaaafaaaafaaaafaaaafaaaafaaaafaaaafaaaafaaaafaaaafaaaafaaaafaaaafaaaafaaaafaaaafaaaafaaaafaaaafaaaafaaaafaaaafaaaafaaaafaaaafaaaafaaaafaaaafaaaafaaaafaaaafaaaafaaaafaaaafaaaafaaaafaaaafaaaafaaaafaaaafaaaafaaaafaaaafaaaafaaaafaaaafaaaafaaaafaaaafaaaafaaaafaaaafaaaafaaaafaaaafaaaafaaaafaaaafaaaafaaaafaaaafaaaafaaaafaaaafaaaafaaaafaaaafaaaafaaaafaaaafaaaafaaaafaaaafaaaafaaaafaaaafaaaafaaaafaaaafaaaafaaaafaaaafaaaafaaaafaaaafaaaafaaaafaaaafaaaafaaaafaaaafaaaafaaaafaaaafaaaafaaaafaaaafaaaafaaaafaaaafaaaafaaaafaaaafaaaafaaaafaaaafaaaafaaaafaaaafaaaafaaaafaaaafaaaafaaaafaaaafaaaafaaaafaaaafaaaafaaaafaaaafaaaafaaaafaaaafaaaafaaaafaaaafaaaafaaaafaaaafaaaafaaaafaaaafaaaafaaaafaaaafaaaafaaaafaaaafaaaafaaaafaaaafaaaafaaaafaaaafaaaafaaaafaaaafaaaafaaaafaaaafaaaafaaaafaaaafaaaafaaaafaaaafaaaafaaaafaaaafaaaafaaaafaaaafaaaafaaaafaaaafaaaafaaaafaaaafaaaafaaaafaaaafaaaafaaaafaaaafaaaafaaaafaaaafaaaafaaaafaaaafaaaafaaaafaaaafaaaafaaaafaaaafaaaafaaaafaaaafaaaafaaaafaaaafaaaafaaaafaaaafaaaafaaaafaaaafaaaafaaaafaaaafaaaafaaaafaaaafaaaafaaaafaaaafaaaafaaaafaaaafaaaafaaaafaaaafaaaafaaaafaaaafaaaafaaaafaaaafaaaafaaaafaaaafaaaafaaaafaaaafaaaafaaaafaaaafaaaafaaaafaaaafaaaafaaaafaaaafaaaafaaaafaaaafaaaafaaaafaaaafaaaafaaaafaaaafaaaafaaaafaaaafaaaafaaaafaaaafaaaafaaaafaaaafaaaafaaaafaaaafaaaafaaaafaaaafaaaafaaaafaaaafaaaafaaaafaaaafaaaafaaaafaaaafaaaafaaaafaaaafaaaafaaaafaaaafaaaafaaaafaaaafaaaafaaaafaaaafaaaafaaaafaaaafaaaafaaaafaaaafaaaafaaaafaaaafaaaafaaaafaaaafaaaafaaaafaaaafaaaafaaaafaaaafaaaafaaaafaaaafaaaafaaaafaaaafaaaafaaaafaaaafaaaafaaaafaaaafaaaafaaaafaaaafaaaafaaaafaaaafaaaafaaaafaaaafaaaafaaaafaaaafaaaafaaaafaaaafaaaafaaaafaaaafaaaafaaaafaaaafaaaafaaaafaaaafaaaafaaaafaaaafaaaafaaaafaaaafaaaafaaaafaaaafaaaafaaaafaaaafaaaafaaaafaaaafaaaafaaaafaaaafaaaafaaaafaaaafaaaafaaaafaaaafaaaafaaaafaaaafaaaafaaaafaaaafaaaafaaaafaaaafaaaafaaaafaaaafaaaafaaaafaaaafaaaafaaaafaaaafaaaafaaaafaaaafaaaafaaaafaaaafaaaafaaaafaaaafaaaafaaaafaaaafaaaafaaaafaaaafaaaafaaaafaaaafaaaafaaaafaaaafaaaafaaaafaaaafaaaafaaaafaaaafaaaafaaaafaaaafaaaafaaaafaaaafaaaafaaaafaaaafaaaafaaaafaaaafaaaafaaaafaaaafaaaafaaaafaaaafaaaafaaaafaaaafaaaafaaaafaaaafaaaafaaaafaaaafaaaafaaaafaaaafaaaafaaaafaaaafaaaafaaaafaaaafaaaafaaaafaaaafaaaafaaaafaaaafaaaafaaaafaaaafaaaafaaaafaaaafaaaafaaaafaaaafaaaafaaaafaaaafaaaafaaaafaaaafaaaafaaaafaaaafaaaafaaaafaaaafaaaafaaaafaaaafaaaafaaaafaaaafaaaafaaaafaaaafaaaafaaaafaaaafaaaafaaaafaaaafaaaafaaaafaaaafaaaafaaaafaaaafaaaafaaaafaaaafaaaafaaaafaaaafaaaafaaaafaaaafaaaafaaaafaaaafaaaafaaaafaaaafaaaafaaaafaaaafaaaafaaaafaaaafaaaafaaaafaaaafaaaafaaaafaaaafaaaafaaaafaaaafaaaafaaaafaaaafaaaafaaaafaaaafaaaafaaaafaaaafaaaafaaaafaaaafaaaafaaaafaaaafaaaafaaaafaaaafaaaafaaaafaaaafaaaafaaaafaaaafaaaafaaaafaaaafaaaafaaaafaaaafaaaafaaaafaaaafaaaafaaaafaaaafaaaafaaaafaaaafaaaafaaaafaaaafaaaafaaaafaaaafaaaafaaaafaaaafaaaafaaaafaaaafaaaafaaaafaaaafaaaafaaaafaaaafaaaafaaaafaaaafaaaafaaaafaaaafaaaafaaaafaaaafaaaafaaaafaaaafaaaafaaaafaaaafaaaafaaaafaaaafaaaafaaaafaaaafaaaafaaaafaaaafaaaafaaaafaaaafaaaafaaaafaaaafaaaafaaaafaaaafaaaafaaaafaaaafaaaafaaaafaaaafaaaafaaaafaaaafaaaafaaaafaaaafaaaafaaaafaaaafaaaafaaaafaaaafaaaafaaaafaaaafaaaafaaaafaaaafaaaafaaaafaaaafaaaafaaaafaaaafaaaafaaaafaaaafaaaafaaaafaaaafaaaafaaaafaaaafaaaafaaaafaaaafaaaafaaaafaaaafaaaafaaaafaaaafaaaafaaaafaaaafaaaafaaaafaaaafaaaafaaaafaaaafaaaafaaaafaaaafaaaafaaaafaaaafaaaafaaaafaaaafaaaafaaaafaaaafaaaafaaaafaaaafaaaafaaaafaaaafaaaafaaaafaaaafaaaafaaaafaaaafaaaafaaaafaaaafaaaafaaaafaaaafaaaafaaaafaaaafaaaafaaaafaaaafaaaafaaaafaaaafaaaafaaaafaaaafaaaafaaaafaaaafaaaafaaaafaaaafaaaafaaaafaaaafaaaafaaaafaaaafaaaafaaaafaaaafaaaafaaaafaaaafaaaafaaaafaaaafaaaafaaaafaaaafaaaafaaaafaaaafaaaafaaaafaaaafaaaafaaaafaaaafaaaafaaaafaaaafaaaafaaaafaaaafaaaafaaaafaaaafaaaafaaaafaaaafaaaafaaaafaaaafaaaafaaaafaaaafaaaafaaaafaaaafaaaafaaaafaaaafaaaafaaaafaaaafaaaafaaaafaaaafaaaafaaaafaaaafaaaafaaaafaaaafaaaafaaaafaaaafaaaafaaaafaaaafaaaafaaaafaaaafaaaafaaaafaaaafaaaafaaaafaaaafaaaafaaaafaaaafaaaafaaaafaaaafaaaafaaaafaaaafaaaafaaaafaaaafaaaafaaaafaaaafaaaafaaaafaaaafaaaafaaaafaaaafaaaafaaaafaaaafaaaafaaaafaaaafaaaafaaaafaaaafaaaafaaaafaaaafaaaafaaaafaaaafaaaafaaaafaaaafaaaafaaaafaaaafaaaafaaaafaaaafaaaafaaaafaaaafaaaafaaaafaaaafaaaafaaaafaaaafaaaafaaaafaaaafaaaafaaaafaaaafaaaafaaaafaaaafaaaafaaaafaaaafaaaafaaaafaaaafaaaafaaaafaaaafaaaafaaaafaaaafaaaafaaaafaaaafaaaafaaaafaaaafaaaafaaaafaaaafaaaafaaaafaaaafaaaafaaaafaaaafaaaafaaaafaaaafaaaafaaaafaaaafaaaafaaaafaaaafaaaafaaaafaaaafaaaafaaaafaaaafaaaafaaaafaaaafaaaafaaaafaaaafaaaafaaaafaaaafaaaafaaaafaaaafaaaafaaaafaaaafaaaafaaaafaaaafaaaafaaaafaaaafaaaafaaaafaaaafaaaafaaaafaaaafaaaafaaaafaaaafaaaafaaaafaaaafaaaafaaaafaaaafaaaafaaaafaaaafaaaafaaaafaaaafaaaafaaaafaaaafaaaafaaaafaaaafaaaafaaaafaaaafaaaafaaaafaaaafaaaafaaaafaaaafaaaafaaaafaaaafaaaafaaaafaaaafaaaafaaaafaaaafaaaafaaaafaaaafaaaafaaaafaaaafaaaafaaaafaaaafaaaafaaaafaaaafaaaafaaaafaaaafaaaafaaaafaaaafaaaafaaaafaaaafaaaafaaaafaaaafaaaafaaaafaaaafaaaafaaaafaaaafaaaafaaaafaaaafaaaafaaaafaaaafaaaafaaaafaaaafaaaafaaaafaaaafaaaafaaaafaaaafaaaafaaaafaaaafaaaafaaaafaaaafaaaafaaaafaaaafaaaafaaaafaaaafaaaafaaaafaaaafaaaafaaaafaaaafaaaafaaaafaaaafaaaafaaaafaaaafaaaafaaaafaaaafaaaafaaaafaaaafaaaafaaaafaaaafaaaafaaaafaaaafaaaafaaaafaaaafaaaafaaaafaaaafaaaafaaaafaaaafaaaafaaaafaaaafaaaafaaaafaaaafaaaafaaaafaaaafaaaafaaaafaaaafaaaafaaaafaaaafaaaafaaaafaaaafaaaafaaaafaaaafaaaafaaaafaaaafaaaafaaaafaaaafaaaafaaaafaaaafaaaafaaaafaaaafaaaafaaaafaaaafaaaafaaaafaaaafaaaafaaaafaaaafaaaafaaaafaaaafaaaafaaaafaaaafaaaafaaaafaaaafaaaafaaaafaaaafaaaafaaaafaaaafaaaafaaaafaaaafaaaafaaaafaaaafaaaafaaaafaaaafaaaafaaaafaaaafaaaafaaaafaaaafaaaafaaaafaaaafaaaafaaaafaaaafaaaafaaaafaaaafaaaafaaaafaaaafaaaafaaaafaaaafaaaafaaaafaaaafaaaafaaaafaaaafaaaafaaaafaaaafaaaafaaaafaaaafaaaafaaaafaaaafaaaafaaaafaaaafaaaafaaaafaaaafaaaafaaaafaaaafaaaafaaaafaaaafaaaafaaaafaaaafaaaafaaaafaaaafaaaafaaaafaaaafaaaafaaaafaaaafaaaafaaaafaaaafaaaafaaaafaaaafaaaafaaaafaaaafaaaafaaaafaaaafaaaafaaaafaaaafaaaafaaaafaaaafaaaafaaaafaaaafaaaafaaaafaaaafaaaafaaaafaaaafaaaafaaaafaaaafaaaafaaaafaaaafaaaafaaaafaaaafaaaafaaaafaaaafaaaafaaaafaaaafaaaafaaaafaaaafaaaafaaaafaaaafaaaafaaaafaaaafaaaafaaaafaaaafaaaafaaaafaaaafaaaafaaaafaaaafaaaafaaaafaaaafaaaafaaaafaaaafaaaafaaaafaaaafaaaafaaaafaaaafaaaafaaaafaaaafaaaafaaaafaaaafaaaafaaaafaaaafaaaafaaaafaaaafaaaafaaaafaaaafaaaafaaaafaaaafaaaafaaaafaaaafaaaafaaaafaaaafaaaafaaaafaaaafaaaafaaaafaaaafaaaafaaaafaaaafaaaafaaaafaaaafaaaafaaaafaaaafaaaafaaaafaaaafaaaafaaaafaaaafaaaafaaaafaaaafaaaafaaaafaaaafaaaafaaaafaaaafaaaafaaaafaaaafaaaafaaaafaaaafaaaafaaaafaaaafaaaafaaaafaaaafaaaafaaaafaaaafaaaafaaaafaaaafaaaafaaaafaaaafaaaafaaaafaaaafaaaafaaaafaaaafaaaafaaaafaaaafaaaafaaaafaaaafaaaafaaaafaaaafaaaafaaaafaaaafaaaafaaaafaaaafaaaafaaaafaaaafaaaafaaaafaaaafaaaafaaaafaaaafaaaafaaaafaaaafaaaafaaaafaaaafaaaafaaaafaaaafaaaafaaaafaaaafaaaafaaaafaaaafaaaafaaaafaaaafaaaafaaaafaaaafaaaafaaaafaaaafaaaafaaaafaaaafaaaafaaaafaaaafaaaafaaaafaaaafaaaafaaaafaaaafaaaafaaaafaaaafaaaafaaaafaaaafaaaafaaaafaaaafaaaafaaaafaaaafaaaafaaaafaaaafaaaafaaaafaaaafaaaafaaaafaaaafaaaafaaaafaaaafaaaafaaaafaaaafaaaafaaaafaaaafaaaafaaaafaaaafaaaafaaaafaaaafaaaafaaaafaaaafaaaafaaaafaaaafaaaafaaaafaaaafaaaafaaaafaaaafaaaafaaaafaaaafaaaafaaaafaaaafaaaafaaaafaaaafaaaafaaaafaaaafaaaafaaaafaaaafaaaafaaaafaaaafaaaafaaaafaaaafaaaafaaaafaaaafaaaafaaaafaaaafaaaafaaaafaaaafaaaafaaaafaaaafaaaafaaaafaaaafaaaafaaaafaaaafaaaafaaaafaaaafaaaafaaaafaaaafaaaafaaaafaaaafaaaafaaaafaaaafaaaafaaaafaaaafaaaafaaaafaaaafaaaafaaaafaaaafaaaafaaaafaaaafaaaafaaaafaaaafaaaafaaaafaaaafaaaafaaaafaaaafaaaafaaaafaaaafaaaafaaaafaaaafaaaafaaaafaaaafaaaafaaaafaaaafaaaafaaaafaaaafaaaafaaaafaaaafaaaafaaaafaaaafaaaafaaaafaaaafaaaafaaaafaaaafaaaafaaaafaaaafaaaafaaaafaaaafaaaafaaaafaaaafaaaafaaaafaaaafaaaafaaaafaaaafaaaafaaaafaaaafaaaafaaaafaaaafaaaafaaaafaaaafaaaafaaaafaaaafaaaafaaaafaaaafaaaafaaaafaaaafaaaafaaaafaaaafaaaafaaaafaaaafaaaafaaaafaaaafaaaafaaaafaaaafaaaafaaaafaaaafaaaafaaaafaaaafaaaafaaaafaaaafaaaafaaaafaaaafaaaafaaaafaaaafaaaafaaaafaaaafaaaafaaaafaaaafaaaafaaaafaaaafaaaafaaaafaaaafaaaafaaaafaaaafaaaafaaaafaaaafaaaafaaaafaaaafaaaafaaaafaaaafaaaafaaaafaaaafaaaafaaaafaaaafaaaafaaaafaaaafaaaafaaaafaaaafaaaafaaaafaaaafaaaafaaaafaaaafaaaafaaaafaaaafaaaafaaaafaaaafaaaafaaaafaaaafaaaafaaaafaaaafaaaafaaaafaaaafaaaafaaaafaaaafaaaafaaaafaaaafaaaafaaaafaaaafaaaafaaaafaaaafaaaafaaaafaaaafaaaafaaaafaaaafaaaafaaaafaaaafaaaafaaaafaaaafaaaafaaaafaaaafaaaafaaaafaaaafaaaafaaaafaaaafaaaafaaaafaaaafaaaafaaaafaaaafaaaafaaaafaaaafaaaafaaaafaaaafaaaafaaaafaaaafaaaafaaaafaaaafaaaafaaaafaaaafaaaafaaaafaaaafaaaafaaaafaaaafaaaafaaaafaaaafaaaafaaaafaaaafaaaafaaaafaaaafaaaafaaaafaaaafaaaafaaaafaaaafaaaafaaaafaaaafaaaafaaaafaaaafaaaafaaaafaaaafaaaafaaaafaaaafaaaafaaaafaaaafaaaafaaaafaaaafaaaafaaaafaaaafaaaafaaaafaaaafaaaafaaaafaaaafaaaafaaaafaaaafaaaafaaaafaaaafaaaafaaaafaaaafaaaafaaaafaaaafaaaafaaaafaaaafaaaafaaaafaaaafaaaafaaaafaaaafaaaafaaaafaaaafaaaafaaaafaaaafaaaafaaaafaaaafaaaafaaaafaaaafaaaafaaaafaaaafaaaafaaaafaaaafaaaafaaaafaaaafaaaafaaaafaaaafaaaafaaaafaaaafaaaafaaaafaaaafaaaafaaaafaaaafaaaafaaaafaaaafaaaafaaaafaaaafaaaafaaaafaaaafaaaafaaaafaaaafaaaafaaaafaaaafaaaafaaaafaaaafaaaafaaaafaaaafaaaafaaaafaaaafaaaafaaaafaaaafaaaafaaaafaaaafaaaafaaaafaaaafaaaafaaaafaaaafaaaafaaaafaaaafaaaafaaaafaaaafaaaafaaaafaaaafaaaafaaaafaaaafaaaafaaaafaaaafaaaafaaaafaaaafaaaafaaaafaaaafaaaafaaaafaaaafaaaafaaaafaaaafaaaafaaaafaaaafaaaafaaaafaaaafaaaafaaaafaaaafaaaafaaaafaaaafaaaafaaaafaaaafaaaafaaaafaaaafaaaafaaaafaaaafaaaafaaaafaaaafaaaafaaaafaaaafaaaafaaaafaaaafaaaafaaaafaaaafaaaafaaaafaaaafaaaafaaaafaaaafaaaafaaaafaaaafaaaafaaaafaaaafaaaafaaaafaaaafaaaafaaaafaaaafaaaafaaaafaaaafaaaafaaaafaaaafaaaafaaaafaaaafaaaafaaaafaaaafaaaafaaaafaaaafaaaafaaaafaaaafaaaafaaaafaaaafaaaafaaaafaaaafaaaafaaaafaaaafaaaafaaaafaaaafaaaafaaaafaaaafaaaafaaaafaaaafaaaafaaaafaaaafaaaafaaaafaaaafaaaafaaaafaaaafaaaafaaaafaaaafaaaafaaaafaaaafaaaafaaaafaaaafaaaafaaaafaaaafaaaafaaaafaaaafaaaafaaaafaaaafaaaafaaaafaaaafaaaafaaaafaaaafaaaafaaaafaaaafaaaafaaaafaaaafaaaafaaaafaaaafaaaafaaaafaaaafaaaafaaaafaaaafaaaafaaaafaaaafaaaafaaaafaaaafaaaafaaaafaaaafaaaafaaaafaaaafaaaafaaaafaaaafaaaafaaaafaaaafaaaafaaaafaaaafaaaafaaaafaaaafaaaafaaaafaaaafaaaafaaaafaaaafaaaafaaaafaaaafaaaafaaaafaaaafaaaafaaaafaaaafaaaafaaaafaaaafaaaafaaaafaaaafaaaafaaaafaaaafaaaafaaaafaaaafaaaafaaaafaaaafaaaafaaaafaaaafaaaafaaaafaaaafaaaafaaaafaaaafaaaafaaaafaaaafaaaafaaaafaaaafaaaafaaaafaaaafaaaafaaaafaaaafaaaafaaaafaaaafaaaafaaaafaaaafaaaafaaaafaaaafaaaafaaaafaaaafaaaafaaaafaaaafaaaafaaaafaaaafaaaafaaaafaaaafaaaafaaaafaaaafaaaafaaaafaaaafaaaafaaaafaaaafaaaafaaaafaaaafaaaafaaaafaaaafaaaafaaaafaaaafaaaafaaaafaaaafaaaafaaaafaaaafaaaafaaaafaaaafaaaafaaaafaaaafaaaafaaaafaaaafaaaafaaaafaaaafaaaafaaaafaaaafaaaafaaaafaaaafaaaafaaaafaaaafaaaafaaaafaaaafaaaafaaaafaaaafaaaafaaaafaaaafaaaafaaaafaaaafaaaafaaaafaaaafaaaafaaaafaaaafaaaafaaaafaaaafaaaafaaaafaaaafaaaafaaaafaaaafaaaafaaaafaaaafaaaafaaaafaaaafaaaafaaaafaaaafaaaafaaaafaaaafaaaafaaaafaaaafaaaafaaaafaaaafaaaafaaaafaaaafaaaafaaaafaaaafaaaafaaaafaaaafaaaafaaaafaaaafaaaafaaaafaaaafaaaafaaaafaaaafaaaafaaaafaaaafaaaafaaaafaaaafaaaafaaaafaaaafaaaafaaaafaaaafaaaafaaaafaaaafaaaafaaaafaaaafaaaafaaaafaaaafaaaafaaaafaaaafaaaafaaaafaaaafaaaafaaaafaaaafaaaafaaaafaaaafaaaafaaaafaaaafaaaafaaaafaaaafaaaafaaaafaaaafaaaafaaaafaaaafaaaafaaaafaaaafaaaafaaaafaaaafaaaafaaaafaaaafaaaafaaaafaaaafaaaafaaaafaaaafaaaafaaaafaaaafaaaafaaaafaaaafaaaafaaaafaaaafaaaafaaaafaaaafaaaafaaaafaaaafaaaafaaaafaaaafaaaafaaaafaaaafaaaafaaaafaaaafaaaafaaaafaaaafaaaafaaaafaaaafaaaafaaaafaaaafaaaafaaaafaaaafaaaafaaaafaaaafaaaafaaaafaaaafaaaafaaaafaaaafaaaafaaaafaaaafaaaafaaaafaaaafaaaafaaaafaaaafaaaafaaaafaaaafaaaafaaaafaaaafaaaafaaaafaaaafaaaafaaaafaaaafaaaafaaaafaaaafaaaafaaaafaaaafaaaafaaaafaaaafaaaafaaaafaaaafaaaafaaaafaaaafaaaafaaaafaaaafaaaafaaaafaaaafaaaafaaaafaaaafaaaafaaaafaaaafaaaafaaaafaaaafaaaafaaaafaaaafaaaafaaaafaaaafaaaafaaaafaaaafaaaafaaaafaaaafaaaafaaaafaaaafaaaafaaaafaaaafaaaafaaaafaaaafaaaafaaaafaaaafaaaafaaaafaaaafaaaafaaaafaaaafaaaafaaaafaaaafaaaafaaaafaaaafaaaafaaaafaaaafaaaafaaaafaaaafaaaafaaaafaaaafaaaafaaaafaaaafaaaafaaaafaaaafaaaafaaaafaaaafaaaafaaaafaaaafaaaafaaaafaaaafaaaafaaaafaaaafaaaafaaaafaaaafaaaafaaaafaaaafaaaafaaaafaaaafaaaafaaaafaaaafaaaafaaaafaaaafaaaafaaaafaaaafaaaafaaaafaaaafaaaafaaaafaaaafaaaafaaaafaaaafaaaafaaaafaaaafaaaafaaaafaaaafaaaafaaaafaaaafaaaafaaaafaaaafaaaafaaaafaaaafaaaafaaaafaaaafaaaafaaaafaaaafaaaafaaaafaaaafaaaafaaaafaaaafaaaafaaaafaaaafaaaafaaaafaaaafaaaafaaaafaaaafaaaafaaaafaaaafaaaafaaaafaaaafaaaafaaaafaaaafaaaafaaaafaaaafaaaafaaaafaaaafaaaafaaaafaaaafaaaafaaaafaaaafaaaafaaaafaaaafaaaafaaaafaaaafaaaafaaaafaaaafaaaafaaaafaaaafaaaafaaaafaaaafaaaafaaaafaaaafaaaafaaaafaaaafaaaafaaaafaaaafaaaafaaaafaaaafaaaafaaaafaaaafaaaafaaaafaaaafaaaafaaaafaaaafaaaafaaaafaaaafaaaafaaaafaaaafaaaafaaaafaaaafaaaafaaaafaaaafaaaafaaaafaaaafaaaafaaaafaaaafaaaafaaaafaaaafaaaafaaaafaaaafaaaafaaaafaaaafaaaafaaaafaaaafaaaafaaaafaaaafaaaafaaaafaaaafaaaafaaaafaaaafaaaafaaaafaaaafaaaafaaaafaaaafaaaafaaaafaaaafaaaafaaaafaaaafaaaafaaaafaaaafaaaafaaaafaaaafaaaafaaaafaaaafaaaafaaaafaaaafaaaafaaaafaaaafaaaafaaaafaaaafaaaafaaaafaaaafaaaafaaaafaaaafaaaafaaaafaaaafaaaafaaaafaaaafaaaafaaaafaaaafaaaafaaaafaaaafaaaafaaaafaaaafaaaafaaaafaaaafaaaafaaaafaaaafaaaafaaaafaaaafaaaafaaaafaaaafaaaafaaaafaaaafaaaafaaaafaaaafaaaafaaaafaaaafaaaafaaaafaaaafaaaafaaaafaaaafaaaafaaaafaaaafaaaafaaaafaaaafaaaafaaaafaaaafaaaafaaaafaaaafaaaafaaaafaaaafaaaafaaaafaaaafaaaafaaaafaaaafaaaafaaaafaaaafaaaafaaaafaaaafaaaafaaaafaaaafaaaafaaaafaaaafaaaafaaaafaaaafaaaafaaaafaaaafaaaafaaaafaaaafaaaafaaaafaaaafaaaafaaaafaaaafaaaafaaaafaaaafaaaafaaaafaaaafaaaafaaaafaaaafaaaafaaaafaaaafaaaafaaaafaaaafaaaafaaaafaaaafaaaafaaaafaaaafaaaafaaaafaaaafaaaafaaaafaaaafaaaafaaaafaaaafaaaafaaaafaaaafaaaafaaaafaaaafaaaafaaaafaaaafaaaafaaaafaaaafaaaafaaaafaaaafaaaafaaaafaaaafaaaafaaaafaaaafaaaafaaaafaaaafaaaafaaaafaaaafaaaafaaaafaaaafaaaafaaaafaaaafaaaafaaaafaaaafaaaafaaaafaaaafaaaafaaaafaaaafaaaafaaaafaaaafaaaafaaaafaaaafaaaafaaaafaaaafaaaafaaaafaaaafaaaafaaaafaaaafaaaafaaaafaaaafaaaafaaaafaaaafaaaafaaaafaaaafaaaafaaaafaaaafaaaafaaaafaaaafaaaafaaaafaaaafaaaafaaaafaaaafaaaafaaaafaaaafaaaafaaaafaaaafaaaafaaaafaaaafaaaafaaaafaaaafaaaafaaaafaaaafaaaafaaaafaaaafaaaafaaaafaaaafaaaafaaaafaaaafaaaafaaaafaaaafaaaafaaaafaaaafaaaafaaaafaaaafaaaafaaaafaaaafaaaafaaaafaaaafaaaafaaaafaaaafaaaafaaaafaaaafaaaafaaaafaaaafaaaafaaaafaaaafaaaafaaaafaaaafaaaafaaaafaaaafaaaafaaaafaaaafaaaafaaaafaaaafaaaafaaaafaaaafaaaafaaaafaaaafaaaafaaaafaaaafaaaafaaaafaaaafaaaafaaaafaaaafaaaafaaaafaaaafaaaafaaaafaaaafaaaafaaaafaaaafaaaafaaaafaaaafaaaafaaaafaaaafaaaafaaaafaaaafaaaafaaaafaaaafaaaafaaaafaaaafaaaafaaaafaaaafaaaafaaaafaaaafaaaafaaaafaaaafaaaafaaaafaaaafaaaafaaaafaaaafaaaafaaaafaaaafaaaafaaaafaaaafaaaafaaaafaaaafaaaafaaaafaaaafaaaafaaaafaaaafaaaafaaaafaaaafaaaafaaaafaaaafaaaafaaaafaaaafaaaafaaaafaaaafaaaafaaaafaaaafaaaafaaaafaaaafaaaafaaaafaaaafaaaafaaaafaaaafaaaafaaaafaaaafaaaafaaaafaaaafaaaafaaaafaaaafaaaafaaaafaaaafaaaafaaaafaaaafaaaafaaaafaaaafaaaafaaaafaaaafaaaafaaaafaaaafaaaafaaaafaaaafaaaafaaaafaaaafaaaafaaaafaaaafaaaafaaaafaaaafaaaafaaaafaaaafaaaafaaaafaaaafaaaafaaaafaaaafaaaafaaaafaaaafaaaafaaaafaaaafaaaafaaaafaaaafaaaafaaaafaaaafaaaafaaaafaaaafaaaafaaaafaaaafaaaafaaaafaaaafaaaafaaaafaaaafaaaafaaaafaaaafaaaafaaaafaaaafaaaafaaaafaaaafaaaafaaaafaaaafaaaafaaaafaaaafaaaafaaaafaaaafaaaafaaaafaaaafaaaafaaaafaaaafaaaafaaaafaaaafaaaafaaaafaaaafaaaafaaaafaaaafaaaafaaaafaaaafaaaafaaaafaaaafaaaafaaaafaaaafaaaafaaaafaaaafaaaafaaaafaaaafaaaafaaaafaaaafaaaafaaaafaaaafaaaafaaaafaaaafaaaafaaaafaaaafaaaafaaaafaaaafaaaafaaaafaaaafaaaafaaaafaaaafaaaafaaaafaaaafaaaafaaaafaaaafaaaafaaaafaaaafaaaafaaaafaaaafaaaafaaaafaaaafaaaafaaaafaaaafaaaafaaaafaaaafaaaafaaaafaaaafaaaafaaaafaaaafaaaafaaaafaaaafaaaafaaaafaaaafaaaafaaaafaaaafaaaafaaaafaaaafaaaafaaaafaaaafaaaafaaaafaaaafaaaafaaaafaaaafaaaafaaaafaaaafaaaafaaaafaaaafaaaafaaaafaaaafaaaafaaaafaaaafaaaafaaaafaaaafaaaafaaaafaaaafaaaafaaaafaaaafaaaafaaaafaaaafaaaafaaaafaaaafaaaafaaaafaaaafaaaafaaaafaaaafaaaafaaaafaaaafaaaafaaaafaaaafaaaafaaaafaaaafaaaafaaaafaaaafaaaafaaaafaaaafaaaafaaaafaaaafaaaafaaaafaaaafaaaafaaaafaaaafaaaafaaaafaaaafaaaafaaaafaaaafaaaafaaaafaaaafaaaafaaaafaaaafaaaafaaaafaaaafaaaafaaaafaaaafaaaafaaaafaaaafaaaafaaaafaaaafaaaafaaaafaaaafaaaafaaaafaaaafaaaafaaaafaaaafaaaafaaaafaaaafaaaafaaaafaaaafaaaafaaaafaaaafaaaafaaaafaaaafaaaafaaaafaaaafaaaafaaaafaaaafaaaafaaaafaaaafaaaafaaaafaaaafaaaafaaaafaaaafaaaafaaaafaaaafaaaafaaaafaaaafaaaafaaaafaaaafaaaafaaaafaaaafaaaafaaaafaaaafaaaafaaaafaaaafaaaafaaaafaaaafaaaafaaaafaaaafaaaafaaaafaaaafaaaafaaaafaaaafaaaafaaaafaaaafaaaafaaaafaaaafaaaafaaaafaaaafaaaafaaaafaaaafaaaafaaaafaaaafaaaafaaaafaaaafaaaafaaaafaaaafaaaafaaaafaaaafaaaafaaaafaaaafaaaafaaaafaaaafaaaafaaaafaaaafaaaafaaaafaaaafaaaafaaaafaaaafaaaafaaaafaaaafaaaafaaaafaaaafaaaafaaaafaaaafaaaafaaaafaaaafaaaafaaaafaaaafaaaafaaaafaaaafaaaafaaaafaaaafaaaafaaaafaaaafaaaafaaaafaaaafaaaafaaaafaaaafaaaafaaaafaaaafaaaafaaaafaaaafaaaafaaaafaaaafaaaafaaaafaaaafaaaafaaaafaaaafaaaafaaaafaaaafaaaafaaaafaaaafaaaafaaaafaaaafaaaafaaaafaaaafaaaafaaaafaaaafaaaafaaaafaaaafaaaafaaaafaaaafaaaafaaaafaaaafaaaafaaaafaaaafaaaafaaaafaaaafaaaafaaaafaaaafaaaafaaaafaaaafaaaafaaaafaaaafaaaafaaaafaaaafaaaafaaaafaaaafaaaafaaaafaaaafaaaafaaaafaaaafaaaafaaaafaaaafaaaafaaaafaaaafaaaafaaaafaaaafaaaafaaaafaaaafaaaafaaaafaaaafaaaafaaaafaaaafaaaafaaaafaaaafaaaafaaaafaaaafaaaafaaaafaaaafaaaafaaaafaaaafaaaafaaaafaaaafaaaafaaaafaaaafaaaafaaaafaaaafaaaafaaaafaaaafaaaafaaaafaaaafaaaafaaaafaaaafaaaafaaaafaaaafaaaafaaaafaaaafaaaafaaaafaaaafaaaafaaaafaaaafaaaafaaaafaaaafaaaafaaaafaaaafaaaafaaaafaaaafaaaafaaaafaaaafaaaafaaaafaaaafaaaafaaaafaaaafaaaafaaaafaaaafaaaafaaaafaaaafaaaafaaaafaaaafaaaafaaaafaaaafaaaafaaaafaaaafaaaafaaaafaaaafaaaafaaaafaaaafaaaafaaaafaaaafaaaafaaaafaaaafaaaafaaaafaaaafaaaafaaaafaaaafaaaafaaaafaaaafaaaafaaaafaaaafaaaafaaaafaaaafaaaafaaaafaaaafaaaafaaaafaaaafaaaafaaaafaaaafaaaafaaaafaaaafaaaafaaaafaaaafaaaafaaaafaaaafaaaafaaaafaaaafaaaafaaaafaaaafaaaafaaaafaaaafaaaafaaaafaaaafaaaafaaaafaaaafaaaafaaaafaaaafaaaafaaaafaaaafaaaafaaaafaaaafaaaafaaaafaaaafaaaafaaaafaaaafaaaafaaaafaaaafaaaafaaaafaaaafaaaafaaaafaaaafaaaafaaaafaaaafaaaafaaaafaaaafaaaafaaaafaaaafaaaafaaaafaaaafaaaafaaaafaaaafaaaafaaaafaaaafaaaafaaaafaaaafaaaafaaaafaaaafaaaafaaaafaaaafaaaafaaaafaaaafaaaafaaaafaaaafaaaafaaaafaaaafaaaafaaaafaaaafaaaafaaaafaaaafaaaafaaaafaaaafaaaafaaaafaaaafaaaafaaaafaaaafaaaafaaaafaaaafaaaafaaaafaaaafaaaafaaaafaaaafaaaafaaaafaaaafaaaafaaaafaaaafaaaafaaaafaaaafaaaafaaaafaaaafaaaafaaaafaaaafaaaafaaaafaaaafaaaafaaaafaaaafaaaafaaaafaaaafaaaafaaaafaaaafaaaafaaaafaaaafaaaafaaaafaaaafaaaafaaaafaaaafaaaafaaaafaaaafaaaafaaaafaaaafaaaafaaaafaaaafaaaafaaaafaaaafaaaafaaaafaaaafaaaafaaaafaaaafaaaafaaaafaaaafaaaafaaaafaaaafaaaafaaaafaaaafaaaafaaaafaaaafaaaafaaaafaaaafaaaafaaaafaaaafaaaafaaaafaaaafaaaafaaaafaaaafaaaafaaaafaaaafaaaafaaaafaaaafaaaafaaaafaaaafaaaafaaaafaaaafaaaafaaaafaaaafaaaafaaaafaaaafaaaafaaaafaaaafaaaafaaaafaaaafaaaafaaaafaaaafaaaafaaaafaaaafaaaafaaaafaaaafaaaafaaaafaaaafaaaafaaaafaaaafaaaafaaaafaaaafaaaafaaaafaaaafaaaafaaaafaaaafaaaafaaaafaaaafaaaafaaaafaaaafaaaafaaaafaaaafaaaafaaaafaaaafaaaafaaaafaaaafaaaafaaaafaaaafaaaafaaaafaaaafaaaafaaaafaaaafaaaafaaaafaaaafaaaafaaaafaaaafaaaafaaaafaaaafaaaafaaaafaaaafaaaafaaaafaaaafaaaafaaaafaaaafaaaafaaaafaaaafaaaafaaaafaaaafaaaafaaaafaaaafaaaafaaaafaaaafaaaafaaaafaaaafaaaafaaaafaaaafaaaafaaaafaaaafaaaafaaaafaaaafaaaafaaaafaaaafaaaafaaaafaaaafaaaafaaaafaaaafaaaafaaaafaaaafaaaafaaaafaaaafaaaafaaaafaaaafaaaafaaaafaaaafaaaafaaaafaaaafaaaafaaaafaaaafaaaafaaaafaaaafaaaafaaaafaaaafaaaafaaaafaaaafaaaafaaaafaaaafaaaafaaaafaaaafaaaafaaaafaaaafaaaafaaaafaaaafaaaafaaaafaaaafaaaafaaaafaaaafaaaafaaaafaaaafaaaafaaaafaaaafaaaafaaaafaaaafaaaafaaaafaaaafaaaafaaaafaaaafaaaafaaaafaaaafaaaafaaaafaaaafaaaafaaaafaaaafaaaafaaaafaaaafaaaafaaaafaaaafaaaafaaaafaaaafaaaafaaaafaaaafaaaafaaaafaaaafaaaafaaaafaaaafaaaafaaaafaaaafaaaafaaaafaaaafaaaafaaaafaaaafaaaafaaaafaaaafaaaafaaaafaaaafaaaafaaaafaaaafaaaafaaaafaaaafaaaafaaaafaaaafaaaafaaaafaaaafaaaafaaaafaaaafaaaafaaaafaaaafaaaafaaaafaaaafaaaafaaaafaaaafaaaafaaaafaaaafaaaafaaaafaaaafaaaafaaaafaaaafaaaafaaaafaaaafaaaafaaaafaaaafaaaafaaaafaaaafaaaafaaaafaaaafaaaafaaaafaaaafaaaafaaaafaaaafaaaafaaaafaaaafaaaafaaaafaaaafaaaafaaaafaaaafaaaafaaaafaaaafaaaafaaaafaaaafaaaafaaaafaaaafaaaafaaaafaaaafaaaafaaaafaaaafaaaafaaaafaaaafaaaafaaaafaaaafaaaafaaaafaaaafaaaafaaaafaaaafaaaafaaaafaaaafaaaafaaaafaaaafaaaafaaaafaaaafaaaafaaaafaaaafaaaafaaaafaaaafaaaafaaaafaaaafaaaafaaaafaaaafaaaafaaaafaaaafaaaafaaaafaaaafaaaafaaaafaaaafaaaafaaaafaaaafaaaafaaaafaaaafaaaafaaaafaaaafaaaafaaaafaaaafaaaafaaaafaaaafaaaafaaaafaaaafaaaafaaaafaaaafaaaafaaaafaaaafaaaafaaaafaaaafaaaafaaaafaaaafaaaafaaaafaaaafaaaafaaaafaaaafaaaafaaaafaaaafaaaafaaaafaaaafaaaafaaaafaaaafaaaafaaaafaaaafaaaafaaaafaaaafaaaafaaaafaaaafaaaafaaaafaaaafaaaafaaaafaaaafaaaafaaaafaaaafaaaafaaaafaaaafaaaafaaaafaaaafaaaafaaaafaaaafaaaafaaaafaaaafaaaafaaaafaaaafaaaafaaaafaaaafaaaafaaaafaaaafaaaafaaaafaaaafaaaafaaaafaaaafaaaafaaaafaaaafaaaafaaaafaaaafaaaafaaaafaaaafaaaafaaaafaaaafaaaafaaaafaaaafaaaafaaaafaaaafaaaafaaaafaaaafaaaafaaaafaaaafaaaafaaaafaaaafaaaafaaaafaaaafaaaafaaaafaaaafaaaafaaaafaaaafaaaafaaaafaaaafaaaafaaaafaaaafaaaafaaaafaaaafaaaafaaaafaaaafaaaafaaaafaaaafaaaafaaaafaaaafaaaafaaaafaaaafaaaafaaaafaaaafaaaafaaaafaaaafaaaafaaaafaaaafaaaafaaaafaaaafaaaafaaaafaaaafaaaafaaaafaaaafaaaafaaaafaaaafaaaafaaaafaaaafaaaafaaaafaaaafaaaafaaaafaaaafaaaafaaaafaaaafaaaafaaaafaaaafaaaafaaaafaaaafaaaafaaaafaaaafaaaafaaaafaaaafaaaafaaaafaaaafaaaafaaaafaaaafaaaafaaaafaaaafaaaafaaaafaaaafaaaafaaaafaaaafaaaafaaaafaaaafaaaafaaaafaaaafaaaafaaaafaaaafaaaafaaaafaaaafaaaafaaaafaaaafaaaafaaaafaaaafaaaafaaaafaaaafaaaafaaaafaaaafaaaafaaaafaaaafaaaafaaaafaaaafaaaafaaaafaaaafaaaafaaaafaaaafaaaafaaaafaaaafaaaafaaaafaaaafaaaafaaaafaaaafaaaafaaaafaaaafaaaafaaaafaaaafaaaafaaaafaaaafaaaafaaaafaaaafaaaafaaaafaaaafaaaafaaaafaaaafaaaafaaaafaaaafaaaafaaaafaaaafaaaafaaaafaaaafaaaafaaaafaaaafaaaafaaaafaaaafaaaafaaaafaaaafaaaafaaaafaaaafaaaafaaaafaaaafaaaafaaaafaaaafaaaafaaaafaaaafaaaafaaaafaaaafaaaafaaaafaaaafaaaafaaaafaaaafaaaafaaaafaaaafaaaafaaaafaaaafaaaafaaaafaaaafaaaafaaaafaaaafaaaafaaaafaaaafaaaafaaaafaaaafaaaafaaaafaaaafaaaafaaaafaaaafaaaafaaaafaaaafaaaafaaaafaaaafaaaafaaaafaaaafaaaafaaaafaaaafaaaafaaaafaaaafaaaafaaaafaaaafaaaafaaaafaaaafaaaafaaaafaaaafaaaafaaaafaaaafaaaafaaaafaaaafaaaafaaaafaaaafaaaafaaaafaaaafaaaafaaaafaaaafaaaafaaaafaaaafaaaafaaaafaaaafaaaafaaaafaaaafaaaafaaaafaaaafaaaafaaaafaaaafaaaafaaaafaaaafaaaafaaaafaaaafaaaafaaaafaaaafaaaafaaaafaaaafaaaafaaaafaaaafaaaafaaaafaaaafaaaafaaaafaaaafaaaafaaaafaaaafaaaafaaaafaaaafaaaafaaaafaaaafaaaafaaaafaaaafaaaafaaaafaaaafaaaafaaaafaaaafaaaafaaaafaaaafaaaafaaaafaaaafaaaafaaaafaaaafaaaafaaaafaaaafaaaafaaaafaaaafaaaafaaaafaaaafaaaafaaaafaaaafaaaafaaaafaaaafaaaafaaaafaaaafaaaafaaaafaaaafaaaafaaaafaaaafaaaafaaaafaaaafaaaafaaaafaaaafaaaafaaaafaaaafaaaafaaaafaaaafaaaafaaaafaaaafaaaafaaaafaaaafaaaafaaaafaaaafaaaafaaaafaaaafaaaafaaaafaaaafaaaafaaaafaaaafaaaafaaaafaaaafaaaafaaaafaaaafaaaafaaaafaaaafaaaafaaaafaaaafaaaafaaaafaaaafaaaafaaaafaaaafaaaafaaaafaaaafaaaafaaaafaaaafaaaafaaaafaaaafaaaafaaaafaaaafaaaafaaaafaaaafaaaafaaaafaaaafaaaafaaaafaaaafaaaafaaaafaaaafaaaafaaaafaaaafaaaafaaaafaaaafaaaafaaaafaaaafaaaafaaaafaaaafaaaafaaaafaaaafaaaafaaaafaaaafaaaafaaaafaaaafaaaafaaaafaaaafaaaafaaaafaaaafaaaafaaaafaaaafaaaafaaaafaaaafaaaafaaaafaaaafaaaafaaaafaaaafaaaafaaaafaaaafaaaafaaaafaaaafaaaafaaaafaaaafaaaafaaaafaaaafaaaafaaaafaaaafaaaafaaaafaaaafaaaafaaaafaaaafaaaafaaaafaaaafaaaafaaaafaaaafaaaafaaaafaaaafaaaafaaaafaaaafaaaafaaaafaaaafaaaafaaaafaaaafaaaafaaaafaaaafaaaafaaaafaaaafaaaafaaaafaaaafaaaafaaaafaaaafaaaafaaaafaaaafaaaafaaaafaaaafaaaafaaaafaaaafaaaafaaaafaaaafaaaafaaaafaaaafaaaafaaaafaaaafaaaafaaaafaaaafaaaafaaaafaaaafaaaafaaaafaaaafaaaafaaaafaaaafaaaafaaaafaaaafaaaafaaaafaaaafaaaafaaaafaaaafaaaafaaaafaaaafaaaafaaaafaaaafaaaafaaaafaaaafaaaafaaaafaaaafaaaafaaaafaaaafaaaafaaaafaaaafaaaafaaaafaaaafaaaafaaaafaaaafaaaafaaaafaaaafaaaafaaaafaaaafaaaafaaaafaaaafaaaafaaaafaaaafaaaafaaaafaaaafaaaafaaaafaaaafaaaafaaaafaaaafaaaafaaaafaaaafaaaafaaaafaaaafaaaafaaaafaaaafaaaafaaaafaaaafaaaafaaaafaaaafaaaafaaaafaaaafaaaafaaaafaaaafaaaafaaaafaaaafaaaafaaaafaaaafaaaafaaaafaaaafaaaafaaaafaaaafaaaafaaaafaaaafaaaafaaaafaaaafaaaafaaaafaaaafaaaafaaaafaaaafaaaafaaaafaaaafaaaafaaaafaaaafaaaafaaaafaaaafaaaafaaaafaaaafaaaafaaaafaaaafaaaafaaaafaaaafaaaafaaaafaaaafaaaafaaaafaaaafaaaafaaaafaaaafaaaafaaaafaaaafaaaafaaaafaaaafaaaafaaaafaaaafaaaafaaaafaaaafaaaafaaaafaaaafaaaafaaaafaaaafaaaafaaaafaaaafaaaafaaaafaaaafaaaafaaaafaaaafaaaafaaaafaaaafaaaafaaaafaaaafaaaafaaaafaaaafaaaafaaaafaaaafaaaafaaaafaaaafaaaafaaaafaaaafaaaafaaaafaaaafaaaafaaaafaaaafaaaafaaaafaaaafaaaafaaaafaaaafaaaafaaaafaaaafaaaafaaaafaaaafaaaafaaaafaaaafaaaafaaaafaaaafaaaafaaaafaaaafaaaafaaaafaaaafaaaafaaaafaaaafaaaafaaaafaaaafaaaafaaaafaaaafaaaafaaaafaaaafaaaafaaaafaaaafaaaafaaaafaaaafaaaafaaaafaaaafaaaafaaaafaaaafaaaafaaaafaaaafaaaafaaaafaaaafaaaafaaaafaaaafaaaafaaaafaaaafaaaafaaaafaaaafaaaafaaaafaaaafaaaafaaaafaaaafaaaafaaaafaaaafaaaafaaaafaaaafaaaafaaaafaaaafaaaafaaaafaaaafaaaafaaaafaaaafaaaafaaaafaaaafaaaafaaaafaaaafaaaafaaaafaaaafaaaafaaaafaaaafaaaafaaaafaaaafaaaafaaaafaaaafaaaafaaaafaaaafaaaafaaaafaaaafaaaafaaaafaaaafaaaafaaaafaaaafaaaafaaaafaaaafaaaafaaaafaaaafaaaafaaaafaaaafaaaafaaaafaaaafaaaafaaaafaaaafaaaafaaaafaaaafaaaafaaaafaaaafaaaafaaaafaaaafaaaafaaaafaaaafaaaafaaaafaaaafaaaafaaaafaaaafaaaafaaaafaaaafaaaafaaaafaaaafaaaafaaaafaaaafaaaafaaaafaaaafaaaafaaaafaaaafaaaafaaaafaaaafaaaafaaaafaaaafaaaafaaaafaaaafaaaafaaaafaaaafaaaafaaaafaaaafaaaafaaaafaaaafaaaafaaaafaaaafaaaafaaaafaaaafaaaafaaaafaaaafaaaafaaaafaaaafaaaafaaaafaaaafaaaafaaaafaaaafaaaafaaaafaaaafaaaafaaaafaaaafaaaafaaaafaaaafaaaafaaaafaaaafaaaafaaaafaaaafaaaafaaaafaaaafaaaafaaaafaaaafaaaafaaaafaaaafaaaafaaaafaaaafaaaafaaaafaaaafaaaafaaaafaaaafaaaafaaaafaaaafaaaafaaaafaaaafaaaafaaaafaaaafaaaafaaaafaaaafaaaafaaaafaaaafaaaafaaaafaaaafaaaafaaaafaaaafaaaafaaaafaaaafaaaafaaaafaaaafaaaafaaaafaaaafaaaafaaaafaaaafaaaafaaaafaaaafaaaafaaaafaaaafaaaafaaaafaaaafaaaafaaaafaaaafaaaafaaaafaaaafaaaafaaaafaaaafaaaafaaaafaaaafaaaafaaaafaaaafaaaafaaaafaaaafaaaafaaaafaaaafaaaafaaaafaaaafaaaafaaaafaaaafaaaafaaaafaaaafaaaafaaaafaaaafaaaafaaaafaaaafaaaafaaaafaaaafaaaafaaaafaaaafaaaafaaaafaaaafaaaafaaaafaaaafaaaafaaaafaaaafaaaafaaaafaaaafaaaafaaaafaaaafaaaafaaaafaaaafaaaafaaaafaaaafaaaafaaaafaaaafaaaafaaaafaaaafaaaafaaaafaaaafaaaafaaaafaaaafaaaafaaaafaaaafaaaafaaaafaaaafaaaafaaaafaaaafaaaafaaaafaaaafaaaafaaaafaaaafaaaafaaaafaaaafaaaafaaaafaaaafaaaafaaaafaaaafaaaafaaaafaaaafaaaafaaaafaaaafaaaafaaaafaaaafaaaafaaaafaaaafaaaafaaaafaaaafaaaafaaaafaaaafaaaafaaaafaaaafaaaafaaaafaaaafaaaafaaaafaaaafaaaafaaaafaaaafaaaafaaaafaaaafaaaafaaaafaaaafaaaafaaaafaaaafaaaafaaaafaaaafaaaafaaaafaaaafaaaafaaaafaaaafaaaafaaaafaaaafaaaafaaaafaaaafaaaafaaaafaaaafaaaafaaaafaaaafaaaafaaaafaaaafaaaafaaaafaaaafaaaafaaaafaaaafaaaafaaaafaaaafaaaafaaaafaaaafaaaafaaaafaaaafaaaafaaaafaaaafaaaafaaaafaaaafaaaafaaaafaaaafaaaafaaaafaaaafaaaafaaaafaaaafaaaafaaaafaaaafaaaafaaaafaaaafaaaafaaaafaaaafaaaafaaaafaaaafaaaafaaaafaaaafaaaafaaaafaaaafaaaafaaaafaaaafaaaafaaaafaaaafaaaafaaaafaaaafaaaafaaaafaaaafaaaafaaaafaaaafaaaafaaaafaaaafaaaafaaaafaaaafaaaafaaaafaaaafaaaafaaaafaaaafaaaafaaaafaaaafaaaafaaaafaaaafaaaafaaaafaaaafaaaafaaaafaaaafaaaafaaaafaaaafaaaafaaaafaaaafaaaafaaaafaaaafaaaafaaaafaaaafaaaafaaaafaaaafaaaafaaaafaaaafaaaafaaaafaaaafaaaafaaaafaaaafaaaafaaaafaaaafaaaafaaaafaaaafaaaafaaaafaaaafaaaafaaaafaaaafaaaafaaaafaaaafaaaafaaaafaaaafaaaafaaaafaaaafaaaafaaaafaaaafaaaafaaaafaaaafaaaafaaaafaaaafaaaafaaaafaaaafaaaafaaaafaaaafaaaafaaaafaaaafaaaafaaaafaaaafaaaafaaaafaaaafaaaafaaaafaaaafaaaafaaaafaaaafaaaafaaaafaaaafaaaafaaaafaaaafaaaafaaaafaaaafaaaafaaaafaaaafaaaafaaaafaaaafaaaafaaaafaaaafaaaafaaaafaaaafaaaafaaaafaaaafaaaafaaaafaaaafaaaafaaaafaaaafaaaafaaaafaaaafaaaafaaaafaaaafaaaafaaaafaaaafaaaafaaaafaaaafaaaafaaaafaaaafaaaafaaaafaaaafaaaafaaaafaaaafaaaafaaaafaaaafaaaafaaaafaaaafaaaafaaaafaaaafaaaafaaaafaaaafaaaafaaaafaaaafaaaafaaaafaaaafaaaafaaaafaaaafaaaafaaaafaaaafaaaafaaaafaaaafaaaafaaaafaaaafaaaafaaaafaaaafaaaafaaaafaaaafaaaafaaaafaaaafaaaafaaaafaaaafaaaafaaaafaaaafaaaafaaaafaaaafaaaafaaaafaaaafaaaafaaaafaaaafaaaafaaaafaaaafaaaafaaaafaaaafaaaafaaaafaaaafaaaafaaaafaaaafaaaafaaaafaaaafaaaafaaaafaaaafaaaafaaaafaaaafaaaafaaaafaaaafaaaafaaaafaaaafaaaafaaaafaaaafaaaafaaaafaaaafaaaafaaaafaaaafaaaafaaaafaaaafaaaafaaaafaaaafaaaafaaaafaaaafaaaafaaaafaaaafaaaafaaaafaaaafaaaafaaaafaaaafaaaafaaaafaaaafaaaafaaaafaaaafaaaafaaaafaaaafaaaafaaaafaaaafaaaafaaaafaaaafaaaafaaaafaaaafaaaafaaaafaaaafaaaafaaaafaaaafaaaafaaaafaaaafaaaafaaaafaaaafaaaafaaaafaaaafaaaafaaaafaaaafaaaafaaaafaaaafaaaafaaaafaaaafaaaafaaaafaaaafaaaafaaaafaaaafaaaafaaaafaaaafaaaafaaaafaaaafaaaafaaaafaaaafaaaafaaaafaaaafaaaafaaaafaaaafaaaafaaaafaaaafaaaafaaaafaaaafaaaafaaaafaaaafaaaafaaaafaaaafaaaafaaaafaaaafaaaafaaaafaaaafaaaafaaaafaaaafaaaafaaaafaaaafaaaafaaaafaaaafaaaafaaaafaaaafaaaafaaaafaaaafaaaafaaaafaaaafaaaafaaaafaaaafaaaafaaaafaaaafaaaafaaaafaaaafaaaafaaaafaaaafaaaafaaaafaaaafaaaafaaaafaaaafaaaafaaaafaaaafaaaafaaaafaaaafaaaafaaaafaaaafaaaafaaaafaaaafaaaafaaaafaaaafaaaafaaaafaaaafaaaafaaaafaaaafaaaafaaaafaaaafaaaafaaaafaaaafaaaafaaaafaaaafaaaafaaaafaaaafaaaafaaaafaaaafaaaafaaaafaaaafaaaafaaaafaaaafaaaafaaaafaaaafaaaafaaaafaaaafaaaafaaaafaaaafaaaafaaaafaaaafaaaafaaaafaaaafaaaafaaaafaaaafaaaafaaaafaaaafaaaafaaaafaaaafaaaafaaaafaaaafaaaafaaaafaaaafaaaafaaaafaaaafaaaafaaaafaaaafaaaafaaaafaaaafaaaafaaaafaaaafaaaafaaaafaaaafaaaafaaaafaaaafaaaafaaaafaaaafaaaafaaaafaaaafaaaafaaaafaaaafaaaafaaaafaaaafaaaafaaaafaaaafaaaafaaaafaaaafaaaafaaaafaaaafaaaafaaaafaaaafaaaafaaaafaaaafaaaafaaaafaaaafaaaafaaaafaaaafaaaafaaaafaaaafaaaafaaaafaaaafaaaafaaaafaaaafaaaafaaaafaaaafaaaafaaaafaaaafaaaafaaaafaaaafaaaafaaaafaaaafaaaafaaaafaaaafaaaafaaaafaaaafaaaafaaaafaaaafaaaafaaaafaaaafaaaafaaaafaaaafaaaafaaaafaaaafaaaafaaaafaaaafaaaafaaaafaaaafaaaafaaaafaaaafaaaafaaaafaaaafaaaafaaaafaaaafaaaafaaaafaaaafaaaafaaaafaaaafaaaafaaaafaaaafaaaafaaaafaaaafaaaafaaaafaaaafaaaafaaaafaaaafaaaafaaaafaaaafaaaafaaaafaaaafaaaafaaaafaaaafaaaafaaaafaaaafaaaafaaaafaaaafaaaafaaaafaaaafaaaafaaaafaaaafaaaafaaaafaaaafaaaafaaaafaaaafaaaafaaaafaaaafaaaafaaaafaaaafaaaafaaaafaaaafaaaafaaaafaaaafaaaafaaaafaaaafaaaafaaaafaaaafaaaafaaaafaaaafaaaafaaaafaaaafaaaafaaaafaaaafaaaafaaaafaaaafaaaafaaaafaaaafaaaafaaaafaaaafaaaafaaaafaaaafaaaafaaaafaaaafaaaafaaaafaaaafaaaafaaaafaaaafaaaafaaaafaaaafaaaafaaaafaaaafaaaafaaaafaaaafaaaafaaaafaaaafaaaafaaaafaaaafaaaafaaaafaaaafaaaafaaaafaaaafaaaafaaaafaaaafaaaafaaaafaaaafaaaafaaaafaaaafaaaafaaaafaaaafaaaafaaaafaaaafaaaafaaaafaaaafaaaafaaaafaaaafaaaafaaaafaaaafaaaafaaaafaaaafaaaafaaaafaaaafaaaafaaaafaaaafaaaafaaaafaaaafaaaafaaaafaaaafaaaafaaaafaaaafaaaafaaaafaaaafaaaafaaaafaaaafaaaafaaaafaaaafaaaafaaaafaaaafaaaafaaaafaaaafaaaafaaaafaaaafaaaafaaaafaaaafaaaafaaaafaaaafaaaafaaaafaaaafaaaafaaaafaaaafaaaafaaaafaaaafaaaafaaaafaaaafaaaafaaaafaaaafaaaafaaaafaaaafaaaafaaaafaaaafaaaafaaaafaaaafaaaafaaaafaaaafaaaafaaaafaaaafaaaafaaaafaaaafaaaafaaaafaaaafaaaafaaaafaaaafaaaafaaaafaaaafaaaafaaaafaaaafaaaafaaaafaaaafaaaafaaaafaaaafaaaafaaaafaaaafaaaafaaaafaaaafaaaafaaaafaaaafaaaafaaaafaaaafaaaafaaaafaaaafaaaafaaaafaaaafaaaafaaaafaaaafaaaafaaaafaaaafaaaafaaaafaaaafaaaafaaaafaaaafaaaafaaaafaaaafaaaafaaaafaaaafaaaafaaaafaaaafaaaafaaaafaaaafaaaafaaaafaaaafaaaafaaaafaaaafaaaafaaaafaaaafaaaafaaaafaaaafaaaafaaaafaaaafaaaafaaaafaaaafaaaafaaaafaaaafaaaafaaaafaaaafaaaafaaaafaaaafaaaafaaaafaaaafaaaafaaaafaaaafaaaafaaaafaaaafaaaafaaaafaaaafaaaafaaaafaaaafaaaafaaaafaaaafaaaafaaaafaaaafaaaafaaaafaaaafaaaafaaaafaaaafaaaafaaaafaaaafaaaafaaaafaaaafaaaafaaaafaaaafaaaafaaaafaaaafaaaafaaaafaaaafaaaafaaaafaaaafaaaafaaaafaaaafaaaafaaaafaaaafaaaafaaaafaaaafaaaafaaaafaaaafaaaafaaaafaaaafaaaafaaaafaaaafaaaafaaaafaaaafaaaafaaaafaaaafaaaafaaaafaaaafaaaafaaaafaaaafaaaafaaaafaaaafaaaafaaaafaaaafaaaafaaaafaaaafaaaafaaaafaaaafaaaafaaaafaaaafaaaafaaaafaaaafaaaafaaaafaaaafaaaafaaaafaaaafaaaafaaaafaaaafaaaafaaaafaaaafaaaafaaaafaaaafaaaafaaaafaaaafaaaafaaaafaaaafaaaafaaaafaaaafaaaafaaaafaaaafaaaafaaaafaaaafaaaafaaaafaaaafaaaafaaaafaaaafaaaafaaaafaaaafaaaafaaaafaaaafaaaafaaaafaaaafaaaafaaaafaaaafaaaafaaaafaaaafaaaafaaaafaaaafaaaafaaaafaaaafaaaafaaaafaaaafaaaafaaaafaaaafaaaafaaaafaaaafaaaafaaaafaaaafaaaafaaaafaaaafaaaafaaaafaaaafaaaafaaaafaaaafaaaafaaaafaaaafaaaafaaaafaaaafaaaafaaaafaaaafaaaafaaaafaaaafaaaafaaaafaaaafaaaafaaaafaaaafaaaafaaaafaaaafaaaafaaaafaaaafaaaafaaaafaaaafaaaafaaaafaaaafaaaafaaaafaaaafaaaafaaaafaaaafaaaafaaaafaaaafaaaafaaaafaaaafaaaafaaaafaaaafaaaafaaaafaaaafaaaafaaaafaaaafaaaafaaaafaaaafaaaafaaaafaaaafaaaafaaaafaaaafaaaafaaaafaaaafaaaafaaaafaaaafaaaafaaaafaaaafaaaafaaaafaaaafaaaafaaaafaaaafaaaafaaaafaaaafaaaafaaaafaaaafaaaafaaaafaaaafaaaafaaaafaaaafaaaafaaaafaaaafaaaafaaaafaaaafaaaafaaaafaaaafaaaafaaaafaaaafaaaafaaaafaaaafaaaafaaaafaaaafaaaafaaaafaaaafaaaafaaaafaaaafaaaafaaaafaaaafaaaafaaaafaaaafaaaafaaaafaaaafaaaafaaaafaaaafaaaafaaaafaaaafaaaafaaaafaaaafaaaafaaaafaaaafaaaafaaaafaaaafaaaafaaaafaaaafaaaafaaaafaaaafaaaafaaaafaaaafaaaafaaaafaaaafaaaafaaaafaaaafaaaafaaaafaaaafaaaafaaaafaaaafaaaafaaaafaaaafaaaafaaaafaaaafaaaafaaaafaaaafaaaafaaaafaaaafaaaafaaaafaaaafaaaafaaaafaaaafaaaafaaaafaaaafaaaafaaaafaaaafaaaafaaaafaaaafaaaafaaaafaaaafaaaafaaaafaaaafaaaafaaaafaaaafaaaafaaaafaaaafaaaafaaaafaaaafaaaafaaaafaaaafaaaafaaaafaaaafaaaafaaaafaaaafaaaafaaaafaaaafaaaafaaaafaaaafaaaafaaaafaaaafaaaafaaaafaaaafaaaafaaaafaaaafaaaafaaaafaaaafaaaafaaaafaaaafaaaafaaaafaaaafaaaafaaaafaaaafaaaafaaaafaaaafaaaafaaaafaaaafaaaafaaaafaaaafaaaafaaaafaaaafaaaafaaaafaaaafaaaafaaaafaaaafaaaafaaaafaaaafaaaafaaaafaaaafaaaafaaaafaaaafaaaafaaaafaaaafaaaafaaaafaaaafaaaafaaaafaaaafaaaafaaaafaaaafaaaafaaaafaaaafaaaafaaaafaaaafaaaafaaaafaaaafaaaafaaaafaaaafaaaafaaaafaaaafaaaafaaaafaaaafaaaafaaaafaaaafaaaafaaaafaaaafaaaafaaaafaaaafaaaafaaaafaaaafaaaafaaaafaaaafaaaafaaaafaaaafaaaafaaaafaaaafaaaafaaaafaaaafaaaafaaaafaaaafaaaafaaaafaaaafaaaafaaaafaaaafaaaafaaaafaaaafaaaafaaaafaaaafaaaafaaaafaaaafaaaafaaaafaaaafaaaafaaaafaaaafaaaafaaaafaaaafaaaafaaaafaaaafaaaafaaaafaaaafaaaafaaaafaaaafaaaafaaaafaaaafaaaafaaaafaaaafaaaafaaaafaaaafaaaafaaaafaaaafaaaafaaaafaaaafaaaafaaaafaaaafaaaafaaaafaaaafaaaafaaaafaaaafaaaafaaaafaaaafaaaafaaaafaaaafaaaafaaaafaaaafaaaafaaaafaaaafaaaafaaaafaaaafaaaafaaaafaaaafaaaafaaaafaaaafaaaafaaaafaaaafaaaafaaaafaaaafaaaafaaaafaaaafaaaafaaaafaaaafaaaafaaaafaaaafaaaafaaaafaaaafaaaafaaaafaaaafaaaafaaaafaaaafaaaafaaaafaaaafaaaafaaaafaaaafaaaafaaaafaaaafaaaafaaaafaaaafaaaafaaaafaaaafaaaafaaaafaaaafaaaafaaaafaaaafaaaafaaaafaaaafaaaafaaaafaaaafaaaafaaaafaaaafaaaafaaaafaaaafaaaafaaaafaaaafaaaafaaaafaaaafaaaafaaaafaaaafaaaafaaaafaaaafaaaafaaaafaaaafaaaafaaaafaaaafaaaafaaaafaaaafaaaafaaaafaaaafaaaafaaaafaaaafaaaafaaaafaaaafaaaafaaaafaaaafaaaafaaaafaaaafaaaafaaaafaaaafaaaafaaaafaaaafaaaafaaaafaaaafaaaafaaaafaaaafaaaafaaaafaaaafaaaafaaaafaaaafaaaafaaaafaaaafaaaafaaaafaaaafaaaafaaaafaaaafaaaafaaaafaaaafaaaafaaaafaaaafaaaafaaaafaaaafaaaafaaaafaaaafaaaafaaaafaaaafaaaafaaaafaaaafaaaafaaaafaaaafaaaafaaaafaaaafaaaafaaaafaaaafaaaafaaaafaaaafaaaafaaaafaaaafaaaafaaaafaaaafaaaafaaaafaaaafaaaafaaaafaaaafaaaafaaaafaaaafaaaafaaaafaaaafaaaafaaaafaaaafaaaafaaaafaaaafaaaafaaaafaaaafaaaafaaaafaaaafaaaafaaaafaaaafaaaafaaaafaaaafaaaafaaaafaaaafaaaafaaaafaaaafaaaafaaaafaaaafaaaafaaaafaaaafaaaafaaaafaaaafaaaafaaaafaaaafaaaafaaaafaaaafaaaafaaaafaaaafaaaafaaaafaaaafaaaafaaaafaaaafaaaafaaaafaaaafaaaafaaaafaaaafaaaafaaaafaaaafaaaafaaaafaaaafaaaafaaaafaaaafaaaafaaaafaaaafaaaafaaaafaaaafaaaafaaaafaaaafaaaafaaaafaaaafaaaafaaaafaaaafaaaafaaaafaaaafaaaafaaaafaaaafaaaafaaaafaaaafaaaafaaaafaaaafaaaafaaaafaaaafaaaafaaaafaaaafaaaafaaaafaaaafaaaafaaaafaaaafaaaafaaaafaaaafaaaafaaaafaaaafaaaafaaaafaaaafaaaafaaaafaaaafaaaafaaaafaaaafaaaafaaaafaaaafaaaafaaaafaaaafaaaafaaaafaaaafaaaafaaaafaaaafaaaafaaaafaaaafaaaafaaaafaaaafaaaafaaaafaaaafaaaafaaaafaaaafaaaafaaaafaaaafaaaafaaaafaaaafaaaafaaaafaaaafaaaafaaaafaaaafaaaafaaaafaaaafaaaafaaaafaaaafaaaafaaaafaaaafaaaafaaaafaaaafaaaafaaaafaaaafaaaafaaaafaaaafaaaafaaaafaaaafaaaafaaaafaaaafaaaafaaaafaaaafaaaafaaaafaaaafaaaafaaaafaaaafaaaafaaaafaaaafaaaafaaaafaaaafaaaafaaaafaaaafaaaafaaaafaaaafaaaafaaaafaaaafaaaafaaaafaaaafaaaafaaaafaaaafaaaafaaaafaaaafaaaafaaaafaaaafaaaafaaaafaaaafaaaafaaaafaaaafaaaafaaaafaaaafaaaafaaaafaaaafaaaafaaaafaaaafaaaafaaaafaaaafaaaafaaaafaaaafaaaafaaaafaaaafaaaafaaaafaaaafaaaafaaaafaaaafaaaafaaaafaaaafaaaafaaaafaaaafaaaafaaaafaaaafaaaafaaaafaaaafaaaafaaaafaaaafaaaafaaaafaaaafaaaafaaaafaaaafaaaafaaaafaaaafaaaafaaaafaaaafaaaafaaaafaaaafaaaafaaaafaaaafaaaafaaaafaaaafaaaafaaaafaaaafaaaafaaaafaaaafaaaafaaaafaaaafaaaafaaaafaaaafaaaafaaaafaaaafaaaafaaaafaaaafaaaafaaaafaaaafaaaafaaaafaaaafaaaafaaaafaaaafaaaafaaaafaaaafaaaafaaaafaaaafaaaafaaaafaaaafaaaafaaaafaaaafaaaafaaaafaaaafaaaafaaaafaaaafaaaafaaaafaaaafaaaafaaaafaaaafaaaafaaaafaaaafaaaafaaaafaaaafaaaafaaaafaaaafaaaafaaaafaaaafaaaafaaaafaaaafaaaafaaaafaaaafaaaafaaaafaaaafaaaafaaaafaaaafaaaafaaaafaaaafaaaafaaaafaaaafaaaafaaaafaaaafaaaafaaaafaaaafaaaafaaaafaaaafaaaafaaaafaaaafaaaafaaaafaaaafaaaafaaaafaaaafaaaafaaaafaaaafaaaafaaaafaaaafaaaafaaaafaaaafaaaafaaaafaaaafaaaafaaaafaaaafaaaafaaaafaaaafaaaafaaaafaaaafaaaafaaaafaaaafaaaafaaaafaaaafaaaafaaaafaaaafaaaafaaaafaaaafaaaafaaaafaaaafaaaafaaaafaaaafaaaafaaaafaaaafaaaafaaaafaaaafaaaafaaaafaaaafaaaafaaaafaaaafaaaafaaaafaaaafaaaafaaaafaaaafaaaafaaaafaaaafaaaafaaaafaaaafaaaafaaaafaaaafaaaafaaaafaaaafaaaafaaaafaaaafaaaafaaaafaaaafaaaafaaaafaaaafaaaafaaaafaaaafaaaafaaaafaaaafaaaafaaaafaaaafaaaafaaaafaaaafaaaafaaaafaaaafaaaafaaaafaaaafaaaafaaaafaaaafaaaafaaaafaaaafaaaafaaaafaaaafaaaafaaaafaaaafaaaafaaaafaaaafaaaafaaaafaaaafaaaafaaaafaaaafaaaafaaaafaaaafaaaafaaaafaaaafaaaafaaaafaaaafaaaafaaaafaaaafaaaafaaaafaaaafaaaafaaaafaaaafaaaafaaaafaaaafaaaafaaaafaaaafaaaafaaaafaaaafaaaafaaaafaaaafaaaafaaaafaaaafaaaafaaaafaaaafaaaafaaaafaaaafaaaafaaaafaaaafaaaafaaaafaaaafaaaafaaaafaaaafaaaafaaaafaaaafaaaafaaaafaaaafaaaafaaaafaaaafaaaafaaaafaaaafaaaafaaaafaaaafaaaafaaaafaaaafaaaafaaaafaaaafaaaafaaaafaaaafaaaafaaaafaaaafaaaafaaaafaaaafaaaafaaaafaaaafaaaafaaaafaaaafaaaafaaaafaaaafaaaafaaaafaaaafaaaafaaaafaaaafaaaafaaaafaaaafaaaafaaaafaaaafaaaafaaaafaaaafaaaafaaaafaaaafaaaafaaaafaaaafaaaafaaaafaaaafaaaafaaaafaaaafaaaafaaaafaaaafaaaafaaaafaaaafaaaafaaaafaaaafaaaafaaaafaaaafaaaafaaaafaaaafaaaafaaaafaaaafaaaafaaaafaaaafaaaafaaaafaaaafaaaafaaaafaaaafaaaafaaaafaaaafaaaafaaaafaaaafaaaafaaaafaaaafaaaafaaaafaaaafaaaafaaaafaaaafaaaafaaaafaaaafaaaafaaaafaaaafaaaafaaaafaaaafaaaafaaaafaaaafaaaafaaaafaaaafaaaafaaaafaaaafaaaafaaaafaaaafaaaafaaaafaaaafaaaafaaaafaaaafaaaafaaaafaaaafaaaafaaaafaaaafaaaafaaaafaaaafaaaafaaaafaaaafaaaafaaaafaaaafaaaafaaaafaaaafaaaafaaaafaaaafaaaafaaaafaaaafaaaafaaaafaaaafaaaafaaaafaaaafaaaafaaaafaaaafaaaafaaaafaaaafaaaafaaaafaaaafaaaafaaaafaaaafaaaafaaaafaaaafaaaafaaaafaaaafaaaafaaaafaaaafaaaafaaaafaaaafaaaafaaaafaaaafaaaafaaaafaaaafaaaafaaaafaaaafaaaafaaaafaaaafaaaafaaaafaaaafaaaafaaaafaaaafaaaafaaaafaaaafaaaafaaaafaaaafaaaafaaaafaaaafaaaafaaaafaaaafaaaafaaaafaaaafaaaafaaaafaaaafaaaafaaaafaaaafaaaafaaaafaaaafaaaafaaaafaaaafaaaafaaaafaaaafaaaafaaaafaaaafaaaafaaaafaaaafaaaafaaaafaaaafaaaafaaaafaaaafaaaafaaaafaaaafaaaafaaaafaaaafaaaafaaaafaaaafaaaafaaaafaaaafaaaafaaaafaaaafaaaafaaaafaaaafaaaafaaaafaaaafaaaafaaaafaaaafaaaafaaaafaaaafaaaafaaaafaaaafaaaafaaaafaaaafaaaafaaaafaaaafaaaafaaaafaaaafaaaafaaaafaaaafaaaafaaaafaaaafaaaafaaaafaaaafaaaafaaaafaaaafaaaafaaaafaaaafaaaafaaaafaaaafaaaafaaaafaaaafaaaafaaaafaaaafaaaafaaaafaaaafaaaafaaaafaaaafaaaafaaaafaaaafaaaafaaaafaaaafaaaafaaaafaaaafaaaafaaaafaaaafaaaafaaaafaaaafaaaafaaaafaaaafaaaafaaaafaaaafaaaafaaaafaaaafaaaafaaaafaaaafaaaafaaaafaaaafaaaafaaaafaaaafaaaafaaaafaaaafaaaafaaaafaaaafaaaafaaaafaaaafaaaafaaaafaaaafaaaafaaaafaaaafaaaafaaaafaaaafaaaafaaaafaaaafaaaafaaaafaaaafaaaafaaaafaaaafaaaafaaaafaaaafaaaafaaaafaaaafaaaafaaaafaaaafaaaafaaaafaaaafaaaafaaaafaaaafaaaafaaaafaaaafaaaafaaaafaaaafaaaafaaaafaaaafaaaafaaaafaaaafaaaafaaaafaaaafaaaafaaaafaaaafaaaafaaaafaaaafaaaafaaaafaaaafaaaafaaaafaaaafaaaafaaaafaaaafaaaafaaaafaaaafaaaafaaaafaaaafaaaafaaaafaaaafaaaafaaaafaaaafaaaafaaaafaaaafaaaafaaaafaaaafaaaafaaaafaaaafaaaafaaaafaaaafaaaafaaaafaaaafaaaafaaaafaaaafaaaafaaaafaaaafaaaafaaaafaaaafaaaafaaaafaaaafaaaafaaaafaaaafaaaafaaaafaaaafaaaafaaaafaaaafaaaafaaaafaaaafaaaafaaaafaaaafaaaafaaaafaaaafaaaafaaaafaaaafaaaafaaaafaaaafaaaafaaaafaaaafaaaafaaaafaaaafaaaafaaaafaaaafaaaafaaaafaaaafaaaafaaaafaaaafaaaafaaaafaaaafaaaafaaaafaaaafaaaafaaaafaaaafaaaafaaaafaaaafaaaafaaaafaaaafaaaafaaaafaaaafaaaafaaaafaaaafaaaafaaaafaaaafaaaafaaaafaaaafaaaafaaaafaaaafaaaafaaaafaaaafaaaafaaaafaaaafaaaafaaaafaaaafaaaafaaaafaaaafaaaafaaaafaaaafaaaafaaaafaaaafaaaafaaaafaaaafaaaafaaaafaaaafaaaafaaaafaaaafaaaafaaaafaaaafaaaafaaaafaaaafaaaafaaaafaaaafaaaafaaaafaaaafaaaafaaaafaaaafaaaafaaaafaaaafaaaafaaaafaaaafaaaafaaaafaaaafaaaafaaaafaaaafaaaafaaaafaaaafaaaafaaaafaaaafaaaafaaaafaaaafaaaafaaaafaaaafaaaafaaaafaaaafaaaafaaaafaaaafaaaafaaaafaaaafaaaafaaaafaaaafaaaafaaaafaaaafaaaafaaaafaaaafaaaafaaaafaaaafaaaafaaaafaaaafaaaafaaaafaaaafaaaafaaaafaaaafaaaafaaaafaaaafaaaafaaaafaaaafaaaafaaaafaaaafaaaafaaaafaaaafaaaafaaaafaaaafaaaafaaaafaaaafaaaafaaaafaaaafaaaafaaaafaaaafaaaafaaaafaaaafaaaafaaaafaaaafaaaafaaaafaaaafaaaafaaaafaaaafaaaafaaaafaaaafaaaafaaaafaaaafaaaafaaaafaaaafaaaafaaaafaaaafaaaafaaaafaaaafaaaafaaaafaaaafaaaafaaaafaaaafaaaafaaaafaaaafaaaafaaaafaaaafaaaafaaaafaaaafaaaafaaaafaaaafaaaafaaaafaaaafaaaafaaaafaaaafaaaafaaaafaaaafaaaafaaaafaaaafaaaafaaaafaaaafaaaafaaaafaaaafaaaafaaaafaaaafaaaafaaaafaaaafaaaafaaaafaaaafaaaafaaaafaaaafaaaafaaaafaaaafaaaafaaaafaaaafaaaafaaaafaaaafaaaafaaaafaaaafaaaafaaaafaaaafaaaafaaaafaaaafaaaafaaaafaaaafaaaafaaaafaaaafaaaafaaaafaaaafaaaafaaaafaaaafaaaafaaaafaaaafaaaafaaaafaaaafaaaafaaaafaaaafaaaafaaaafaaaafaaaafaaaafaaaafaaaafaaaafaaaafaaaafaaaafaaaafaaaafaaaafaaaafaaaafaaaafaaaafaaaafaaaafaaaafaaaafaaaafaaaafaaaafaaaafaaaafaaaafaaaafaaaafaaaafaaaafaaaafaaaafaaaafaaaafaaaafaaaafaaaafaaaafaaaafaaaafaaaafaaaafaaaafaaaafaaaafaaaafaaaafaaaafaaaafaaaafaaaafaaaafaaaafaaaafaaaafaaaafaaaafaaaafaaaafaaaafaaaafaaaafaaaafaaaafaaaafaaaafaaaafaaaafaaaafaaaafaaaafaaaafaaaafaaaafaaaafaaaafaaaafaaaafaaaafaaaafaaaafaaaafaaaafaaaafaaaafaaaafaaaafaaaafaaaafaaaafaaaafaaaafaaaafaaaafaaaafaaaafaaaafaaaafaaaafaaaafaaaafaaaafaaaafaaaafaaaafaaaafaaaafaaaafaaaafaaaafaaaafaaaafaaaafaaaafaaaafaaaafaaaafaaaafaaaafaaaafaaaafaaaafaaaafaaaafaaaafaaaafaaaafaaaafaaaafaaaafaaaafaaaafaaaafaaaafaaaafaaaafaaaafaaaafaaaafaaaafaaaafaaaafaaaafaaaafaaaafaaaafaaaafaaaafaaaafaaaafaaaafaaaafaaaafaaaafaaaafaaaafaaaafaaaafaaaafaaaafaaaafaaaafaaaafaaaafaaaafaaaafaaaafaaaafaaaafaaaafaaaafaaaafaaaafaaaafaaaafaaaafaaaafaaaafaaaafaaaafaaaafaaaafaaaafaaaafaaaafaaaafaaaafaaaafaaaafaaaafaaaafaaaafaaaafaaaafaaaafaaaafaaaafaaaafaaaafaaaafaaaafaaaafaaaafaaaafaaaafaaaafaaaafaaaafaaaafaaaafaaaafaaaafaaaafaaaafaaaafaaaafaaaafaaaafaaaafaaaafaaaafaaaafaaaafaaaafaaaafaaaafaaaafaaaafaaaafaaaafaaaafaaaafaaaafaaaafaaaafaaaafaaaafaaaafaaaafaaaafaaaafaaaafaaaafaaaafaaaafaaaafaaaafaaaafaaaafaaaafaaaafaaaafaaaafaaaafaaaafaaaafaaaafaaaafaaaafaaaafaaaafaaaafaaaafaaaafaaaafaaaafaaaafaaaafaaaafaaaafaaaafaaaafaaaafaaaafaaaafaaaafaaaafaaaafaaaafaaaafaaaafaaaafaaaafaaaafaaaafaaaafaaaafaaaafaaaafaaaafaaaafaaaafaaaafaaaafaaaafaaaafaaaafaaaafaaaafaaaafaaaafaaaafaaaafaaaafaaaafaaaafaaaafaaaafaaaafaaaafaaaafaaaafaaaafaaaafaaaafaaaafaaaafaaaafaaaafaaaafaaaafaaaafaaaafaaaafaaaafaaaafaaaafaaaafaaaafaaaafaaaafaaaafaaaafaaaafaaaafaaaafaaaafaaaafaaaafaaaafaaaafaaaafaaaafaaaafaaaafaaaafaaaafaaaafaaaafaaaafaaaafaaaafaaaafaaaafaaaafaaaafaaaafaaaafaaaafaaaafaaaafaaaafaaaafaaaafaaaafaaaafaaaafaaaafaaaafaaaafaaaafaaaafaaaafaaaafaaaafaaaafaaaafaaaafaaaafaaaafaaaafaaaafaaaafaaaafaaaafaaaafaaaafaaaafaaaafaaaafaaaafaaaafaaaafaaaafaaaafaaaafaaaafaaaafaaaafaaaafaaaafaaaafaaaafaaaafaaaafaaaafaaaafaaaafaaaafaaaafaaaafaaaafaaaafaaaafaaaafaaaafaaaafaaaafaaaafaaaafaaaafaaaafaaaafaaaafaaaafaaaafaaaafaaaafaaaafaaaafaaaafaaaafaaaafaaaafaaaafaaaafaaaafaaaafaaaafaaaafaaaafaaaafaaaafaaaafaaaafaaaafaaaafaaaafaaaafaaaafaaaafaaaafaaaafaaaafaaaafaaaafaaaafaaaafaaaafaaaafaaaafaaaafaaaafaaaafaaaafaaaafaaaafaaaafaaaafaaaafaaaafaaaafaaaafaaaafaaaafaaaafaaaafaaaafaaaafaaaafaaaafaaaafaaaafaaaafaaaafaaaafaaaafaaaafaaaafaaaafaaaafaaaafaaaafaaaafaaaafaaaafaaaafaaaafaaaafaaaafaaaafaaaafaaaafaaaafaaaafaaaafaaaafaaaafaaaafaaaafaaaafaaaafaaaafaaaafaaaafaaaafaaaafaaaafaaaafaaaafaaaafaaaafaaaafaaaafaaaafaaaafaaaafaaaafaaaafaaaafaaaafaaaafaaaafaaaafaaaafaaaafaaaafaaaafaaaafaaaafaaaafaaaafaaaafaaaafaaaafaaaafaaaafaaaafaaaafaaaafaaaafaaaafaaaafaaaafaaaafaaaafaaaafaaaafaaaafaaaafaaaafaaaafaaaafaaaafaaaafaaaafaaaafaaaafaaaafaaaafaaaafaaaafaaaafaaaafaaaafaaaafaaaafaaaafaaaafaaaafaaaafaaaafaaaafaaaafaaaafaaaafaaaafaaaafaaaafaaaafaaaafaaaafaaaafaaaafaaaafaaaafaaaafaaaafaaaafaaaafaaaafaaaafaaaafaaaafaaaafaaaafaaaafaaaafaaaafaaaafaaaafaaaafaaaafaaaafaaaafaaaafaaaafaaaafaaaafaaaafaaaafaaaafaaaafaaaafaaaafaaaafaaaafaaaafaaaafaaaafaaaafaaaafaaaafaaaafaaaafaaaafaaaafaaaafaaaafaaaafaaaafaaaafaaaafaaaafaaaafaaaafaaaafaaaafaaaafaaaafaaaafaaaafaaaafaaaafaaaafaaaafaaaafaaaafaaaafaaaafaaaafaaaafaaaafaaaafaaaafaaaafaaaafaaaafaaaafaaaafaaaafaaaafaaaafaaaafaaaafaaaafaaaafaaaafaaaafaaaafaaaafaaaafaaaafaaaafaaaafaaaafaaaafaaaafaaaafaaaafaaaafaaaafaaaafaaaafaaaafaaaafaaaafaaaafaaaafaaaafaaaafaaaafaaaafaaaafaaaafaaaafaaaafaaaafaaaafaaaafaaaafaaaafaaaafaaaafaaaafaaaafaaaafaaaafaaaafaaaafaaaafaaaafaaaafaaaafaaaafaaaafaaaafaaaafaaaafaaaafaaaafaaaafaaaafaaaafaaaafaaaafaaaafaaaafaaaafaaaafaaaafaaaafaaaafaaaafaaaafaaaafaaaafaaaafaaaafaaaafaaaafaaaafaaaafaaaafaaaafaaaafaaaafaaaafaaaafaaaafaaaafaaaafaaaafaaaafaaaafaaaafaaaafaaaafaaaafaaaafaaaafaaaafaaaafaaaafaaaafaaaafaaaafaaaafaaaafaaaafaaaafaaaafaaaafaaaafaaaafaaaafaaaafaaaafaaaafaaaafaaaafaaaafaaaafaaaafaaaafaaaafaaaafaaaafaaaafaaaafaaaafaaaafaaaafaaaafaaaafaaaafaaaafaaaafaaaafaaaafaaaafaaaafaaaafaaaafaaaafaaaafaaaafaaaafaaaafaaaafaaaafaaaafaaaafaaaafaaaafaaaafaaaafaaaafaaaafaaaafaaaafaaaafaaaafaaaafaaaafaaaafaaaafaaaafaaaafaaaafaaaafaaaafaaaafaaaafaaaafaaaafaaaafaaaafaaaafaaaafaaaafaaaafaaaafaaaafaaaafaaaafaaaafaaaafaaaafaaaafaaaafaaaafaaaafaaaafaaaafaaaafaaaafaaaafaaaafaaaafaaaafaaaafaaaafaaaafaaaafaaaafaaaafaaaafaaaafaaaafaaaafaaaafaaaafaaaafaaaafaaaafaaaafaaaafaaaafaaaafaaaafaaaafaaaafaaaafaaaafaaaafaaaafaaaafaaaafaaaafaaaafaaaafaaaafaaaafaaaafaaaafaaaafaaaafaaaafaaaafaaaafaaaafaaaafaaaafaaaafaaaafaaaafaaaafaaaafaaaafaaaafaaaafaaaafaaaafaaaafaaaafaaaafaaaafaaaafaaaafaaaafaaaafaaaafaaaafaaaafaaaafaaaafaaaafaaaafaaaafaaaafaaaafaaaafaaaafaaaafaaaafaaaafaaaafaaaafaaaafaaaafaaaafaaaafaaaafaaaafaaaafaaaafaaaafaaaafaaaafaaaafaaaafaaaafaaaafaaaafaaaafaaaafaaaafaaaafaaaafaaaafaaaafaaaafaaaafaaaafaaaafaaaafaaaafaaaafaaaafaaaafaaaafaaaafaaaafaaaafaaaafaaaafaaaafaaaafaaaafaaaafaaaafaaaafaaaafaaaafaaaafaaaafaaaafaaaafaaaafaaaafaaaafaaaafaaaafaaaafaaaafaaaafaaaafaaaafaaaafaaaafaaaafaaaafaaaafaaaafaaaafaaaafaaaafaaaafaaaafaaaafaaaafaaaafaaaafaaaafaaaafaaaafaaaafaaaafaaaafaaaafaaaafaaaafaaaafaaaafaaaafaaaafaaaafaaaafaaaafaaaafaaaafaaaafaaaafaaaafaaaafaaaafaaaafaaaafaaaafaaaafaaaafaaaafaaaafaaaafaaaafaaaafaaaafaaaafaaaafaaaafaaaafaaaafaaaafaaaafaaaafaaaafaaaafaaaafaaaafaaaafaaaafaaaafaaaafaaaafaaaafaaaafaaaafaaaafaaaafaaaafaaaafaaaafaaaafaaaafaaaafaaaafaaaafaaaafaaaafaaaafaaaafaaaafaaaafaaaafaaaafaaaafaaaafaaaafaaaafaaaafaaaafaaaafaaaafaaaafaaaafaaaafaaaafaaaafaaaafaaaafaaaafaaaafaaaafaaaafaaaafaaaafaaaafaaaafaaaafaaaafaaaafaaaafaaaafaaaafaaaafaaaafaaaafaaaafaaaafaaaafaaaafaaaafaaaafaaaafaaaafaaaafaaaafaaaafaaaafaaaafaaaafaaaafaaaafaaaafaaaafaaaafaaaafaaaafaaaafaaaafaaaafaaaafaaaafaaaafaaaafaaaafaaaafaaaafaaaafaaaafaaaafaaaafaaaafaaaafaaaafaaaafaaaafaaaafaaaafaaaafaaaafaaaafaaaafaaaafaaaafaaaafaaaafaaaafaaaafaaaafaaaafaaaafaaaafaaaafaaaafaaaafaaaafaaaafaaaafaaaafaaaafaaaafaaaafaaaafaaaafaaaafaaaafaaaafaaaafaaaafaaaafaaaafaaaafaaaafaaaafaaaafaaaafaaaafaaaafaaaafaaaafaaaafaaaafaaaafaaaafaaaafaaaafaaaafaaaafaaaafaaaafaaaafaaaafaaaafaaaafaaaafaaaafaaaafaaaafaaaafaaaafaaaafaaaafaaaafaaaafaaaafaaaafaaaafaaaafaaaafaaaafaaaafaaaafaaaafaaaafaaaafaaaafaaaafaaaafaaaafaaaafaaaafaaaafaaaafaaaafaaaafaaaafaaaafaaaafaaaafaaaafaaaafaaaafaaaafaaaafaaaafaaaafaaaafaaaafaaaafaaaafaaaafaaaafaaaafaaaafaaaafaaaafaaaafaaaafaaaafaaaafaaaafaaaafaaaafaaaafaaaafaaaafaaaafaaaafaaaafaaaafaaaafaaaafaaaafaaaafaaaafaaaafaaaafaaaafaaaafaaaafaaaafaaaafaaaafaaaafaaaafaaaafaaaafaaaafaaaafaaaafaaaafaaaafaaaafaaaafaaaafaaaafaaaafaaaafaaaafaaaafaaaafaaaafaaaafaaaafaaaafaaaafaaaafaaaafaaaafaaaafaaaafaaaafaaaafaaaafaaaafaaaafaaaafaaaafaaaafaaaafaaaafaaaafaaaafaaaafaaaafaaaafaaaafaaaafaaaafaaaafaaaafaaaafaaaafaaaafaaaafaaaafaaaafaaaafaaaafaaaafaaaafaaaafaaaafaaaafaaaafaaaafaaaafaaaafaaaafaaaafaaaafaaaafaaaafaaaafaaaafaaaafaaaafaaaafaaaafaaaafaaaafaaaafaaaafaaaafaaaafaaaafaaaafaaaafaaaafaaaafaaaafaaaafaaaafaaaafaaaafaaaafaaaafaaaafaaaafaaaafaaaafaaaafaaaafaaaafaaaafaaaafaaaafaaaafaaaafaaaafaaaafaaaafaaaafaaaafaaaafaaaafaaaafaaaafaaaafaaaafaaaafaaaafaaaafaaaafaaaafaaaafaaaafaaaafaaaafaaaafaaaafaaaafaaaafaaaafaaaafaaaafaaaafaaaafaaaafaaaafaaaafaaaafaaaafaaaafaaaafaaaafaaaafaaaafaaaafaaaafaaaafaaaafaaaafaaaafaaaafaaaafaaaafaaaafaaaafaaaafaaaafaaaafaaaafaaaafaaaafaaaafaaaafaaaafaaaafaaaafaaaafaaaafaaaafaaaafaaaafaaaafaaaafaaaafaaaafaaaafaaaafaaaafaaaafaaaafaaaafaaaafaaaafaaaafaaaafaaaafaaaafaaaafaaaafaaaafaaaafaaaafaaaafaaaafaaaafaaaafaaaafaaaafaaaafaaaafaaaafaaaafaaaafaaaafaaaafaaaafaaaafaaaafaaaafaaaafaaaafaaaafaaaafaaaafaaaafaaaafaaaafaaaafaaaafaaaafaaaafaaaafaaaafaaaafaaaafaaaafaaaafaaaafaaaafaaaafaaaafaaaafaaaafaaaafaaaafaaaafaaaafaaaafaaaafaaaafaaaafaaaafaaaafaaaafaaaafaaaafaaaafaaaafaaaafaaaafaaaafaaaafaaaafaaaafaaaafaaaafaaaafaaaafaaaafaaaafaaaafaaaafaaaafaaaafaaaafaaaafaaaafaaaafaaaafaaaafaaaafaaaafaaaafaaaafaaaafaaaafaaaafaaaafaaaafaaaafaaaafaaaafaaaafaaaafaaaafaaaafaaaafaaaafaaaafaaaafaaaafaaaafaaaafaaaafaaaafaaaafaaaafaaaafaaaafaaaafaaaafaaaafaaaafaaaafaaaafaaaafaaaafaaaafaaaafaaaafaaaafaaaafaaaafaaaafaaaafaaaafaaaafaaaafaaaafaaaafaaaafaaaafaaaafaaaafaaaafaaaafaaaafaaaafaaaafaaaafaaaafaaaafaaaafaaaafaaaafaaaafaaaafaaaafaaaafaaaafaaaafaaaafaaaafaaaafaaaafaaaafaaaafaaaafaaaafaaaafaaaafaaaafaaaafaaaafaaaafaaaafaaaafaaaafaaaafaaaafaaaafaaaafaaaafaaaafaaaafaaaafaaaafaaaafaaaafaaaafaaaafaaaafaaaafaaaafaaaafaaaafaaaafaaaafaaaafaaaafaaaafaaaafaaaafaaaafaaaafaaaafaaaafaaaafaaaafaaaafaaaafaaaafaaaafaaaafaaaafaaaafaaaafaaaafaaaafaaaafaaaafaaaafaaaafaaaafaaaafaaaafaaaafaaaafaaaafaaaafaaaafaaaafaaaafaaaafaaaafaaaafaaaafaaaafaaaafaaaafaaaafaaaafaaaafaaaafaaaafaaaafaaaafaaaafaaaafaaaafaaaafaaaafaaaafaaaafaaaafaaaafaaaafaaaafaaaafaaaafaaaafaaaafaaaafaaaafaaaafaaaafaaaafaaaafaaaafaaaafaaaafaaaafaaaafaaaafaaaafaaaafaaaafaaaafaaaafaaaafaaaafaaaafaaaafaaaafaaaafaaaafaaaafaaaafaaaafaaaafaaaafaaaafaaaafaaaafaaaafaaaafaaaafaaaafaaaafaaaafaaaafaaaafaaaafaaaafaaaafaaaafaaaafaaaafaaaafaaaafaaaafaaaafaaaafaaaafaaaafaaaafaaaafaaaafaaaafaaaafaaaafaaaafaaaafaaaafaaaafaaaafaaaafaaaafaaaafaaaafaaaafaaaafaaaafaaaafaaaafaaaafaaaafaaaafaaaafaaaafaaaafaaaafaaaafaaaafaaaafaaaafaaaafaaaafaaaafaaaafaaaafaaaafaaaafaaaafaaaafaaaafaaaafaaaafaaaafaaaafaaaafaaaafaaaafaaaafaaaafaaaafaaaafaaaafaaaafaaaafaaaafaaaafaaaafaaaafaaaafaaaafaaaafaaaafaaaafaaaafaaaafaaaafaaaafaaaafaaaafaaaafaaaafaaaafaaaafaaaafaaaafaaaafaaaafaaaafaaaafaaaafaaaafaaaafaaaafaaaafaaaafaaaafaaaafaaaafaaaafaaaafaaaafaaaafaaaafaaaafaaaafaaaafaaaafaaaafaaaafaaaafaaaafaaaafaaaafaaaafaaaafaaaafaaaafaaaafaaaafaaaafaaaafaaaafaaaafaaaafaaaafaaaafaaaafaaaafaaaafaaaafaaaafaaaafaaaafaaaafaaaafaaaafaaaafaaaafaaaafaaaafaaaafaaaafaaaafaaaafaaaafaaaafaaaafaaaafaaaafaaaafaaaafaaaafaaaafaaaafaaaafaaaafaaaafaaaafaaaafaaaafaaaafaaaafaaaafaaaafaaaafaaaafaaaafaaaafaaaafaaaafaaaafaaaafaaaafaaaafaaaafaaaafaaaafaaaafaaaafaaaafaaaafaaaafaaaafaaaafaaaafaaaafaaaafaaaafaaaafaaaafaaaafaaaafaaaafaaaafaaaafaaaafaaaafaaaafaaaafaaaafaaaafaaaafaaaafaaaafaaaafaaaafaaaafaaaafaaaafaaaafaaaafaaaafaaaafaaaafaaaafaaaafaaaafaaaafaaaafaaaafaaaafaaaafaaaafaaaafaaaafaaaafaaaafaaaafaaaafaaaafaaaafaaaafaaaafaaaafaaaafaaaafaaaafaaaafaaaafaaaafaaaafaaaafaaaafaaaafaaaafaaaafaaaafaaaafaaaafaaaafaaaafaaaafaaaafaaaafaaaafaaaafaaaafaaaafaaaafaaaafaaaafaaaafaaaafaaaafaaaafaaaafaaaafaaaafaaaafaaaafaaaafaaaafaaaafaaaafaaaafaaaafaaaafaaaafaaaafaaaafaaaafaaaafaaaafaaaafaaaafaaaafaaaafaaaafaaaafaaaafaaaafaaaafaaaafaaaafaaaafaaaafaaaafaaaafaaaafaaaafaaaafaaaafaaaafaaaafaaaafaaaafaaaafaaaafaaaafaaaafaaaafaaaafaaaafaaaafaaaafaaaafaaaafaaaafaaaafaaaafaaaafaaaafaaaafaaaafaaaafaaaafaaaafaaaafaaaafaaaafaaaafaaaafaaaafaaaafaaaafaaaafaaaafaaaafaaaafaaaafaaaafaaaafaaaafaaaafaaaafaaaafaaaafaaaafaaaafaaaafaaaafaaaafaaaafaaaafaaaafaaaafaaaafaaaafaaaafaaaafaaaafaaaafaaaafaaaafaaaafaaaafaaaafaaaafaaaafaaaafaaaafaaaafaaaafaaaafaaaafaaaafaaaafaaaafaaaafaaaafaaaafaaaafaaaafaaaafaaaafaaaafaaaafaaaafaaaafaaaafaaaafaaaafaaaafaaaafaaaafaaaafaaaafaaaafaaaafaaaafaaaafaaaafaaaafaaaafaaaafaaaafaaaafaaaafaaaafaaaafaaaafaaaafaaaafaaaafaaaafaaaafaaaafaaaafaaaafaaaafaaaafaaaafaaaafaaaafaaaafaaaafaaaafaaaafaaaafaaaafaaaafaaaafaaaafaaaafaaaafaaaafaaaafaaaafaaaafaaaafaaaafaaaafaaaafaaaafaaaafaaaafaaaafaaaafaaaafaaaafaaaafaaaafaaaafaaaafaaaafaaaafaaaafaaaafaaaafaaaafaaaafaaaafaaaafaaaafaaaafaaaafaaaafaaaafaaaafaaaafaaaafaaaafaaaafaaaafaaaafaaaafaaaafaaaafaaaafaaaafaaaafaaaafaaaafaaaafaaaafaaaafaaaafaaaafaaaafaaaafaaaafaaaafaaaafaaaafaaaafaaaafaaaafaaaafaaaafaaaafaaaafaaaafaaaafaaaafaaaafaaaafaaaafaaaafaaaafaaaafaaaafaaaafaaaafaaaafaaaafaaaafaaaafaaaafaaaafaaaafaaaafaaaafaaaafaaaafaaaafaaaafaaaafaaaafaaaafaaaafaaaafaaaafaaaafaaaafaaaafaaaafaaaafaaaafaaaafaaaafaaaafaaaafaaaafaaaafaaaafaaaafaaaafaaaafaaaafaaaafaaaafaaaafaaaafaaaafaaaafaaaafaaaafaaaafaaaafaaaafaaaafaaaafaaaafaaaafaaaafaaaafaaaafaaaafaaaafaaaafaaaafaaaafaaaafaaaafaaaafaaaafaaaafaaaafaaaafaaaafaaaafaaaafaaaafaaaafaaaafaaaafaaaafaaaafaaaafaaaafaaaafaaaafaaaafaaaafaaaafaaaafaaaafaaaafaaaafaaaafaaaafaaaafaaaafaaaafaaaafaaaafaaaafaaaafaaaafaaaafaaaafaaaafaaaafaaaafaaaafaaaafaaaafaaaafaaaafaaaafaaaafaaaafaaaafaaaafaaaafaaaafaaaafaaaafaaaafaaaafaaaafaaaafaaaafaaaafaaaafaaaafaaaafaaaafaaaafaaaafaaaafaaaafaaaafaaaafaaaafaaaafaaaafaaaafaaaafaaaafaaaafaaaafaaaafaaaafaaaafaaaafaaaafaaaafaaaafaaaafaaaafaaaafaaaafaaaafaaaafaaaafaaaafaaaafaaaafaaaafaaaafaaaafaaaafaaaafaaaafaaaafaaaafaaaafaaaafaaaafaaaafaaaafaaaafaaaafaaaafaaaafaaaafaaaafaaaafaaaafaaaafaaaafaaaafaaaafaaaafaaaafaaaafaaaafaaaafaaaafaaaafaaaafaaaafaaaafaaaafaaaafaaaafaaaafaaaafaaaafaaaafaaaafaaaafaaaafaaaafaaaafaaaafaaaafaaaafaaaafaaaafaaaafaaaafaaaafaaaafaaaafaaaafaaaafaaaafaaaafaaaafaaaafaaaafaaaafaaaafaaaafaaaafaaaafaaaafaaaafaaaafaaaafaaaafaaaafaaaafaaaafaaaafaaaafaaaafaaaafaaaafaaaafaaaafaaaafaaaafaaaafaaaafaaaafaaaafaaaafaaaafaaaafaaaafaaaafaaaafaaaafaaaafaaaafaaaafaaaafaaaafaaaafaaaafaaaafaaaafaaaafaaaafaaaafaaaafaaaafaaaafaaaafaaaafaaaafaaaafaaaafaaaafaaaafaaaafaaaafaaaafaaaafaaaafaaaafaaaafaaaafaaaafaaaafaaaafaaaafaaaafaaaafaaaafaaaafaaaafaaaafaaaafaaaafaaaafaaaafaaaafaaaafaaaafaaaafaaaafaaaafaaaafaaaafaaaafaaaafaaaafaaaafaaaafaaaafaaaafaaaafaaaafaaaafaaaafaaaafaaaafaaaafaaaafaaaafaaaafaaaafaaaafaaaafaaaafaaaafaaaafaaaafaaaafaaaafaaaafaaaafaaaafaaaafaaaafaaaafaaaafaaaafaaaafaaaafaaaafaaaafaaaafaaaafaaaafaaaafaaaafaaaafaaaafaaaafaaaafaaaafaaaafaaaafaaaafaaaafaaaafaaaafaaaafaaaafaaaafaaaafaaaafaaaafaaaafaaaafaaaafaaaafaaaafaaaafaaaafaaaafaaaafaaaafaaaafaaaafaaaafaaaafaaaafaaaafaaaafaaaafaaaafaaaafaaaafaaaafaaaafaaaafaaaafaaaafaaaafaaaafaaaafaaaafaaaafaaaafaaaafaaaafaaaafaaaafaaaafaaaafaaaafaaaafaaaafaaaafaaaafaaaafaaaafaaaafaaaafaaaafaaaafaaaafaaaafaaaafaaaafaaaafaaaafaaaafaaaafaaaafaaaafaaaafaaaafaaaafaaaafaaaafaaaafaaaafaaaafaaaafaaaafaaaafaaaafaaaafaaaafaaaafaaaafaaaafaaaafaaaafaaaafaaaafaaaafaaaafaaaafaaaafaaaafaaaafaaaafaaaafaaaafaaaafaaaafaaaafaaaafaaaafaaaafaaaafaaaafaaaafaaaafaaaafaaaafaaaafaaaafaaaafaaaafaaaafaaaafaaaafaaaafaaaafaaaafaaaafaaaafaaaafaaaafaaaafaaaafaaaafaaaafaaaafaaaafaaaafaaaafaaaafaaaafaaaafaaaafaaaafaaaafaaaafaaaafaaaafaaaafaaaafaaaafaaaafaaaafaaaafaaaafaaaafaaaafaaaafaaaafaaaafaaaafaaaafaaaafaaaafaaaafaaaafaaaafaaaafaaaafaaaafaaaafaaaafaaaafaaaafaaaafaaaafaaaafaaaafaaaafaaaafaaaafaaaafaaaafaaaafaaaafaaaafaaaafaaaafaaaafaaaafaaaafaaaafaaaafaaaafaaaafaaaafaaaafaaaafaaaafaaaafaaaafaaaafaaaafaaaafaaaafaaaafaaaafaaaafaaaafaaaafaaaafaaaafaaaafaaaafaaaafaaaafaaaafaaaafaaaafaaaafaaaafaaaafaaaafaaaafaaaafaaaafaaaafaaaafaaaafaaaafaaaafaaaafaaaafaaaafaaaafaaaafaaaafaaaafaaaafaaaafaaaafaaaafaaaafaaaafaaaafaaaafaaaafaaaafaaaafaaaafaaaafaaaafaaaafaaaafaaaafaaaafaaaafaaaafaaaafaaaafaaaafaaaafaaaafaaaafaaaafaaaafaaaafaaaafaaaafaaaafaaaafaaaafaaaafaaaafaaaafaaaafaaaafaaaafaaaafaaaafaaaafaaaafaaaafaaaafaaaafaaaafaaaafaaaafaaaafaaaafaaaafaaaafaaaafaaaafaaaafaaaafaaaafaaaafaaaafaaaafaaaafaaaafaaaafaaaafaaaafaaaafaaaafaaaafaaaafaaaafaaaafaaaafaaaafaaaafaaaafaaaafaaaafaaaafaaaafaaaafaaaafaaaafaaaafaaaafaaaafaaaafaaaafaaaafaaaafaaaafaaaafaaaafaaaafaaaafaaaafaaaafaaaafaaaafaaaafaaaafaaaafaaaafaaaafaaaafaaaafaaaafaaaafaaaafaaaafaaaafaaaafaaaafaaaafaaaafaaaafaaaafaaaafaaaafaaaafaaaafaaaafaaaafaaaafaaaafaaaafaaaafaaaafaaaafaaaafaaaafaaaafaaaafaaaafaaaafaaaafaaaafaaaafaaaafaaaafaaaafaaaafaaaafaaaafaaaafaaaafaaaafaaaafaaaafaaaafaaaafaaaafaaaafaaaafaaaafaaaafaaaafaaaafaaaafaaaafaaaafaaaafaaaafaaaafaaaafaaaafaaaafaaaafaaaafaaaafaaaafaaaafaaaafaaaafaaaafaaaafaaaafaaaafaaaafaaaafaaaafaaaafaaaafaaaafaaaafaaaafaaaafaaaafaaaafaaaafaaaafaaaafaaaafaaaafaaaafaaaafaaaafaaaafaaaafaaaafaaaafaaaafaaaafaaaafaaaafaaaafaaaafaaaafaaaafaaaafaaaafaaaafaaaafaaaafaaaafaaaafaaaafaaaafaaaafaaaafaaaafaaaafaaaafaaaafaaaafaaaafaaaafaaaafaaaafaaaafaaaafaaaafaaaafaaaafaaaafaaaafaaaafaaaafaaaafaaaafaaaafaaaafaaaafaaaafaaaafaaaafaaaafaaaafaaaafaaaafaaaafaaaafaaaafaaaafaaaafaaaafaaaafaaaafaaaafaaaafaaaafaaaafaaaafaaaafaaaafaaaafaaaafaaaafaaaafaaaafaaaafaaaafaaaafaaaafaaaafaaaafaaaafaaaafaaaafaaaafaaaafaaaafaaaafaaaafaaaafaaaafaaaafaaaafaaaafaaaafaaaafaaaafaaaafaaaafaaaafaaaafaaaafaaaafaaaafaaaafaaaafaaaafaaaafaaaafaaaafaaaafaaaafaaaafaaaafaaaafaaaafaaaafaaaafaaaafaaaafaaaafaaaafaaaafaaaafaaaafaaaafaaaafaaaafaaaafaaaafaaaafaaaafaaaafaaaafaaaafaaaafaaaafaaaafaaaafaaaafaaaafaaaafaaaafaaaafaaaafaaaafaaaafaaaafaaaafaaaafaaaafaaaafaaaafaaaafaaaafaaaafaaaafaaaafaaaafaaaafaaaafaaaafaaaafaaaafaaaafaaaafaaaafaaaafaaaafaaaafaaaafaaaafaaaafaaaafaaaafaaaafaaaafaaaafaaaafaaaafaaaafaaaafaaaafaaaafaaaafaaaafaaaafaaaafaaaafaaaafaaaafaaaafaaaafaaaafaaaafaaaafaaaafaaaafaaaafaaaafaaaafaaaafaaaafaaaafaaaafaaaafaaaafaaaafaaaafaaaafaaaafaaaafaaaafaaaafaaaafaaaafaaaafaaaafaaaafaaaafaaaafaaaafaaaafaaaafaaaafaaaafaaaafaaaafaaaafaaaafaaaafaaaafaaaafaaaafaaaafaaaafaaaafaaaafaaaafaaaafaaaafaaaafaaaafaaaafaaaafaaaafaaaafaaaafaaaafaaaafaaaafaaaafaaaafaaaafaaaafaaaafaaaafaaaafaaaafaaaafaaaafaaaafaaaafaaaafaaaafaaaafaaaafaaaafaaaafaaaafaaaafaaaafaaaafaaaafaaaafaaaafaaaafaaaafaaaafaaaafaaaafaaaafaaaafaaaafaaaafaaaafaaaafaaaafaaaafaaaafaaaafaaaafaaaafaaaafaaaafaaaafaaaafaaaafaaaafaaaafaaaafaaaafaaaafaaaafaaaafaaaafaaaafaaaafaaaafaaaafaaaafaaaafaaaafaaaafaaaafaaaafaaaafaaaafaaaafaaaafaaaafaaaafaaaafaaaafaaaafaaaafaaaafaaaafaaaafaaaafaaaafaaaafaaaafaaaafaaaafaaaafaaaafaaaafaaaafaaaafaaaafaaaafaaaafaaaafaaaafaaaafaaaafaaaafaaaafaaaafaaaafaaaafaaaafaaaafaaaafaaaafaaaafaaaafaaaafaaaafaaaafaaaafaaaafaaaafaaaafaaaafaaaafaaaafaaaafaaaafaaaafaaaafaaaafaaaafaaaafaaaafaaaafaaaafaaaafaaaafaaaafaaaafaaaafaaaafaaaafaaaafaaaafaaaafaaaafaaaafaaaafaaaafaaaafaaaafaaaafaaaafaaaafaaaafaaaafaaaafaaaafaaaafaaaafaaaafaaaafaaaafaaaafaaaafaaaafaaaafaaaafaaaafaaaafaaaafaaaafaaaafaaaafaaaafaaaafaaaafaaaafaaaafaaaafaaaafaaaafaaaafaaaafaaaafaaaafaaaafaaaafaaaafaaaafaaaafaaaafaaaafaaaafaaaafaaaafaaaafaaaafaaaafaaaafaaaafaaaafaaaafaaaafaaaafaaaafaaaafaaaafaaaafaaaafaaaafaaaafaaaafaaaafaaaafaaaafaaaafaaaafaaaafaaaafaaaafaaaafaaaafaaaafaaaafaaaafaaaafaaaafaaaafaaaafaaaafaaaafaaaafaaaafaaaafaaaafaaaafaaaafaaaafaaaafaaaafaaaafaaaafaaaafaaaafaaaafaaaafaaaafaaaafaaaafaaaafaaaafaaaafaaaafaaaafaaaafaaaafaaaafaaaafaaaafaaaafaaaafaaaafaaaafaaaafaaaafaaaafaaaafaaaafaaaafaaaafaaaafaaaafaaaafaaaafaaaafaaaafaaaafaaaafaaaafaaaafaaaafaaaafaaaafaaaafaaaafaaaafaaaafaaaafaaaafaaaafaaaafaaaafaaaafaaaafaaaafaaaafaaaafaaaafaaaafaaaafaaaafaaaafaaaafaaaafaaaafaaaafaaaafaaaafaaaafaaaafaaaafaaaafaaaafaaaafaaaafaaaafaaaafaaaafaaaafaaaafaaaafaaaafaaaafaaaafaaaafaaaafaaaafaaaafaaaafaaaafaaaafaaaafaaaafaaaafaaaafaaaafaaaafaaaafaaaafaaaafaaaafaaaafaaaafaaaafaaaafaaaafaaaafaaaafaaaafaaaafaaaafaaaafaaaafaaaafaaaafaaaafaaaafaaaafaaaafaaaafaaaafaaaafaaaafaaaafaaaafaaaafaaaafaaaafaaaafaaaafaaaafaaaafaaaafaaaafaaaafaaaafaaaafaaaafaaaafaaaafaaaafaaaafaaaafaaaafaaaafaaaafaaaafaaaafaaaafaaaafaaaafaaaafaaaafaaaafaaaafaaaafaaaafaaaafaaaafaaaafaaaafaaaafaaaafaaaafaaaafaaaafaaaafaaaafaaaafaaaafaaaafaaaafaaaafaaaafaaaafaaaafaaaafaaaafaaaafaaaafaaaafaaaafaaaafaaaafaaaafaaaafaaaafaaaafaaaafaaaafaaaafaaaafaaaafaaaafaaaafaaaafaaaafaaaafaaaafaaaafaaaafaaaafaaaafaaaafaaaafaaaafaaaafaaaafaaaafaaaafaaaafaaaafaaaafaaaafaaaafaaaafaaaafaaaafaaaafaaaafaaaafaaaafaaaafaaaafaaaafaaaafaaaafaaaafaaaafaaaafaaaafaaaafaaaafaaaafaaaafaaaafaaaafaaaafaaaafaaaafaaaafaaaafaaaafaaaafaaaafaaaafaaaafaaaafaaaafaaaafaaaafaaaafaaaafaaaafaaaafaaaafaaaafaaaafaaaafaaaafaaaafaaaafaaaafaaaafaaaafaaaafaaaafaaaafaaaafaaaafaaaafaaaafaaaafaaaafaaaafaaaafaaaafaaaafaaaafaaaafaaaafaaaafaaaafaaaafaaaafaaaafaaaafaaaafaaaafaaaafaaaafaaaafaaaafaaaafaaaafaaaafaaaafaaaafaaaafaaaafaaaafaaaafaaaafaaaafaaaafaaaafaaaafaaaafaaaafaaaafaaaafaaaafaaaafaaaafaaaafaaaafaaaafaaaafaaaafaaaafaaaafaaaafaaaafaaaafaaaafaaaafaaaafaaaafaaaafaaaafaaaafaaaafaaaafaaaafaaaafaaaafaaaafaaaafaaaafaaaafaaaafaaaafaaaafaaaafaaaafaaaafaaaafaaaafaaaafaaaafaaaafaaaafaaaafaaaafaaaafaaaafaaaafaaaafaaaafaaaafaaaafaaaafaaaafaaaafaaaafaaaafaaaafaaaafaaaafaaaafaaaafaaaafaaaafaaaafaaaafaaaafaaaafaaaafaaaafaaaafaaaafaaaafaaaafaaaafaaaafaaaafaaaafaaaafaaaafaaaafaaaafaaaafaaaafaaaafaaaafaaaafaaaafaaaafaaaafaaaafaaaafaaaafaaaafaaaafaaaafaaaafaaaafaaaafaaaafaaaafaaaafaaaafaaaafaaaafaaaafaaaafaaaafaaaafaaaafaaaafaaaafaaaafaaaafaaaafaaaafaaaafaaaafaaaafaaaafaaaafaaaafaaaafaaaafaaaafaaaafaaaafaaaafaaaafaaaafaaaafaaaafaaaafaaaafaaaafaaaafaaaafaaaafaaaafaaaafaaaafaaaafaaaafaaaafaaaafaaaafaaaafaaaafaaaafaaaafaaaafaaaafaaaafaaaafaaaafaaaafaaaafaaaafaaaafaaaafaaaafaaaafaaaafaaaafaaaafaaaafaaaafaaaafaaaafaaaafaaaafaaaafaaaafaaaafaaaafaaaafaaaafaaaafaaaafaaaafaaaafaaaafaaaafaaaafaaaafaaaafaaaafaaaafaaaafaaaafaaaafaaaafaaaafaaaafaaaafaaaafaaaafaaaafaaaafaaaafaaaafaaaafaaaafaaaafaaaafaaaafaaaafaaaafaaaafaaaafaaaafaaaafaaaafaaaafaaaafaaaafaaaafaaaafaaaafaaaafaaaafaaaafaaaafaaaafaaaafaaaafaaaafaaaafaaaafaaaafaaaafaaaafaaaafaaaafaaaafaaaafaaaafaaaafaaaafaaaafaaaafaaaafaaaafaaaafaaaafaaaafaaaafaaaafaaaafaaaafaaaafaaaafaaaafaaaafaaaafaaaafaaaafaaaafaaaafaaaafaaaafaaaafaaaafaaaafaaaafaaaafaaaafaaaafaaaafaaaafaaaafaaaafaaaafaaaafaaaafaaaafaaaafaaaafaaaafaaaafaaaafaaaafaaaafaaaafaaaafaaaafaaaafaaaafaaaafaaaafaaaafaaaafaaaafaaaafaaaafaaaafaaaafaaaafaaaafaaaafaaaafaaaafaaaafaaaafaaaafaaaafaaaafaaaafaaaafaaaafaaaafaaaafaaaafaaaafaaaafaaaafaaaafaaaafaaaafaaaafaaaafaaaafaaaafaaaafaaaafaaaafaaaafaaaafaaaafaaaafaaaafaaaafaaaafaaaafaaaafaaaafaaaafaaaafaaaafaaaafaaaafaaaafaaaafaaaafaaaafaaaafaaaafaaaafaaaafaaaafaaaafaaaafaaaafaaaafaaaafaaaafaaaafaaaafaaaafaaaafaaaafaaaafaaaafaaaafaaaafaaaafaaaafaaaafaaaafaaaafaaaafaaaafaaaafaaaafaaaafaaaafaaaafaaaafaaaafaaaafaaaafaaaafaaaafaaaafaaaafaaaafaaaafaaaafaaaafaaaafaaaafaaaafaaaafaaaafaaaafaaaafaaaafaaaafaaaafaaaafaaaafaaaafaaaafaaaafaaaafaaaafaaaafaaaafaaaafaaaafaaaafaaaafaaaafaaaafaaaafaaaafaaaafaaaafaaaafaaaafaaaafaaaafaaaafaaaafaaaafaaaafaaaafaaaafaaaafaaaafaaaafaaaafaaaafaaaafaaaafaaaafaaaafaaaafaaaafaaaafaaaafaaaafaaaafaaaafaaaafaaaafaaaafaaaafaaaafaaaafaaaafaaaafaaaafaaaafaaaafaaaafaaaafaaaafaaaafaaaafaaaafaaaafaaaafaaaafaaaafaaaafaaaafaaaafaaaafaaaafaaaafaaaafaaaafaaaafaaaafaaaafaaaafaaaafaaaafaaaafaaaafaaaafaaaafaaaafaaaafaaaafaaaafaaaafaaaafaaaafaaaafaaaafaaaafaaaafaaaafaaaafaaaafaaaafaaaafaaaafaaaafaaaafaaaafaaaafaaaafaaaafaaaafaaaafaaaafaaaafaaaafaaaafaaaafaaaafaaaafaaaafaaaafaaaafaaaafaaaafaaaafaaaafaaaafaaaafaaaafaaaafaaaafaaaafaaaafaaaafaaaafaaaafaaaafaaaafaaaafaaaafaaaafaaaafaaaafaaaafaaaafaaaafaaaafaaaafaaaafaaaafaaaafaaaafaaaafaaaafaaaafaaaafaaaafaaaafaaaafaaaafaaaafaaaafaaaafaaaafaaaafaaaafaaaafaaaafaaaafaaaafaaaafaaaafaaaafaaaafaaaafaaaafaaaafaaaafaaaafaaaafaaaafaaaafaaaafaaaafaaaafaaaafaaaafaaaafaaaafaaaafaaaafaaaafaaaafaaaafaaaafaaaafaaaafaaaafaaaafaaaafaaaafaaaafaaaafaaaafaaaafaaaafaaaafaaaafaaaafaaaafaaaafaaaafaaaafaaaafaaaafaaaafaaaafaaaafaaaafaaaafaaaafaaaafaaaafaaaafaaaafaaaafaaaafaaaafaaaafaaaafaaaafaaaafaaaafaaaafaaaafaaaafaaaafaaaafaaaafaaaafaaaafaaaafaaaafaaaafaaaafaaaafaaaafaaaafaaaafaaaafaaaafaaaafaaaafaaaafaaaafaaaafaaaafaaaafaaaafaaaafaaaafaaaafaaaafaaaafaaaafaaaafaaaafaaaafaaaafaaaafaaaafaaaafaaaafaaaafaaaafaaaafaaaafaaaafaaaafaaaafaaaafaaaafaaaafaaaafaaaafaaaafaaaafaaaafaaaafaaaafaaaafaaaafaaaafaaaafaaaafaaaafaaaafaaaafaaaafaaaafaaaafaaaafaaaafaaaafaaaafaaaafaaaafaaaafaaaafaaaafaaaafaaaafaaaafaaaafaaaafaaaafaaaafaaaafaaaafaaaafaaaafaaaafaaaafaaaafaaaafaaaafaaaafaaaafaaaafaaaafaaaafaaaafaaaafaaaafaaaafaaaafaaaafaaaafaaaafaaaafaaaafaaaafaaaafaaaafaaaafaaaafaaaafaaaafaaaafaaaafaaaafaaaafaaaafaaaafaaaafaaaafaaaafaaaafaaaafaaaafaaaafaaaafaaaafaaaafaaaafaaaafaaaafaaaafaaaafaaaafaaaafaaaafaaaafaaaafaaaafaaaafaaaafaaaafaaaafaaaafaaaafaaaafaaaafaaaafaaaafaaaafaaaafaaaafaaaafaaaafaaaafaaaafaaaafaaaafaaaafaaaafaaaafaaaafaaaafaaaafaaaafaaaafaaaafaaaafaaaafaaaafaaaafaaaafaaaafaaaafaaaafaaaafaaaafaaaafaaaafaaaafaaaafaaaafaaaafaaaafaaaafaaaafaaaafaaaafaaaafaaaafaaaafaaaafaaaafaaaafaaaafaaaafaaaafaaaafaaaafaaaafaaaafaaaafaaaafaaaafaaaafaaaafaaaafaaaafaaaafaaaafaaaafaaaafaaaafaaaafaaaafaaaafaaaafaaaafaaaafaaaafaaaafaaaafaaaafaaaafaaaafaaaafaaaafaaaafaaaafaaaafaaaafaaaafaaaafaaaafaaaafaaaafaaaafaaaafaaaafaaaafaaaafaaaafaaaafaaaafaaaafaaaafaaaafaaaafaaaafaaaafaaaafaaaafaaaafaaaafaaaafaaaafaaaafaaaafaaaafaaaafaaaafaaaafaaaafaaaafaaaafaaaafaaaafaaaafaaaafaaaafaaaafaaaafaaaafaaaafaaaafaaaafaaaafaaaafaaaafaaaafaaaafaaaafaaaafaaaafaaaafaaaafaaaafaaaafaaaafaaaafaaaafaaaafaaaafaaaafaaaafaaaafaaaafaaaafaaaafaaaafaaaafaaaafaaaafaaaafaaaafaaaafaaaafaaaafaaaafaaaafaaaafaaaafaaaafaaaafaaaafaaaafaaaafaaaafaaaafaaaafaaaafaaaafaaaafaaaafaaaafaaaafaaaafaaaafaaaafaaaafaaaafaaaafaaaafaaaafaaaafaaaafaaaafaaaafaaaafaaaafaaaafaaaafaaaafaaaafaaaafaaaafaaaafaaaafaaaafaaaafaaaafaaaafaaaafaaaafaaaafaaaafaaaafaaaafaaaafaaaafaaaafaaaafaaaafaaaafaaaafaaaafaaaafaaaafaaaafaaaafaaaafaaaafaaaafaaaafaaaafaaaafaaaafaaaafaaaafaaaafaaaafaaaafaaaafaaaafaaaafaaaafaaaafaaaafaaaafaaaafaaaafaaaafaaaafaaaafaaaafaaaafaaaafaaaafaaaafaaaafaaaafaaaafaaaafaaaafaaaafaaaafaaaafaaaafaaaafaaaafaaaafaaaafaaaafaaaafaaaafaaaafaaaafaaaafaaaafaaaafaaaafaaaafaaaafaaaafaaaafaaaafaaaafaaaafaaaafaaaafaaaafaaaafaaaafaaaafaaaafaaaafaaaafaaaafaaaafaaaafaaaafaaaafaaaafaaaafaaaafaaaafaaaafaaaafaaaafaaaafaaaafaaaafaaaafaaaafaaaafaaaafaaaafaaaafaaaafaaaafaaaafaaaafaaaafaaaafaaaafaaaafaaaafaaaafaaaafaaaafaaaafaaaafaaaafaaaafaaaafaaaafaaaafaaaafaaaafaaaafaaaafaaaafaaaafaaaafaaaafaaaafaaaafaaaafaaaafaaaafaaaafaaaafaaaafaaaafaaaafaaaafaaaafaaaafaaaafaaaafaaaafaaaafaaaafaaaafaaaafaaaafaaaafaaaafaaaafaaaafaaaafaaaafaaaafaaaafaaaafaaaafaaaafaaaafaaaafaaaafaaaafaaaafaaaafaaaafaaaafaaaafaaaafaaaafaaaafaaaafaaaafaaaafaaaafaaaafaaaafaaaafaaaafaaaafaaaafaaaafaaaafaaaafaaaafaaaafaaaafaaaafaaaafaaaafaaaafaaaafaaaafaaaafaaaafaaaafaaaafaaaafaaaafaaaafaaaafaaaafaaaafaaaafaaaafaaaafaaaafaaaafaaaafaaaafaaaafaaaafaaaafaaaafaaaafaaaafaaaafaaaafaaaafaaaafaaaafaaaafaaaafaaaafaaaafaaaafaaaafaaaafaaaafaaaafaaaafaaaafaaaafaaaafaaaafaaaafaaaafaaaafaaaafaaaafaaaafaaaafaaaafaaaafaaaafaaaafaaaafaaaafaaaafaaaafaaaafaaaafaaaafaaaafaaaafaaaafaaaafaaaafaaaafaaaafaaaafaaaafaaaafaaaafaaaafaaaafaaaafaaaafaaaafaaaafaaaafaaaafaaaafaaaafaaaafaaaafaaaafaaaafaaaafaaaafaaaafaaaafaaaafaaaafaaaafaaaafaaaafaaaafaaaafaaaafaaaafaaaafaaaafaaaafaaaafaaaafaaaafaaaafaaaafaaaafaaaafaaaafaaaafaaaafaaaafaaaafaaaafaaaafaaaafaaaafaaaafaaaafaaaafaaaafaaaafaaaafaaaafaaaafaaaafaaaafaaaafaaaafaaaafaaaafaaaafaaaafaaaafaaaafaaaafaaaafaaaafaaaafaaaafaaaafaaaafaaaafaaaafaaaafaaaafaaaafaaaafaaaafaaaafaaaafaaaafaaaafaaaafaaaafaaaafaaaafaaaafaaaafaaaafaaaafaaaafaaaafaaaafaaaafaaaafaaaafaaaafaaaafaaaafaaaafaaaafaaaafaaaafaaaafaaaafaaaafaaaafaaaafaaaafaaaafaaaafaaaafaaaafaaaafaaaafaaaafaaaafaaaafaaaafaaaafaaaafaaaafaaaafaaaafaaaafaaaafaaaafaaaafaaaafaaaafaaaafaaaafaaaafaaaafaaaafaaaafaaaafaaaafaaaafaaaafaaaafaaaafaaaafaaaafaaaafaaaafaaaafaaaafaaaafaaaafaaaafaaaafaaaafaaaafaaaafaaaafaaaafaaaafaaaafaaaafaaaafaaaafaaaafaaaafaaaafaaaafaaaafaaaafaaaafaaaafaaaafaaaafaaaafaaaafaaaafaaaafaaaafaaaafaaaafaaaafaaaafaaaafaaaafaaaafaaaafaaaafaaaafaaaafaaaafaaaafaaaafaaaafaaaafaaaafaaaafaaaafaaaafaaaafaaaafaaaafaaaafaaaafaaaafaaaafaaaafaaaafaaaafaaaafaaaafaaaafaaaafaaaafaaaafaaaafaaaafaaaafaaaafaaaafaaaafaaaafaaaafaaaafaaaafaaaafaaaafaaaafaaaafaaaafaaaafaaaafaaaafaaaafaaaafaaaafaaaafaaaafaaaafaaaafaaaafaaaafaaaafaaaafaaaafaaaafaaaafaaaafaaaafaaaafaaaafaaaafaaaafaaaafaaaafaaaafaaaafaaaafaaaafaaaafaaaafaaaafaaaafaaaafaaaafaaaafaaaafaaaafaaaafaaaafaaaafaaaafaaaafaaaafaaaafaaaafaaaafaaaafaaaafaaaafaaaafaaaafaaaafaaaafaaaafaaaafaaaafaaaafaaaafaaaafaaaafaaaafaaaafaaaafaaaafaaaafaaaafaaaafaaaafaaaafaaaafaaaafaaaafaaaafaaaafaaaafaaaafaaaafaaaafaaaafaaaafaaaafaaaafaaaafaaaafaaaafaaaafaaaafaaaafaaaafaaaafaaaafaaaafaaaafaaaafaaaafaaaafaaaafaaaafaaaafaaaafaaaafaaaafaaaafaaaafaaaafaaaafaaaafaaaafaaaafaaaafaaaafaaaafaaaafaaaafaaaafaaaafaaaafaaaafaaaafaaaafaaaafaaaafaaaafaaaafaaaafaaaafaaaafaaaafaaaafaaaafaaaafaaaafaaaafaaaafaaaafaaaafaaaafaaaafaaaafaaaafaaaafaaaafaaaafaaaafaaaafaaaafaaaafaaaafaaaafaaaafaaaafaaaafaaaafaaaafaaaafaaaafaaaafaaaafaaaafaaaafaaaafaaaafaaaafaaaafaaaafaaaafaaaafaaaafaaaafaaaafaaaafaaaafaaaafaaaafaaaafaaaafaaaafaaaafaaaafaaaafaaaafaaaafaaaafaaaafaaaafaaaafaaaafaaaafaaaafaaaafaaaafaaaafaaaafaaaafaaaafaaaafaaaafaaaafaaaafaaaafaaaafaaaafaaaafaaaafaaaafaaaafaaaafaaaafaaaafaaaafaaaafaaaafaaaafaaaafaaaafaaaafaaaafaaaafaaaafaaaafaaaafaaaafaaaafaaaafaaaafaaaafaaaafaaaafaaaafaaaafaaaafaaaafaaaafaaaafaaaafaaaafaaaafaaaafaaaafaaaafaaaafaaaafaaaafaaaafaaaafaaaafaaaafaaaafaaaafaaaafaaaafaaaafaaaafaaaafaaaafaaaafaaaafaaaafaaaafaaaafaaaafaaaafaaaafaaaafaaaafaaaafaaaafaaaafaaaafaaaafaaaafaaaafaaaafaaaafaaaafaaaafaaaafaaaafaaaafaaaafaaaafaaaafaaaafaaaafaaaafaaaafaaaafaaaafaaaafaaaafaaaafaaaafaaaafaaaafaaaafaaaafaaaafaaaafaaaafaaaafaaaafaaaafaaaafaaaafaaaafaaaafaaaafaaaafaaaafaaaafaaaafaaaafaaaafaaaafaaaafaaaafaaaafaaaafaaaafaaaafaaaafaaaafaaaafaaaafaaaafaaaafaaaafaaaafaaaafaaaafaaaafaaaafaaaafaaaafaaaafaaaafaaaafaaaafaaaafaaaafaaaafaaaafaaaafaaaafaaaafaaaafaaaafaaaafaaaafaaaafaaaafaaaafaaaafaaaafaaaafaaaafaaaafaaaafaaaafaaaafaaaafaaaafaaaafaaaafaaaafaaaafaaaafaaaafaaaafaaaafaaaafaaaafaaaafaaaafaaaafaaaafaaaafaaaafaaaafaaaafaaaafaaaafaaaafaaaafaaaafaaaafaaaafaaaafaaaafaaaafaaaafaaaafaaaafaaaafaaaafaaaafaaaafaaaafaaaafaaaafaaaafaaaafaaaafaaaafaaaafaaaafaaaafaaaafaaaafaaaafaaaafaaaafaaaafaaaafaaaafaaaafaaaafaaaafaaaafaaaafaaaafaaaafaaaafaaaafaaaafaaaafaaaafaaaafaaaafaaaafaaaafaaaafaaaafaaaafaaaafaaaafaaaafaaaafaaaafaaaafaaaafaaaafaaaafaaaafaaaafaaaafaaaafaaaafaaaafaaaafaaaafaaaafaaaafaaaafaaaafaaaafaaaafaaaafaaaafaaaafaaaafaaaafaaaafaaaafaaaafaaaafaaaafaaaafaaaafaaaafaaaafaaaafaaaafaaaafaaaafaaaafaaaafaaaafaaaafaaaafaaaafaaaafaaaafaaaafaaaafaaaafaaaafaaaafaaaafaaaafaaaafaaaafaaaafaaaafaaaafaaaafaaaafaaaafaaaafaaaafaaaafaaaafaaaafaaaafaaaafaaaafaaaafaaaafaaaafaaaafaaaafaaaafaaaafaaaafaaaafaaaafaaaafaaaafaaaafaaaafaaaafaaaafaaaafaaaafaaaafaaaafaaaafaaaafaaaafaaaafaaaafaaaafaaaafaaaafaaaafaaaafaaaafaaaafaaaafaaaafaaaafaaaafaaaafaaaafaaaafaaaafaaaafaaaafaaaafaaaafaaaafaaaafaaaafaaaafaaaafaaaafaaaafaaaafaaaafaaaafaaaafaaaafaaaafaaaafaaaafaaaafaaaafaaaafaaaafaaaafaaaafaaaafaaaafaaaafaaaafaaaafaaaafaaaafaaaafaaaafaaaafaaaafaaaafaaaafaaaafaaaafaaaafaaaafaaaafaaaafaaaafaaaafaaaafaaaafaaaafaaaafaaaafaaaafaaaafaaaafaaaafaaaafaaaafaaaafaaaafaaaafaaaafaaaafaaaafaaaafaaaafaaaafaaaafaaaafaaaafaaaafaaaafaaaafaaaafaaaafaaaafaaaafaaaafaaaafaaaafaaaafaaaafaaaafaaaafaaaafaaaafaaaafaaaafaaaafaaaafaaaafaaaafaaaafaaaafaaaafaaaafaaaafaaaafaaaafaaaafaaaafaaaafaaaafaaaafaaaafaaaafaaaafaaaafaaaafaaaafaaaafaaaafaaaafaaaafaaaafaaaafaaaafaaaafaaaafaaaafaaaafaaaafaaaafaaaafaaaafaaaafaaaafaaaafaaaafaaaafaaaafaaaafaaaafaaaafaaaafaaaafaaaafaaaafaaaafaaaafaaaafaaaafaaaafaaaafaaaafaaaafaaaafaaaafaaaafaaaafaaaafaaaafaaaafaaaafaaaafaaaafaaaafaaaafaaaafaaaafaaaafaaaafaaaafaaaafaaaafaaaafaaaafaaaafaaaafaaaafaaaafaaaafaaaafaaaafaaaafaaaafaaaafaaaafaaaafaaaafaaaafaaaafaaaafaaaafaaaafaaaafaaaafaaaafaaaafaaaafaaaafaaaafaaaafaaaafaaaafaaaafaaaafaaaafaaaafaaaafaaaafaaaafaaaafaaaafaaaafaaaafaaaafaaaafaaaafaaaafaaaafaaaafaaaafaaaafaaaafaaaafaaaafaaaafaaaafaaaafaaaafaaaafaaaafaaaafaaaafaaaafaaaafaaaafaaaafaaaafaaaafaaaafaaaafaaaafaaaafaaaafaaaafaaaafaaaafaaaafaaaafaaaafaaaafaaaafaaaafaaaafaaaafaaaafaaaafaaaafaaaafaaaafaaaafaaaafaaaafaaaafaaaafaaaafaaaafaaaafaaaafaaaafaaaafaaaafaaaafaaaafaaaafaaaafaaaafaaaafaaaafaaaafaaaafaaaafaaaafaaaafaaaafaaaafaaaafaaaafaaaafaaaafaaaafaaaafaaaafaaaafaaaafaaaafaaaafaaaafaaaafaaaafaaaafaaaafaaaafaaaafaaaafaaaafaaaafaaaafaaaafaaaafaaaafaaaafaaaafaaaafaaaafaaaafaaaafaaaafaaaafaaaafaaaafaaaafaaaafaaaafaaaafaaaafaaaafaaaafaaaafaaaafaaaafaaaafaaaafaaaafaaaafaaaafaaaafaaaafaaaafaaaafaaaafaaaafaaaafaaaafaaaafaaaafaaaafaaaafaaaafaaaafaaaafaaaafaaaafaaaafaaaafaaaafaaaafaaaafaaaafaaaafaaaafaaaafaaaafaaaafaaaafaaaafaaaafaaaafaaaafaaaafaaaafaaaafaaaafaaaafaaaafaaaafaaaafaaaafaaaafaaaafaaaafaaaafaaaafaaaafaaaafaaaafaaaafaaaafaaaafaaaafaaaafaaaafaaaafaaaafaaaafaaaafaaaafaaaafaaaafaaaafaaaafaaaafaaaafaaaafaaaafaaaafaaaafaaaafaaaafaaaafaaaafaaaafaaaafaaaafaaaafaaaafaaaafaaaafaaaafaaaafaaaafaaaafaaaafaaaafaaaafaaaafaaaafaaaafaaaafaaaafaaaafaaaafaaaafaaaafaaaafaaaafaaaafaaaafaaaafaaaafaaaafaaaafaaaafaaaafaaaafaaaafaaaafaaaafaaaafaaaafaaaafaaaafaaaafaaaafaaaafaaaafaaaafaaaafaaaafaaaafaaaafaaaafaaaafaaaafaaaafaaaafaaaafaaaafaaaafaaaafaaaafaaaafaaaafaaaafaaaafaaaafaaaafaaaafaaaafaaaafaaaafaaaafaaaafaaaafaaaafaaaafaaaafaaaafaaaafaaaafaaaafaaaafaaaafaaaafaaaafaaaafaaaafaaaafaaaafaaaafaaaafaaaafaaaafaaaafaaaafaaaafaaaafaaaafaaaafaaaafaaaafaaaafaaaafaaaafaaaafaaaafaaaafaaaafaaaafaaaafaaaafaaaafaaaafaaaafaaaafaaaafaaaafaaaafaaaafaaaafaaaafaaaafaaaafaaaafaaaafaaaafaaaafaaaafaaaafaaaafaaaafaaaafaaaafaaaafaaaafaaaafaaaafaaaafaaaafaaaafaaaafaaaafaaaafaaaafaaaafaaaafaaaafaaaafaaaafaaaafaaaafaaaafaaaafaaaafaaaafaaaafaaaafaaaafaaaafaaaafaaaafaaaafaaaafaaaafaaaafaaaafaaaafaaaafaaaafaaaafaaaafaaaafaaaafaaaafaaaafaaaafaaaafaaaafaaaafaaaafaaaafaaaafaaaafaaaafaaaafaaaafaaaafaaaafaaaafaaaafaaaafaaaafaaaafaaaafaaaafaaaafaaaafaaaafaaaafaaaafaaaafaaaafaaaafaaaafaaaafaaaafaaaafaaaafaaaafaaaafaaaafaaaafaaaafaaaafaaaafaaaafaaaafaaaafaaaafaaaafaaaafaaaafaaaafaaaafaaaafaaaafaaaafaaaafaaaafaaaafaaaafaaaafaaaafaaaafaaaafaaaafaaaafaaaafaaaafaaaafaaaafaaaafaaaafaaaafaaaafaaaafaaaafaaaafaaaafaaaafaaaafaaaafaaaafaaaafaaaafaaaafaaaafaaaafaaaafaaaafaaaafaaaafaaaafaaaafaaaafaaaafaaaafaaaafaaaafaaaafaaaafaaaafaaaafaaaafaaaafaaaafaaaafaaaafaaaafaaaafaaaafaaaafaaaafaaaafaaaafaaaafaaaafaaaafaaaafaaaafaaaafaaaafaaaafaaaafaaaafaaaafaaaafaaaafaaaafaaaafaaaafaaaafaaaafaaaafaaaafaaaafaaaafaaaafaaaafaaaafaaaafaaaafaaaafaaaafaaaafaaaafaaaafaaaafaaaafaaaafaaaafaaaafaaaafaaaafaaaafaaaafaaaafaaaafaaaafaaaafaaaafaaaafaaaafaaaafaaaafaaaafaaaafaaaafaaaafaaaafaaaafaaaafaaaafaaaafaaaafaaaafaaaafaaaafaaaafaaaafaaaafaaaafaaaafaaaafaaaafaaaafaaaafaaaafaaaafaaaafaaaafaaaafaaaafaaaafaaaafaaaafaaaafaaaafaaaafaaaafaaaafaaaafaaaafaaaafaaaafaaaafaaaafaaaafaaaafaaaafaaaafaaaafaaaafaaaafaaaafaaaafaaaafaaaafaaaafaaaafaaaafaaaafaaaafaaaafaaaafaaaafaaaafaaaafaaaafaaaafaaaafaaaafaaaafaaaafaaaafaaaafaaaafaaaafaaaafaaaafaaaafaaaafaaaafaaaafaaaafaaaafaaaafaaaafaaaafaaaafaaaafaaaafaaaafaaaafaaaafaaaafaaaafaaaafaaaafaaaafaaaafaaaafaaaafaaaafaaaafaaaafaaaafaaaafaaaafaaaafaaaafaaaafaaaafaaaafaaaafaaaafaaaafaaaafaaaafaaaafaaaafaaaafaaaafaaaafaaaafaaaafaaaafaaaafaaaafaaaafaaaafaaaafaaaafaaaafaaaafaaaafaaaafaaaafaaaafaaaafaaaafaaaafaaaafaaaafaaaafaaaafaaaafaaaafaaaafaaaafaaaafaaaafaaaafaaaafaaaafaaaafaaaafaaaafaaaafaaaafaaaafaaaafaaaafaaaafaaaafaaaafaaaafaaaafaaaafaaaafaaaafaaaafaaaafaaaafaaaafaaaafaaaafaaaafaaaafaaaafaaaafaaaafaaaafaaaafaaaafaaaafaaaafaaaafaaaafaaaafaaaafaaaafaaaafaaaafaaaafaaaafaaaafaaaafaaaafaaaafaaaafaaaafaaaafaaaafaaaafaaaafaaaafaaaafaaaafaaaafaaaafaaaafaaaafaaaafaaaafaaaafaaaafaaaafaaaafaaaafaaaafaaaafaaaafaaaafaaaafaaaafaaaafaaaafaaaafaaaafaaaafaaaafaaaafaaaafaaaafaaaafaaaafaaaafaaaafaaaafaaaafaaaafaaaafaaaafaaaafaaaafaaaafaaaafaaaafaaaafaaaafaaaafaaaafaaaafaaaafaaaafaaaafaaaafaaaafaaaafaaaafaaaafaaaafaaaafaaaafaaaafaaaafaaaafaaaafaaaafaaaafaaaafaaaafaaaafaaaafaaaafaaaafaaaafaaaafaaaafaaaafaaaafaaaafaaaafaaaafaaaafaaaafaaaafaaaafaaaafaaaafaaaafaaaafaaaafaaaafaaaafaaaafaaaafaaaafaaaafaaaafaaaafaaaafaaaafaaaafaaaafaaaafaaaafaaaafaaaafaaaafaaaafaaaafaaaafaaaafaaaafaaaafaaaafaaaafaaaafaaaafaaaafaaaafaaaafaaaafaaaafaaaafaaaafaaaafaaaafaaaafaaaafaaaafaaaafaaaafaaaafaaaafaaaafaaaafaaaafaaaafaaaafaaaafaaaafaaaafaaaafaaaafaaaafaaaafaaaafaaaafaaaafaaaafaaaafaaaafaaaafaaaafaaaafaaaafaaaafaaaafaaaafaaaafaaaafaaaafaaaafaaaafaaaafaaaafaaaafaaaafaaaafaaaafaaaafaaaafaaaafaaaafaaaafaaaafaaaafaaaafaaaafaaaafaaaafaaaafaaaafaaaafaaaafaaaafaaaafaaaafaaaafaaaafaaaafaaaafaaaafaaaafaaaafaaaafaaaafaaaafaaaafaaaafaaaafaaaafaaaafaaaafaaaafaaaafaaaafaaaafaaaafaaaafaaaafaaaafaaaafaaaafaaaafaaaafaaaafaaaafaaaafaaaafaaaafaaaafaaaafaaaafaaaafaaaafaaaafaaaafaaaafaaaafaaaafaaaafaaaafaaaafaaaafaaaafaaaafaaaafaaaafaaaafaaaafaaaafaaaafaaaafaaaafaaaafaaaafaaaafaaaafaaaafaaaafaaaafaaaafaaaafaaaafaaaafaaaafaaaafaaaafaaaafaaaafaaaafaaaafaaaafaaaafaaaafaaaafaaaafaaaafaaaafaaaafaaaafaaaafaaaafaaaafaaaafaaaafaaaafaaaafaaaafaaaafaaaafaaaafaaaafaaaafaaaafaaaafaaaafaaaafaaaafaaaafaaaafaaaafaaaafaaaafaaaafaaaafaaaafaaaafaaaafaaaafaaaafaaaafaaaafaaaafaaaafaaaafaaaafaaaafaaaafaaaafaaaafaaaafaaaafaaaafaaaafaaaafaaaafaaaafaaaafaaaafaaaafaaaafaaaafaaaafaaaafaaaafaaaafaaaafaaaafaaaafaaaafaaaafaaaafaaaafaaaafaaaafaaaafaaaafaaaafaaaafaaaafaaaafaaaafaaaafaaaafaaaafaaaafaaaafaaaafaaaafaaaafaaaafaaaafaaaafaaaafaaaafaaaafaaaafaaaafaaaafaaaafaaaafaaaafaaaafaaaafaaaafaaaafaaaafaaaafaaaafaaaafaaaafaaaafaaaafaaaafaaaafaaaafaaaafaaaafaaaafaaaafaaaafaaaafaaaafaaaafaaaafaaaafaaaafaaaafaaaafaaaafaaaafaaaafaaaafaaaafaaaafaaaafaaaafaaaafaaaafaaaafaaaafaaaafaaaafaaaafaaaafaaaafaaaafaaaafaaaafaaaafaaaafaaaafaaaafaaaafaaaafaaaafaaaafaaaafaaaafaaaafaaaafaaaafaaaafaaaafaaaafaaaafaaaafaaaafaaaafaaaafaaaafaaaafaaaafaaaafaaaafaaaafaaaafaaaafaaaafaaaafaaaafaaaafaaaafaaaafaaaafaaaafaaaafaaaafaaaafaaaafaaaafaaaafaaaafaaaafaaaafaaaafaaaafaaaafaaaafaaaafaaaafaaaafaaaafaaaafaaaafaaaafaaaafaaaafaaaafaaaafaaaafaaaafaaaafaaaafaaaafaaaafaaaafaaaafaaaafaaaafaaaafaaaafaaaafaaaafaaaafaaaafaaaafaaaafaaaafaaaafaaaafaaaafaaaafaaaafaaaafaaaafaaaafaaaafaaaafaaaafaaaafaaaafaaaafaaaafaaaafaaaafaaaafaaaafaaaafaaaafaaaafaaaafaaaafaaaafaaaafaaaafaaaafaaaafaaaafaaaafaaaafaaaafaaaafaaaafaaaafaaaafaaaafaaaafaaaafaaaafaaaafaaaafaaaafaaaafaaaafaaaafaaaafaaaafaaaafaaaafaaaafaaaafaaaafaaaafaaaafaaaafaaaafaaaafaaaafaaaafaaaafaaaafaaaafaaaafaaaafaaaafaaaafaaaafaaaafaaaafaaaafaaaafaaaafaaaafaaaafaaaafaaaafaaaafaaaafaaaafaaaafaaaafaaaafaaaafaaaafaaaafaaaafaaaafaaaafaaaafaaaafaaaafaaaafaaaafaaaafaaaafaaaafaaaafaaaafaaaafaaaafaaaafaaaafaaaafaaaafaaaafaaaafaaaafaaaafaaaafaaaafaaaafaaaafaaaafaaaafaaaafaaaafaaaafaaaafaaaafaaaafaaaafaaaafaaaafaaaafaaaafaaaafaaaafaaaafaaaafaaaafaaaafaaaafaaaafaaaafaaaafaaaafaaaafaaaafaaaafaaaafaaaafaaaafaaaafaaaafaaaafaaaafaaaafaaaafaaaafaaaafaaaafaaaafaaaafaaaafaaaafaaaafaaaafaaaafaaaafaaaafaaaafaaaafaaaafaaaafaaaafaaaafaaaafaaaafaaaafaaaafaaaafaaaafaaaafaaaafaaaafaaaafaaaafaaaafaaaafaaaafaaaafaaaafaaaafaaaafaaaafaaaafaaaafaaaafaaaafaaaafaaaafaaaafaaaafaaaafaaaafaaaafaaaafaaaafaaaafaaaafaaaafaaaafaaaafaaaafaaaafaaaafaaaafaaaafaaaafaaaafaaaafaaaafaaaafaaaafaaaafaaaafaaaafaaaafaaaafaaaafaaaafaaaafaaaafaaaafaaaafaaaafaaaafaaaafaaaafaaaafaaaafaaaafaaaafaaaafaaaafaaaafaaaafaaaafaaaafaaaafaaaafaaaafaaaafaaaafaaaafaaaafaaaafaaaafaaaafaaaafaaaafaaaafaaaafaaaafaaaafaaaafaaaafaaaafaaaafaaaafaaaafaaaafaaaafaaaafaaaafaaaafaaaafaaaafaaaafaaaafaaaafaaaafaaaafaaaafaaaafaaaafaaaafaaaafaaaafaaaafaaaafaaaafaaaafaaaafaaaafaaaafaaaafaaaafaaaafaaaafaaaafaaaafaaaafaaaafaaaafaaaafaaaafaaaafaaaafaaaafaaaafaaaafaaaafaaaafaaaafaaaafaaaafaaaafaaaafaaaafaaaafaaaafaaaafaaaafaaaafaaaafaaaafaaaafaaaafaaaafaaaafaaaafaaaafaaaafaaaafaaaafaaaafaaaafaaaafaaaafaaaafaaaafaaaafaaaafaaaafaaaafaaaafaaaafaaaafaaaafaaaafaaaafaaaafaaaafaaaafaaaafaaaafaaaafaaaafaaaafaaaafaaaafaaaafaaaafaaaafaaaafaaaafaaaafaaaafaaaafaaaafaaaafaaaafaaaafaaaafaaaafaaaafaaaafaaaafaaaafaaaafaaaafaaaafaaaafaaaafaaaafaaaafaaaafaaaafaaaafaaaafaaaafaaaafaaaafaaaafaaaafaaaafaaaafaaaafaaaafaaaafaaaafaaaafaaaafaaaafaaaafaaaafaaaafaaaafaaaafaaaafaaaafaaaafaaaafaaaafaaaafaaaafaaaafaaaafaaaafaaaafaaaafaaaafaaaafaaaafaaaafaaaafaaaafaaaafaaaafaaaafaaaafaaaafaaaafaaaafaaaafaaaafaaaafaaaafaaaafaaaafaaaafaaaafaaaafaaaafaaaafaaaafaaaafaaaafaaaafaaaafaaaafaaaafaaaafaaaafaaaafaaaafaaaafaaaafaaaafaaaafaaaafaaaafaaaafaaaafaaaafaaaafaaaafaaaafaaaafaaaafaaaafaaaafaaaafaaaafaaaafaaaafaaaafaaaafaaaafaaaafaaaafaaaafaaaafaaaafaaaafaaaafaaaafaaaafaaaafaaaafaaaafaaaafaaaafaaaafaaaafaaaafaaaafaaaafaaaafaaaafaaaafaaaafaaaafaaaafaaaafaaaafaaaafaaaafaaaafaaaafaaaafaaaafaaaafaaaafaaaafaaaafaaaafaaaafaaaafaaaafaaaafaaaafaaaafaaaafaaaafaaaafaaaafaaaafaaaafaaaafaaaafaaaafaaaafaaaafaaaafaaaafaaaafaaaafaaaafaaaafaaaafaaaafaaaafaaaafaaaafaaaafaaaafaaaafaaaafaaaafaaaafaaaafaaaafaaaafaaaafaaaafaaaafaaaafaaaafaaaafaaaafaaaafaaaafaaaafaaaafaaaafaaaafaaaafaaaafaaaafaaaafaaaafaaaafaaaafaaaafaaaafaaaafaaaafaaaafaaaafaaaafaaaafaaaafaaaafaaaafaaaafaaaafaaaafaaaafaaaafaaaafaaaafaaaafaaaafaaaafaaaafaaaafaaaafaaaafaaaafaaaafaaaafaaaafaaaafaaaafaaaafaaaafaaaafaaaafaaaafaaaafaaaafaaaafaaaafaaaafaaaafaaaafaaaafaaaafaaaafaaaafaaaafaaaafaaaafaaaafaaaafaaaafaaaafaaaafaaaafaaaafaaaafaaaafaaaafaaaafaaaafaaaafaaaafaaaafaaaafaaaafaaaafaaaafaaaafaaaafaaaafaaaafaaaafaaaafaaaafaaaafaaaafaaaafaaaafaaaafaaaafaaaafaaaafaaaafaaaafaaaafaaaafaaaafaaaafaaaafaaaafaaaafaaaafaaaafaaaafaaaafaaaafaaaafaaaafaaaafaaaafaaaafaaaafaaaafaaaafaaaafaaaafaaaafaaaafaaaafaaaafaaaafaaaafaaaafaaaafaaaafaaaafaaaafaaaafaaaafaaaafaaaafaaaafaaaafaaaafaaaafaaaafaaaafaaaafaaaafaaaafaaaafaaaafaaaafaaaafaaaafaaaafaaaafaaaafaaaafaaaafaaaafaaaafaaaafaaaafaaaafaaaafaaaafaaaafaaaafaaaafaaaafaaaafaaaafaaaafaaaafaaaafaaaafaaaafaaaafaaaafaaaafaaaafaaaafaaaafaaaafaaaafaaaafaaaafaaaafaaaafaaaafaaaafaaaafaaaafaaaafaaaafaaaafaaaafaaaafaaaafaaaafaaaafaaaafaaaafaaaafaaaafaaaafaaaafaaaafaaaafaaaafaaaafaaaafaaaafaaaafaaaafaaaafaaaafaaaafaaaafaaaafaaaafaaaafaaaafaaaafaaaafaaaafaaaafaaaafaaaafaaaafaaaafaaaafaaaafaaaafaaaafaaaafaaaafaaaafaaaafaaaafaaaafaaaafaaaafaaaafaaaafaaaafaaaafaaaafaaaafaaaafaaaafaaaafaaaafaaaafaaaafaaaafaaaafaaaafaaaafaaaafaaaafaaaafaaaafaaaafaaaafaaaafaaaafaaaafaaaafaaaafaaaafaaaafaaaafaaaafaaaafaaaafaaaafaaaafaaaafaaaafaaaafaaaafaaaafaaaafaaaafaaaafaaaafaaaafaaaafaaaafaaaafaaaafaaaafaaaafaaaafaaaafaaaafaaaafaaaafaaaafaaaafaaaafaaaafaaaafaaaafaaaafaaaafaaaafaaaafaaaafaaaafaaaafaaaafaaaafaaaafaaaafaaaafaaaafaaaafaaaafaaaafaaaafaaaafaaaafaaaafaaaafaaaafaaaafaaaafaaaafaaaafaaaafaaaafaaaafaaaafaaaafaaaafaaaafaaaafaaaafaaaafaaaafaaaafaaaafaaaafaaaafaaaafaaaafaaaafaaaafaaaafaaaafaaaafaaaafaaaafaaaafaaaafaaaafaaaafaaaafaaaafaaaafaaaafaaaafaaaafaaaafaaaafaaaafaaaafaaaafaaaafaaaafaaaafaaaafaaaafaaaafaaaafaaaafaaaafaaaafaaaafaaaafaaaafaaaafaaaafaaaafaaaafaaaafaaaafaaaafaaaafaaaafaaaafaaaafaaaafaaaafaaaafaaaafaaaafaaaafaaaafaaaafaaaafaaaafaaaafaaaafaaaafaaaafaaaafaaaafaaaafaaaafaaaafaaaafaaaafaaaafaaaafaaaafaaaafaaaafaaaafaaaafaaaafaaaafaaaafaaaafaaaafaaaafaaaafaaaafaaaafaaaafaaaafaaaafaaaafaaaafaaaafaaaafaaaafaaaafaaaafaaaafaaaafaaaafaaaafaaaafaaaafaaaafaaaafaaaafaaaafaaaafaaaafaaaafaaaafaaaafaaaafaaaafaaaafaaaafaaaafaaaafaaaafaaaafaaaafaaaafaaaafaaaafaaaafaaaafaaaafaaaafaaaafaaaafaaaafaaaafaaaafaaaafaaaafaaaafaaaafaaaafaaaafaaaafaaaafaaaafaaaafaaaafaaaafaaaafaaaafaaaafaaaafaaaafaaaafaaaafaaaafaaaafaaaafaaaafaaaafaaaafaaaafaaaafaaaafaaaafaaaafaaaafaaaafaaaafaaaafaaaafaaaafaaaafaaaafaaaafaaaafaaaafaaaafaaaafaaaafaaaafaaaafaaaafaaaafaaaafaaaafaaaafaaaafaaaafaaaafaaaafaaaafaaaafaaaafaaaafaaaafaaaafaaaafaaaafaaaafaaaafaaaafaaaafaaaafaaaafaaaafaaaafaaaafaaaafaaaafaaaafaaaafaaaafaaaafaaaafaaaafaaaafaaaafaaaafaaaafaaaafaaaafaaaafaaaafaaaafaaaafaaaafaaaafaaaafaaaafaaaafaaaafaaaafaaaafaaaafaaaafaaaafaaaafaaaafaaaafaaaafaaaafaaaafaaaafaaaafaaaafaaaafaaaafaaaafaaaafaaaafaaaafaaaafaaaafaaaafaaaafaaaafaaaafaaaafaaaafaaaafaaaafaaaafaaaafaaaafaaaafaaaafaaaafaaaafaaaafaaaafaaaafaaaafaaaafaaaafaaaafaaaafaaaafaaaafaaaafaaaafaaaafaaaafaaaafaaaafaaaafaaaafaaaafaaaafaaaafaaaafaaaafaaaafaaaafaaaafaaaafaaaafaaaafaaaafaaaafaaaafaaaafaaaafaaaafaaaafaaaafaaaafaaaafaaaafaaaafaaaafaaaafaaaafaaaafaaaafaaaafaaaafaaaafaaaafaaaafaaaafaaaafaaaafaaaafaaaafaaaafaaaafaaaafaaaafaaaafaaaafaaaafaaaafaaaafaaaafaaaafaaaafaaaafaaaafaaaafaaaafaaaafaaaafaaaafaaaafaaaafaaaafaaaafaaaafaaaafaaaafaaaafaaaafaaaafaaaafaaaafaaaafaaaafaaaafaaaafaaaafaaaafaaaafaaaafaaaafaaaafaaaafaaaafaaaafaaaafaaaafaaaafaaaafaaaafaaaafaaaafaaaafaaaafaaaafaaaafaaaafaaaafaaaafaaaafaaaafaaaafaaaafaaaafaaaafaaaafaaaafaaaafaaaafaaaafaaaafaaaafaaaafaaaafaaaafaaaafaaaafaaaafaaaafaaaafaaaafaaaafaaaafaaaafaaaafaaaafaaaafaaaafaaaafaaaafaaaafaaaafaaaafaaaafaaaafaaaafaaaafaaaafaaaafaaaafaaaafaaaafaaaafaaaafaaaafaaaafaaaafaaaafaaaafaaaafaaaafaaaafaaaafaaaafaaaafaaaafaaaafaaaafaaaafaaaafaaaafaaaafaaaafaaaafaaaafaaaafaaaafaaaafaaaafaaaafaaaafaaaafaaaafaaaafaaaafaaaafaaaafaaaafaaaafaaaafaaaafaaaafaaaafaaaafaaaafaaaafaaaafaaaafaaaafaaaafaaaafaaaafaaaafaaaafaaaafaaaafaaaafaaaafaaaafaaaafaaaafaaaafaaaafaaaafaaaafaaaafaaaafaaaafaaaafaaaafaaaafaaaafaaaafaaaafaaaafaaaafaaaafaaaafaaaafaaaafaaaafaaaafaaaafaaaafaaaafaaaafaaaafaaaafaaaafaaaafaaaafaaaafaaaafaaaafaaaafaaaafaaaafaaaafaaaafaaaafaaaafaaaafaaaafaaaafaaaafaaaafaaaafaaaafaaaafaaaafaaaafaaaafaaaafaaaafaaaafaaaafaaaafaaaafaaaafaaaafaaaafaaaafaaaafaaaafaaaafaaaafaaaafaaaafaaaafaaaafaaaafaaaafaaaafaaaafaaaafaaaafaaaafaaaafaaaafaaaafaaaafaaaafaaaafaaaafaaaafaaaafaaaafaaaafaaaafaaaafaaaafaaaafaaaafaaaafaaaafaaaafaaaafaaaafaaaafaaaafaaaafaaaafaaaafaaaafaaaafaaaafaaaafaaaafaaaafaaaafaaaafaaaafaaaafaaaafaaaafaaaafaaaafaaaafaaaafaaaafaaaafaaaafaaaafaaaafaaaafaaaafaaaafaaaafaaaafaaaafaaaafaaaafaaaafaaaafaaaafaaaafaaaafaaaafaaaafaaaafaaaafaaaafaaaafaaaafaaaafaaaafaaaafaaaafaaaafaaaafaaaafaaaafaaaafaaaafaaaafaaaafaaaafaaaafaaaafaaaafaaaafaaaafaaaafaaaafaaaafaaaafaaaafaaaafaaaafaaaafaaaafaaaafaaaafaaaafaaaafaaaafaaaafaaaafaaaafaaaafaaaafaaaafaaaafaaaafaaaafaaaafaaaafaaaafaaaafaaaafaaaafaaaafaaaafaaaafaaaafaaaafaaaafaaaafaaaafaaaafaaaafaaaafaaaafaaaafaaaafaaaafaaaafaaaafaaaafaaaafaaaafaaaafaaaafaaaafaaaafaaaafaaaafaaaafaaaafaaaafaaaafaaaafaaaafaaaafaaaafaaaafaaaafaaaafaaaafaaaafaaaafaaaafaaaafaaaafaaaafaaaafaaaafaaaafaaaafaaaafaaaafaaaafaaaafaaaafaaaafaaaafaaaafaaaafaaaafaaaafaaaafaaaafaaaafaaaafaaaafaaaafaaaafaaaafaaaafaaaafaaaafaaaafaaaafaaaafaaaafaaaafaaaafaaaafaaaafaaaafaaaafaaaafaaaafaaaafaaaafaaaafaaaafaaaafaaaafaaaafaaaafaaaafaaaafaaaafaaaafaaaafaaaafaaaafaaaafaaaafaaaafaaaafaaaafaaaafaaaafaaaafaaaafaaaafaaaafaaaafaaaafaaaafaaaafaaaafaaaafaaaafaaaafaaaafaaaafaaaafaaaafaaaafaaaafaaaafaaaafaaaafaaaafaaaafaaaafaaaafaaaafaaaafaaaafaaaafaaaafaaaafaaaafaaaafaaaafaaaafaaaafaaaafaaaafaaaafaaaafaaaafaaaafaaaafaaaafaaaafaaaafaaaafaaaafaaaafaaaafaaaafaaaafaaaafaaaafaaaafaaaafaaaafaaaafaaaafaaaafaaaafaaaafaaaafaaaafaaaafaaaafaaaafaaaafaaaafaaaafaaaafaaaafaaaafaaaafaaaafaaaafaaaafaaaafaaaafaaaafaaaafaaaafaaaafaaaafaaaafaaaafaaaafaaaafaaaafaaaafaaaafaaaafaaaafaaaafaaaafaaaafaaaafaaaafaaaafaaaafaaaafaaaafaaaafaaaafaaaafaaaafaaaafaaaafaaaafaaaafaaaafaaaafaaaafaaaafaaaafaaaafaaaafaaaafaaaafaaaafaaaafaaaafaaaafaaaafaaaafaaaafaaaafaaaafaaaafaaaafaaaafaaaafaaaafaaaafaaaafaaaafaaaafaaaafaaaafaaaafaaaafaaaafaaaafaaaafaaaafaaaafaaaafaaaafaaaafaaaafaaaafaaaafaaaafaaaafaaaafaaaafaaaafaaaafaaaafaaaafaaaafaaaafaaaafaaaafaaaafaaaafaaaafaaaafaaaafaaaafaaaafaaaafaaaafaaaafaaaafaaaafaaaafaaaafaaaafaaaafaaaafaaaafaaaafaaaafaaaafaaaafaaaafaaaafaaaafaaaafaaaafaaaafaaaafaaaafaaaafaaaafaaaafaaaafaaaafaaaafaaaafaaaafaaaafaaaafaaaafaaaafaaaafaaaafaaaafaaaafaaaafaaaafaaaafaaaafaaaafaaaafaaaafaaaafaaaafaaaafaaaafaaaafaaaafaaaafaaaafaaaafaaaafaaaafaaaafaaaafaaaafaaaafaaaafaaaafaaaafaaaafaaaafaaaafaaaafaaaafaaaafaaaafaaaafaaaafaaaafaaaafaaaafaaaafaaaafaaaafaaaafaaaafaaaafaaaafaaaafaaaafaaaafaaaafaaaafaaaafaaaafaaaafaaaafaaaafaaaafaaaafaaaafaaaafaaaafaaaafaaaafaaaafaaaafaaaafaaaafaaaafaaaafaaaafaaaafaaaafaaaafaaaafaaaafaaaafaaaafaaaafaaaafaaaafaaaafaaaafaaaafaaaafaaaafaaaafaaaafaaaafaaaafaaaafaaaafaaaafaaaafaaaafaaaafaaaafaaaafaaaafaaaafaaaafaaaafaaaafaaaafaaaafaaaafaaaafaaaafaaaafaaaafaaaafaaaafaaaafaaaafaaaafaaaafaaaafaaaafaaaafaaaafaaaafaaaafaaaafaaaafaaaafaaaafaaaafaaaafaaaafaaaafaaaafaaaafaaaafaaaafaaaafaaaafaaaafaaaafaaaafaaaafaaaafaaaafaaaafaaaafaaaafaaaafaaaafaaaafaaaafaaaafaaaafaaaafaaaafaaaafaaaafaaaafaaaafaaaafaaaafaaaafaaaafaaaafaaaafaaaafaaaafaaaafaaaafaaaafaaaafaaaafaaaafaaaafaaaafaaaafaaaafaaaafaaaafaaaafaaaafaaaafaaaafaaaafaaaafaaaafaaaafaaaafaaaafaaaafaaaafaaaafaaaafaaaafaaaafaaaafaaaafaaaafaaaafaaaafaaaafaaaafaaaafaaaafaaaafaaaafaaaafaaaafaaaafaaaafaaaafaaaafaaaafaaaafaaaafaaaafaaaafaaaafaaaafaaaafaaaafaaaafaaaafaaaafaaaafaaaafaaaafaaaafaaaafaaaafaaaafaaaafaaaafaaaafaaaafaaaafaaaafaaaafaaaafaaaafaaaafaaaafaaaafaaaafaaaafaaaafaaaafaaaafaaaafaaaafaaaafaaaafaaaafaaaafaaaafaaaafaaaafaaaafaaaafaaaafaaaafaaaafaaaafaaaafaaaafaaaafaaaafaaaafaaaafaaaafaaaafaaaafaaaafaaaafaaaafaaaafaaaafaaaafaaaafaaaafaaaafaaaafaaaafaaaafaaaafaaaafaaaafaaaafaaaafaaaafaaaafaaaafaaaafaaaafaaaafaaaafaaaafaaaafaaaafaaaafaaaafaaaafaaaafaaaafaaaafaaaafaaaafaaaafaaaafaaaafaaaafaaaafaaaafaaaafaaaafaaaafaaaafaaaafaaaafaaaafaaaafaaaafaaaafaaaafaaaafaaaafaaaafaaaafaaaafaaaafaaaafaaaafaaaafaaaafaaaafaaaafaaaafaaaafaaaafaaaafaaaafaaaafaaaafaaaafaaaafaaaafaaaafaaaafaaaafaaaafaaaafaaaafaaaafaaaafaaaafaaaafaaaafaaaafaaaafaaaafaaaafaaaafaaaafaaaafaaaafaaaafaaaafaaaafaaaafaaaafaaaafaaaafaaaafaaaafaaaafaaaafaaaafaaaafaaaafaaaafaaaafaaaafaaaafaaaafaaaafaaaafaaaafaaaafaaaafaaaafaaaafaaaafaaaafaaaafaaaafaaaafaaaafaaaafaaaafaaaafaaaafaaaafaaaafaaaafaaaafaaaafaaaafaaaafaaaafaaaafaaaafaaaafaaaafaaaafaaaafaaaafaaaafaaaafaaaafaaaafaaaafaaaafaaaafaaaafaaaafaaaafaaaafaaaafaaaafaaaafaaaafaaaafaaaafaaaafaaaafaaaafaaaafaaaafaaaafaaaafaaaafaaaafaaaafaaaafaaaafaaaafaaaafaaaafaaaafaaaafaaaafaaaafaaaafaaaafaaaafaaaafaaaafaaaafaaaafaaaafaaaafaaaafaaaafaaaafaaaafaaaafaaaafaaaafaaaafaaaafaaaafaaaafaaaafaaaafaaaafaaaafaaaafaaaafaaaafaaaafaaaafaaaafaaaafaaaafaaaafaaaafaaaafaaaafaaaafaaaafaaaafaaaafaaaafaaaafaaaafaaaafaaaafaaaafaaaafaaaafaaaafaaaafaaaafaaaafaaaafaaaafaaaafaaaafaaaafaaaafaaaafaaaafaaaafaaaafaaaafaaaafaaaafaaaafaaaafaaaafaaaafaaaafaaaafaaaafaaaafaaaafaaaafaaaafaaaafaaaafaaaafaaaafaaaafaaaafaaaafaaaafaaaafaaaafaaaafaaaafaaaafaaaafaaaafaaaafaaaafaaaafaaaafaaaafaaaafaaaafaaaafaaaafaaaafaaaafaaaafaaaafaaaafaaaafaaaafaaaafaaaafaaaafaaaafaaaafaaaafaaaafaaaafaaaafaaaafaaaafaaaafaaaafaaaafaaaafaaaafaaaafaaaafaaaafaaaafaaaafaaaafaaaafaaaafaaaafaaaafaaaafaaaafaaaafaaaafaaaafaaaafaaaafaaaafaaaafaaaafaaaafaaaafaaaafaaaafaaaafaaaafaaaafaaaafaaaafaaaafaaaafaaaafaaaafaaaafaaaafaaaafaaaafaaaafaaaafaaaafaaaafaaaafaaaafaaaafaaaafaaaafaaaafaaaafaaaafaaaafaaaafaaaafaaaafaaaafaaaafaaaafaaaafaaaafaaaafaaaafaaaafaaaafaaaafaaaafaaaafaaaafaaaafaaaafaaaafaaaafaaaafaaaafaaaafaaaafaaaafaaaafaaaafaaaafaaaafaaaafaaaafaaaafaaaafaaaafaaaafaaaafaaaafaaaafaaaafaaaafaaaafaaaafaaaafaaaafaaaafaaaafaaaafaaaafaaaafaaaafaaaafaaaafaaaafaaaafaaaafaaaafaaaafaaaafaaaafaaaafaaaafaaaafaaaafaaaafaaaafaaaafaaaafaaaafaaaafaaaafaaaafaaaafaaaafaaaafaaaafaaaafaaaafaaaafaaaafaaaafaaaafaaaafaaaafaaaafaaaafaaaafaaaafaaaafaaaafaaaafaaaafaaaafaaaafaaaafaaaafaaaafaaaafaaaafaaaafaaaafaaaafaaaafaaaafaaaafaaaafaaaafaaaafaaaafaaaafaaaafaaaafaaaafaaaafaaaafaaaafaaaafaaaafaaaafaaaafaaaafaaaafaaaafaaaafaaaafaaaafaaaafaaaafaaaafaaaafaaaafaaaafaaaafaaaafaaaafaaaafaaaafaaaafaaaafaaaafaaaafaaaafaaaafaaaafaaaafaaaafaaaafaaaafaaaafaaaafaaaafaaaafaaaafaaaafaaaafaaaafaaaafaaaafaaaafaaaafaaaafaaaafaaaafaaaafaaaafaaaafaaaafaaaafaaaafaaaafaaaafaaaafaaaafaaaafaaaafaaaafaaaafaaaafaaaafaaaafaaaafaaaafaaaafaaaafaaaafaaaafaaaafaaaafaaaafaaaafaaaafaaaafaaaafaaaafaaaafaaaafaaaafaaaafaaaafaaaafaaaafaaaafaaaafaaaafaaaafaaaafaaaafaaaafaaaafaaaafaaaafaaaafaaaafaaaafaaaafaaaafaaaafaaaafaaaafaaaafaaaafaaaafaaaafaaaafaaaafaaaafaaaafaaaafaaaafaaaafaaaafaaaafaaaafaaaafaaaafaaaafaaaafaaaafaaaafaaaafaaaafaaaafaaaafaaaafaaaafaaaafaaaafaaaafaaaafaaaafaaaafaaaafaaaafaaaafaaaafaaaafaaaafaaaafaaaafaaaafaaaafaaaafaaaafaaaafaaaafaaaafaaaafaaaafaaaafaaaafaaaafaaaafaaaafaaaafaaaafaaaafaaaafaaaafaaaafaaaafaaaafaaaafaaaafaaaafaaaafaaaafaaaafaaaafaaaafaaaafaaaafaaaafaaaafaaaafaaaafaaaafaaaafaaaafaaaafaaaafaaaafaaaafaaaafaaaafaaaafaaaafaaaafaaaafaaaafaaaafaaaafaaaafaaaafaaaafaaaafaaaafaaaafaaaafaaaafaaaafaaaafaaaafaaaafaaaafaaaafaaaafaaaafaaaafaaaafaaaafaaaafaaaafaaaafaaaafaaaafaaaafaaaafaaaafaaaafaaaafaaaafaaaafaaaafaaaafaaaafaaaafaaaafaaaafaaaafaaaafaaaafaaaafaaaafaaaafaaaafaaaafaaaafaaaafaaaafaaaafaaaafaaaafaaaafaaaafaaaafaaaafaaaafaaaafaaaafaaaafaaaafaaaafaaaafaaaafaaaafaaaafaaaafaaaafaaaafaaaafaaaafaaaafaaaafaaaafaaaafaaaafaaaafaaaafaaaafaaaafaaaafaaaafaaaafaaaafaaaafaaaafaaaafaaaafaaaafaaaafaaaafaaaafaaaafaaaafaaaafaaaafaaaafaaaafaaaafaaaafaaaafaaaafaaaafaaaafaaaafaaaafaaaafaaaafaaaafaaaafaaaafaaaafaaaafaaaafaaaafaaaafaaaafaaaafaaaafaaaafaaaafaaaafaaaafaaaafaaaafaaaafaaaafaaaafaaaafaaaafaaaafaaaafaaaafaaaafaaaafaaaafaaaafaaaafaaaafaaaafaaaafaaaafaaaafaaaafaaaafaaaafaaaafaaaafaaaafaaaafaaaafaaaafaaaafaaaafaaaafaaaafaaaafaaaafaaaafaaaafaaaafaaaafaaaafaaaafaaaafaaaafaaaafaaaafaaaafaaaafaaaafaaaafaaaafaaaafaaaafaaaafaaaafaaaafaaaafaaaafaaaafaaaafaaaafaaaafaaaafaaaafaaaafaaaafaaaafaaaafaaaafaaaafaaaafaaaafaaaafaaaafaaaafaaaafaaaafaaaafaaaafaaaafaaaafaaaafaaaafaaaafaaaafaaaafaaaafaaaafaaaafaaaafaaaafaaaafaaaafaaaafaaaafaaaafaaaafaaaafaaaafaaaafaaaafaaaafaaaafaaaafaaaafaaaafaaaafaaaafaaaafaaaafaaaafaaaafaaaafaaaafaaaafaaaafaaaafaaaafaaaafaaaafaaaafaaaafaaaafaaaafaaaafaaaafaaaafaaaafaaaafaaaafaaaafaaaafaaaafaaaafaaaafaaaafaaaafaaaafaaaafaaaafaaaafaaaafaaaafaaaafaaaafaaaafaaaafaaaafaaaafaaaafaaaafaaaafaaaafaaaafaaaafaaaafaaaafaaaafaaaafaaaafaaaafaaaafaaaafaaaafaaaafaaaafaaaafaaaafaaaafaaaafaaaafaaaafaaaafaaaafaaaafaaaafaaaafaaaafaaaafaaaafaaaafaaaafaaaafaaaafaaaafaaaafaaaafaaaafaaaafaaaafaaaafaaaafaaaafaaaafaaaafaaaafaaaafaaaafaaaafaaaafaaaafaaaafaaaafaaaafaaaafaaaafaaaafaaaafaaaafaaaafaaaafaaaafaaaafaaaafaaaafaaaafaaaafaaaafaaaafaaaafaaaafaaaafaaaafaaaafaaaafaaaafaaaafaaaafaaaafaaaafaaaafaaaafaaaafaaaafaaaafaaaafaaaafaaaafaaaafaaaafaaaafaaaafaaaafaaaafaaaafaaaafaaaafaaaafaaaafaaaafaaaafaaaafaaaafaaaafaaaafaaaafaaaafaaaafaaaafaaaafaaaafaaaafaaaafaaaafaaaafaaaafaaaafaaaafaaaafaaaafaaaafaaaafaaaafaaaafaaaafaaaafaaaafaaaafaaaafaaaafaaaafaaaafaaaafaaaafaaaafaaaafaaaafaaaafaaaafaaaafaaaafaaaafaaaafaaaafaaaafaaaafaaaafaaaafaaaafaaaafaaaafaaaafaaaafaaaafaaaafaaaafaaaafaaaafaaaafaaaafaaaafaaaafaaaafaaaafaaaafaaaafaaaafaaaafaaaafaaaafaaaafaaaafaaaafaaaafaaaafaaaafaaaafaaaafaaaafaaaafaaaafaaaafaaaafaaaafaaaafaaaafaaaafaaaafaaaafaaaafaaaafaaaafaaaafaaaafaaaafaaaafaaaafaaaafaaaafaaaafaaaafaaaafaaaafaaaafaaaafaaaafaaaafaaaafaaaafaaaafaaaafaaaafaaaafaaaafaaaafaaaafaaaafaaaafaaaafaaaafaaaafaaaafaaaafaaaafaaaafaaaafaaaafaaaafaaaafaaaafaaaafaaaafaaaafaaaafaaaafaaaafaaaafaaaafaaaafaaaafaaaafaaaafaaaafaaaafaaaafaaaafaaaafaaaafaaaafaaaafaaaafaaaafaaaafaaaafaaaafaaaafaaaafaaaafaaaafaaaafaaaafaaaafaaaafaaaafaaaafaaaafaaaafaaaafaaaafaaaafaaaafaaaafaaaafaaaafaaaafaaaafaaaafaaaafaaaafaaaafaaaafaaaafaaaafaaaafaaaafaaaafaaaafaaaafaaaafaaaafaaaafaaaafaaaafaaaafaaaafaaaafaaaafaaaafaaaafaaaafaaaafaaaafaaaafaaaafaaaafaaaafaaaafaaaafaaaafaaaafaaaafaaaafaaaafaaaafaaaafaaaafaaaafaaaafaaaafaaaafaaaafaaaafaaaafaaaafaaaafaaaafaaaafaaaafaaaafaaaafaaaafaaaafaaaafaaaafaaaafaaaafaaaafaaaafaaaafaaaafaaaafaaaafaaaafaaaafaaaafaaaafaaaafaaaafaaaafaaaafaaaafaaaafaaaafaaaafaaaafaaaafaaaafaaaafaaaafaaaafaaaafaaaafaaaafaaaafaaaafaaaafaaaafaaaafaaaafaaaafaaaafaaaafaaaafaaaafaaaafaaaafaaaafaaaafaaaafaaaafaaaafaaaafaaaafaaaafaaaafaaaafaaaafaaaafaaaafaaaafaaaafaaaafaaaafaaaafaaaafaaaafaaaafaaaafaaaafaaaafaaaafaaaafaaaafaaaafaaaafaaaafaaaafaaaafaaaafaaaafaaaafaaaafaaaafaaaafaaaafaaaafaaaafaaaafaaaafaaaafaaaafaaaafaaaafaaaafaaaafaaaafaaaafaaaafaaaafaaaafaaaafaaaafaaaafaaaafaaaafaaaafaaaafaaaafaaaafaaaafaaaafaaaafaaaafaaaafaaaafaaaafaaaafaaaafaaaafaaaafaaaafaaaafaaaafaaaafaaaafaaaafaaaafaaaafaaaafaaaafaaaafaaaafaaaafaaaafaaaafaaaafaaaafaaaafaaaafaaaafaaaafaaaafaaaafaaaafaaaafaaaafaaaafaaaafaaaafaaaafaaaafaaaafaaaafaaaafaaaafaaaafaaaafaaaafaaaafaaaafaaaafaaaafaaaafaaaafaaaafaaaafaaaafaaaafaaaafaaaafaaaafaaaafaaaafaaaafaaaafaaaafaaaafaaaafaaaafaaaafaaaafaaaafaaaafaaaafaaaafaaaafaaaafaaaafaaaafaaaafaaaafaaaafaaaafaaaafaaaafaaaafaaaafaaaafaaaafaaaafaaaafaaaafaaaafaaaafaaaafaaaafaaaafaaaafaaaafaaaafaaaafaaaafaaaafaaaafaaaafaaaafaaaafaaaafaaaafaaaafaaaafaaaafaaaafaaaafaaaafaaaafaaaafaaaafaaaafaaaafaaaafaaaafaaaafaaaafaaaafaaaafaaaafaaaafaaaafaaaafaaaafaaaafaaaafaaaafaaaafaaaafaaaafaaaafaaaafaaaafaaaafaaaafaaaafaaaafaaaafaaaafaaaafaaaafaaaafaaaafaaaafaaaafaaaafaaaafaaaafaaaafaaaafaaaafaaaafaaaafaaaafaaaafaaaafaaaafaaaafaaaafaaaafaaaafaaaafaaaafaaaafaaaafaaaafaaaafaaaafaaaafaaaafaaaafaaaafaaaafaaaafaaaafaaaafaaaafaaaafaaaafaaaafaaaafaaaafaaaafaaaafaaaafaaaafaaaafaaaafaaaafaaaafaaaafaaaafaaaafaaaafaaaafaaaafaaaafaaaafaaaafaaaafaaaafaaaafaaaafaaaafaaaafaaaafaaaafaaaafaaaafaaaafaaaafaaaafaaaafaaaafaaaafaaaafaaaafaaaafaaaafaaaafaaaafaaaafaaaafaaaafaaaafaaaafaaaafaaaafaaaafaaaafaaaafaaaafaaaafaaaafaaaafaaaafaaaafaaaafaaaafaaaafaaaafaaaafaaaafaaaafaaaafaaaafaaaafaaaafaaaafaaaafaaaafaaaafaaaafaaaafaaaafaaaafaaaafaaaafaaaafaaaafaaaafaaaafaaaafaaaafaaaafaaaafaaaafaaaafaaaafaaaafaaaafaaaafaaaafaaaafaaaafaaaafaaaafaaaafaaaafaaaafaaaafaaaafaaaafaaaafaaaafaaaafaaaafaaaafaaaafaaaafaaaafaaaafaaaafaaaafaaaafaaaafaaaafaaaafaaaafaaaafaaaafaaaafaaaafaaaafaaaafaaaafaaaafaaaafaaaafaaaafaaaafaaaafaaaafaaaafaaaafaaaafaaaafaaaafaaaafaaaafaaaafaaaafaaaafaaaafaaaafaaaafaaaafaaaafaaaafaaaafaaaafaaaafaaaafaaaafaaaafaaaafaaaafaaaafaaaafaaaafaaaafaaaafaaaafaaaafaaaafaaaafaaaafaaaafaaaafaaaafaaaafaaaafaaaafaaaafaaaafaaaafaaaafaaaafaaaafaaaafaaaafaaaafaaaafaaaafaaaafaaaafaaaafaaaafaaaafaaaafaaaafaaaafaaaafaaaafaaaafaaaafaaaafaaaafaaaafaaaafaaaafaaaafaaaafaaaafaaaafaaaafaaaafaaaafaaaafaaaafaaaafaaaafaaaafaaaafaaaafaaaafaaaafaaaafaaaafaaaafaaaafaaaafaaaafaaaafaaaafaaaafaaaafaaaafaaaafaaaafaaaafaaaafaaaafaaaafaaaafaaaafaaaafaaaafaaaafaaaafaaaafaaaafaaaafaaaafaaaafaaaafaaaafaaaafaaaafaaaafaaaafaaaafaaaafaaaafaaaafaaaafaaaafaaaafaaaafaaaafaaaafaaaafaaaafaaaafaaaafaaaafaaaafaaaafaaaafaaaafaaaafaaaafaaaafaaaafaaaafaaaafaaaafaaaafaaaafaaaafaaaafaaaafaaaafaaaafaaaafaaaafaaaafaaaafaaaafaaaafaaaafaaaafaaaafaaaafaaaafaaaafaaaafaaaafaaaafaaaafaaaafaaaafaaaafaaaafaaaafaaaafaaaafaaaafaaaafaaaafaaaafaaaafaaaafaaaafaaaafaaaafaaaafaaaafaaaafaaaafaaaafaaaafaaaafaaaafaaaafaaaafaaaafaaaafaaaafaaaafaaaafaaaafaaaafaaaafaaaafaaaafaaaafaaaafaaaafaaaafaaaafaaaafaaaafaaaafaaaafaaaafaaaafaaaafaaaafaaaafaaaafaaaafaaaafaaaafaaaafaaaafaaaafaaaafaaaafaaaafaaaafaaaafaaaafaaaafaaaafaaaafaaaafaaaafaaaafaaaafaaaafaaaafaaaafaaaafaaaafaaaafaaaafaaaafaaaafaaaafaaaafaaaafaaaafaaaafaaaafaaaafaaaafaaaafaaaafaaaafaaaafaaaafaaaafaaaafaaaafaaaafaaaafaaaafaaaafaaaafaaaafaaaafaaaafaaaafaaaafaaaafaaaafaaaafaaaafaaaafaaaafaaaafaaaafaaaafaaaafaaaafaaaafaaaafaaaafaaaafaaaafaaaafaaaafaaaafaaaafaaaafaaaafaaaafaaaafaaaafaaaafaaaafaaaafaaaafaaaafaaaafaaaafaaaafaaaafaaaafaaaafaaaafaaaafaaaafaaaafaaaafaaaafaaaafaaaafaaaafaaaafaaaafaaaafaaaafaaaafaaaafaaaafaaaafaaaafaaaafaaaafaaaafaaaafaaaafaaaafaaaafaaaafaaaafaaaafaaaafaaaafaaaafaaaafaaaafaaaafaaaafaaaafaaaafaaaafaaaafaaaafaaaafaaaafaaaafaaaafaaaafaaaafaaaafaaaafaaaafaaaafaaaafaaaafaaaafaaaafaaaafaaaafaaaafaaaafaaaafaaaafaaaafaaaafaaaafaaaafaaaafaaaafaaaafaaaafaaaafaaaafaaaafaaaafaaaafaaaafaaaafaaaafaaaafaaaafaaaafaaaafaaaafaaaafaaaafaaaafaaaafaaaafaaaafaaaafaaaafaaaafaaaafaaaafaaaafaaaafaaaafaaaafaaaafaaaafaaaafaaaafaaaafaaaafaaaafaaaafaaaafaaaafaaaafaaaafaaaafaaaafaaaafaaaafaaaafaaaafaaaafaaaafaaaafaaaafaaaafaaaafaaaafaaaafaaaafaaaafaaaafaaaafaaaafaaaafaaaafaaaafaaaafaaaafaaaafaaaafaaaafaaaafaaaafaaaafaaaafaaaafaaaafaaaafaaaafaaaafaaaafaaaafaaaafaaaafaaaafaaaafaaaafaaaafaaaafaaaafaaaafaaaafaaaafaaaafaaaafaaaafaaaafaaaafaaaafaaaafaaaafaaaafaaaafaaaafaaaafaaaafaaaafaaaafaaaafaaaafaaaafaaaafaaaafaaaafaaaafaaaafaaaafaaaafaaaafaaaafaaaafaaaafaaaafaaaafaaaafaaaafaaaafaaaafaaaafaaaafaaaafaaaafaaaafaaaafaaaafaaaafaaaafaaaafaaaafaaaafaaaafaaaafaaaafaaaafaaaafaaaafaaaafaaaafaaaafaaaafaaaafaaaafaaaafaaaafaaaafaaaafaaaafaaaafaaaafaaaafaaaafaaaafaaaafaaaafaaaafaaaafaaaafaaaafaaaafaaaafaaaafaaaafaaaafaaaafaaaafaaaafaaaafaaaafaaaafaaaafaaaafaaaafaaaafaaaafaaaafaaaafaaaafaaaafaaaafaaaafaaaafaaaafaaaafaaaafaaaafaaaafaaaafaaaafaaaafaaaafaaaafaaaafaaaafaaaafaaaafaaaafaaaafaaaafaaaafaaaafaaaafaaaafaaaafaaaafaaaafaaaafaaaafaaaafaaaafaaaafaaaafaaaafaaaafaaaafaaaafaaaafaaaafaaaafaaaafaaaafaaaafaaaafaaaafaaaafaaaafaaaafaaaafaaaafaaaafaaaafaaaafaaaafaaaafaaaafaaaafaaaafaaaafaaaafaaaafaaaafaaaafaaaafaaaafaaaafaaaafaaaafaaaafaaaafaaaafaaaafaaaafaaaafaaaafaaaafaaaafaaaafaaaafaaaafaaaafaaaafaaaafaaaafaaaafaaaafaaaafaaaafaaaafaaaafaaaafaaaafaaaafaaaafaaaafaaaafaaaafaaaafaaaafaaaafaaaafaaaafaaaafaaaafaaaafaaaafaaaafaaaafaaaafaaaafaaaafaaaafaaaafaaaafaaaafaaaafaaaafaaaafaaaafaaaafaaaafaaaafaaaafaaaafaaaafaaaafaaaafaaaafaaaafaaaafaaaafaaaafaaaafaaaafaaaafaaaafaaaafaaaafaaaafaaaafaaaafaaaafaaaafaaaafaaaafaaaafaaaafaaaafaaaafaaaafaaaafaaaafaaaafaaaafaaaafaaaafaaaafaaaafaaaafaaaafaaaafaaaafaaaafaaaafaaaafaaaafaaaafaaaafaaaafaaaafaaaafaaaafaaaafaaaafaaaafaaaafaaaafaaaafaaaafaaaafaaaafaaaafaaaafaaaafaaaafaaaafaaaafaaaafaaaafaaaafaaaafaaaafaaaafaaaafaaaafaaaafaaaafaaaafaaaafaaaafaaaafaaaafaaaafaaaafaaaafaaaafaaaafaaaafaaaafaaaafaaaafaaaafaaaafaaaafaaaafaaaafaaaafaaaafaaaafaaaafaaaafaaaafaaaafaaaafaaaafaaaafaaaafaaaafaaaafaaaafaaaafaaaafaaaafaaaafaaaafaaaafaaaafaaaafaaaafaaaafaaaafaaaafaaaafaaaafaaaafaaaafaaaafaaaafaaaafaaaafaaaafaaaafaaaafaaaafaaaafaaaafaaaafaaaafaaaafaaaafaaaafaaaafaaaafaaaafaaaafaaaafaaaafaaaafaaaafaaaafaaaafaaaafaaaafaaaafaaaafaaaafaaaafaaaafaaaafaaaafaaaafaaaafaaaafaaaafaaaafaaaafaaaafaaaafaaaafaaaafaaaafaaaafaaaafaaaafaaaafaaaafaaaafaaaafaaaafaaaafaaaafaaaafaaaafaaaafaaaafaaaafaaaafaaaafaaaafaaaafaaaafaaaafaaaafaaaafaaaafaaaafaaaafaaaafaaaafaaaafaaaafaaaafaaaafaaaafaaaafaaaafaaaafaaaafaaaafaaaafaaaafaaaafaaaafaaaafaaaafaaaafaaaafaaaafaaaafaaaafaaaafaaaafaaaafaaaafaaaafaaaafaaaafaaaafaaaafaaaafaaaafaaaafaaaafaaaafaaaafaaaafaaaafaaaafaaaafaaaafaaaafaaaafaaaafaaaafaaaafaaaafaaaafaaaafaaaafaaaafaaaafaaaafaaaafaaaafaaaafaaaafaaaafaaaafaaaafaaaafaaaafaaaafaaaafaaaafaaaafaaaafaaaafaaaafaaaafaaaafaaaafaaaafaaaafaaaafaaaafaaaafaaaafaaaafaaaafaaaafaaaafaaaafaaaafaaaafaaaafaaaafaaaafaaaafaaaafaaaafaaaafaaaafaaaafaaaafaaaafaaaafaaaafaaaafaaaafaaaafaaaafaaaafaaaafaaaafaaaafaaaafaaaafaaaafaaaafaaaafaaaafaaaafaaaafaaaafaaaafaaaafaaaafaaaafaaaafaaaafaaaafaaaafaaaafaaaafaaaafaaaafaaaafaaaafaaaafaaaafaaaafaaaafaaaafaaaafaaaafaaaafaaaafaaaafaaaafaaaafaaaafaaaafaaaafaaaafaaaafaaaafaaaafaaaafaaaafaaaafaaaafaaaafaaaafaaaafaaaafaaaafaaaafaaaafaaaafaaaafaaaafaaaafaaaafaaaafaaaafaaaafaaaafaaaafaaaafaaaafaaaafaaaafaaaafaaaafaaaafaaaafaaaafaaaafaaaafaaaafaaaafaaaafaaaafaaaafaaaafaaaafaaaafaaaafaaaafaaaafaaaafaaaafaaaafaaaafaaaafaaaafaaaafaaaafaaaafaaaafaaaafaaaafaaaafaaaafaaaafaaaafaaaafaaaafaaaafaaaafaaaafaaaafaaaafaaaafaaaafaaaafaaaafaaaafaaaafaaaafaaaafaaaafaaaafaaaafaaaafaaaafaaaafaaaafaaaafaaaafaaaafaaaafaaaafaaaafaaaafaaaafaaaafaaaafaaaafaaaafaaaafaaaafaaaafaaaafaaaafaaaafaaaafaaaafaaaafaaaafaaaafaaaafaaaafaaaafaaaafaaaafaaaafaaaafaaaafaaaafaaaafaaaafaaaafaaaafaaaafaaaafaaaafaaaafaaaafaaaafaaaafaaaafaaaafaaaafaaaafaaaafaaaafaaaafaaaafaaaafaaaafaaaafaaaafaaaafaaaafaaaafaaaafaaaafaaaafaaaafaaaafaaaafaaaafaaaafaaaafaaaafaaaafaaaafaaaafaaaafaaaafaaaafaaaafaaaafaaaafaaaafaaaafaaaafaaaafaaaafaaaafaaaafaaaafaaaafaaaafaaaafaaaafaaaafaaaafaaaafaaaafaaaafaaaafaaaafaaaafaaaafaaaafaaaafaaaafaaaafaaaafaaaafaaaafaaaafaaaafaaaafaaaafaaaafaaaafaaaafaaaafaaaafaaaafaaaafaaaafaaaafaaaafaaaafaaaafaaaafaaaafaaaafaaaafaaaafaaaafaaaafaaaafaaaafaaaafaaaafaaaafaaaafaaaafaaaafaaaafaaaafaaaafaaaafaaaafaaaafaaaafaaaafaaaafaaaafaaaafaaaafaaaafaaaafaaaafaaaafaaaafaaaafaaaafaaaafaaaafaaaafaaaafaaaafaaaafaaaafaaaafaaaafaaaafaaaafaaaafaaaafaaaafaaaafaaaafaaaafaaaafaaaafaaaafaaaafaaaafaaaafaaaafaaaafaaaafaaaafaaaafaaaafaaaafaaaafaaaafaaaafaaaafaaaafaaaafaaaafaaaafaaaafaaaafaaaafaaaafaaaafaaaafaaaafaaaafaaaafaaaafaaaafaaaafaaaafaaaafaaaafaaaafaaaafaaaafaaaafaaaafaaaafaaaafaaaafaaaafaaaafaaaafaaaafaaaafaaaafaaaafaaaafaaaafaaaafaaaafaaaafaaaafaaaafaaaafaaaafaaaafaaaafaaaafaaaafaaaafaaaafaaaafaaaafaaaafaaaafaaaafaaaafaaaafaaaafaaaafaaaafaaaafaaaafaaaafaaaafaaaafaaaafaaaafaaaafaaaafaaaafaaaafaaaafaaaafaaaafaaaafaaaafaaaafaaaafaaaafaaaafaaaafaaaafaaaafaaaafaaaafaaaafaaaafaaaafaaaafaaaafaaaafaaaafaaaafaaaafaaaafaaaafaaaafaaaafaaaafaaaafaaaafaaaafaaaafaaaafaaaafaaaafaaaafaaaafaaaafaaaafaaaafaaaafaaaafaaaafaaaafaaaafaaaafaaaafaaaafaaaafaaaafaaaafaaaafaaaafaaaafaaaafaaaafaaaafaaaafaaaafaaaafaaaafaaaafaaaafaaaafaaaafaaaafaaaafaaaafaaaafaaaafaaaafaaaafaaaafaaaafaaaafaaaafaaaafaaaafaaaafaaaafaaaafaaaafaaaafaaaafaaaafaaaafaaaafaaaafaaaafaaaafaaaafaaaafaaaafaaaafaaaafaaaafaaaafaaaafaaaafaaaafaaaafaaaafaaaafaaaafaaaafaaaafaaaafaaaafaaaafaaaafaaaafaaaafaaaafaaaafaaaafaaaafaaaafaaaafaaaafaaaafaaaafaaaafaaaafaaaafaaaafaaaafaaaafaaaafaaaafaaaafaaaafaaaafaaaafaaaafaaaafaaaafaaaafaaaafaaaafaaaafaaaafaaaafaaaafaaaafaaaafaaaafaaaafaaaafaaaafaaaafaaaafaaaafaaaafaaaafaaaafaaaafaaaafaaaafaaaafaaaafaaaafaaaafaaaafaaaafaaaafaaaafaaaafaaaafaaaafaaaafaaaafaaaafaaaafaaaafaaaafaaaafaaaafaaaafaaaafaaaafaaaafaaaafaaaafaaaafaaaafaaaafaaaafaaaafaaaafaaaafaaaafaaaafaaaafaaaafaaaafaaaafaaaafaaaafaaaafaaaafaaaafaaaafaaaafaaaafaaaafaaaafaaaafaaaafaaaafaaaafaaaafaaaafaaaafaaaafaaaafaaaafaaaafaaaafaaaafaaaafaaaafaaaafaaaafaaaafaaaafaaaafaaaafaaaafaaaafaaaafaaaafaaaafaaaafaaaafaaaafaaaafaaaafaaaafaaaafaaaafaaaafaaaafaaaafaaaafaaaafaaaafaaaafaaaafaaaafaaaafaaaafaaaafaaaafaaaafaaaafaaaafaaaafaaaafaaaafaaaafaaaafaaaafaaaafaaaafaaaafaaaafaaaafaaaafaaaafaaaafaaaafaaaafaaaafaaaafaaaafaaaafaaaafaaaafaaaafaaaafaaaafaaaafaaaafaaaafaaaafaaaafaaaafaaaafaaaafaaaafaaaafaaaafaaaafaaaafaaaafaaaafaaaafaaaafaaaafaaaafaaaafaaaafaaaafaaaafaaaafaaaafaaaafaaaafaaaafaaaafaaaafaaaafaaaafaaaafaaaafaaaafaaaafaaaafaaaafaaaafaaaafaaaafaaaafaaaafaaaafaaaafaaaafaaaafaaaafaaaafaaaafaaaafaaaafaaaafaaaafaaaafaaaafaaaafaaaafaaaafaaaafaaaafaaaafaaaafaaaafaaaafaaaafaaaafaaaafaaaafaaaafaaaafaaaafaaaafaaaafaaaafaaaafaaaafaaaafaaaafaaaafaaaafaaaafaaaafaaaafaaaafaaaafaaaafaaaafaaaafaaaafaaaafaaaafaaaafaaaafaaaafaaaafaaaafaaaafaaaafaaaafaaaafaaaafaaaafaaaafaaaafaaaafaaaafaaaafaaaafaaaafaaaafaaaafaaaafaaaafaaaafaaaafaaaafaaaafaaaafaaaafaaaafaaaafaaaafaaaafaaaafaaaafaaaafaaaafaaaafaaaafaaaafaaaafaaaafaaaafaaaafaaaafaaaafaaaafaaaafaaaafaaaafaaaafaaaafaaaafaaaafaaaafaaaafaaaafaaaafaaaafaaaafaaaafaaaafaaaafaaaafaaaafaaaafaaaafaaaafaaaafaaaafaaaafaaaafaaaafaaaafaaaafaaaafaaaafaaaafaaaafaaaafaaaafaaaafaaaafaaaafaaaafaaaafaaaafaaaafaaaafaaaafaaaafaaaafaaaafaaaafaaaafaaaafaaaafaaaafaaaafaaaafaaaafaaaafaaaafaaaafaaaafaaaafaaaafaaaafaaaafaaaafaaaafaaaafaaaafaaaafaaaafaaaafaaaafaaaafaaaafaaaafaaaafaaaafaaaafaaaafaaaafaaaafaaaafaaaafaaaafaaaafaaaafaaaafaaaafaaaafaaaafaaaafaaaafaaaafaaaafaaaafaaaafaaaafaaaafaaaafaaaafaaaafaaaafaaaafaaaafaaaafaaaafaaaafaaaafaaaafaaaafaaaafaaaafaaaafaaaafaaaafaaaafaaaafaaaafaaaafaaaafaaaafaaaafaaaafaaaafaaaafaaaafaaaafaaaafaaaafaaaafaaaafaaaafaaaafaaaafaaaafaaaafaaaafaaaafaaaafaaaafaaaafaaaafaaaafaaaafaaaafaaaafaaaafaaaafaaaafaaaafaaaafaaaafaaaafaaaafaaaafaaaafaaaafaaaafaaaafaaaafaaaafaaaafaaaafaaaafaaaafaaaafaaaafaaaafaaaafaaaafaaaafaaaafaaaafaaaafaaaafaaaafaaaafaaaafaaaafaaaafaaaafaaaafaaaafaaaafaaaafaaaafaaaafaaaafaaaafaaaafaaaafaaaafaaaafaaaafaaaafaaaafaaaafaaaafaaaafaaaafaaaafaaaafaaaafaaaafaaaafaaaafaaaafaaaafaaaafaaaafaaaafaaaafaaaafaaaafaaaafaaaafaaaafaaaafaaaafaaaafaaaafaaaafaaaafaaaafaaaafaaaafaaaafaaaafaaaafaaaafaaaafaaaafaaaafaaaafaaaafaaaafaaaafaaaafaaaafaaaafaaaafaaaafaaaafaaaafaaaafaaaafaaaafaaaafaaaafaaaafaaaafaaaafaaaafaaaafaaaafaaaafaaaafaaaafaaaafaaaafaaaafaaaafaaaafaaaafaaaafaaaafaaaafaaaafaaaafaaaafaaaafaaaafaaaafaaaafaaaafaaaafaaaafaaaafaaaafaaaafaaaafaaaafaaaafaaaafaaaafaaaafaaaafaaaafaaaafaaaafaaaafaaaafaaaafaaaafaaaafaaaafaaaafaaaafaaaafaaaafaaaafaaaafaaaafaaaafaaaafaaaafaaaafaaaafaaaafaaaafaaaafaaaafaaaafaaaafaaaafaaaafaaaafaaaafaaaafaaaafaaaafaaaafaaaafaaaafaaaafaaaafaaaafaaaafaaaafaaaafaaaafaaaafaaaafaaaafaaaafaaaafaaaafaaaafaaaafaaaafaaaafaaaafaaaafaaaafaaaafaaaafaaaafaaaafaaaafaaaafaaaafaaaafaaaafaaaafaaaafaaaafaaaafaaaafaaaafaaaafaaaafaaaafaaaafaaaafaaaafaaaafaaaafaaaafaaaafaaaafaaaafaaaafaaaafaaaafaaaafaaaafaaaafaaaafaaaafaaaafaaaafaaaafaaaafaaaafaaaafaaaafaaaafaaaafaaaafaaaafaaaafaaaafaaaafaaaafaaaafaaaafaaaafaaaafaaaafaaaafaaaafaaaafaaaafaaaafaaaafaaaafaaaafaaaafaaaafaaaafaaaafaaaafaaaafaaaafaaaafaaaafaaaafaaaafaaaafaaaafaaaafaaaafaaaafaaaafaaaafaaaafaaaafaaaafaaaafaaaafaaaafaaaafaaaafaaaafaaaafaaaafaaaafaaaafaaaafaaaafaaaafaaaafaaaafaaaafaaaafaaaafaaaafaaaafaaaafaaaafaaaafaaaafaaaafaaaafaaaafaaaafaaaafaaaafaaaafaaaafaaaafaaaafaaaafaaaafaaaafaaaafaaaafaaaafaaaafaaaafaaaafaaaafaaaafaaaafaaaafaaaafaaaafaaaafaaaafaaaafaaaafaaaafaaaafaaaafaaaafaaaafaaaafaaaafaaaafaaaafaaaafaaaafaaaafaaaafaaaafaaaafaaaafaaaafaaaafaaaafaaaafaaaafaaaafaaaafaaaafaaaafaaaafaaaafaaaafaaaafaaaafaaaafaaaafaaaafaaaafaaaafaaaafaaaafaaaafaaaafaaaafaaaafaaaafaaaafaaaafaaaafaaaafaaaafaaaafaaaafaaaafaaaafaaaafaaaafaaaafaaaafaaaafaaaafaaaafaaaafaaaafaaaafaaaafaaaafaaaafaaaafaaaafaaaafaaaafaaaafaaaafaaaafaaaafaaaafaaaafaaaafaaaafaaaafaaaafaaaafaaaafaaaafaaaafaaaafaaaafaaaafaaaafaaaafaaaafaaaafaaaafaaaafaaaafaaaafaaaafaaaafaaaafaaaafaaaafaaaafaaaafaaaafaaaafaaaafaaaafaaaafaaaafaaaafaaaafaaaafaaaafaaaafaaaafaaaafaaaafaaaafaaaafaaaafaaaafaaaafaaaafaaaafaaaafaaaafaaaafaaaafaaaafaaaafaaaafaaaafaaaafaaaafaaaafaaaafaaaafaaaafaaaafaaaafaaaafaaaafaaaafaaaafaaaafaaaafaaaafaaaafaaaafaaaafaaaafaaaafaaaafaaaafaaaafaaaafaaaafaaaafaaaafaaaafaaaafaaaafaaaafaaaafaaaafaaaafaaaafaaaafaaaafaaaafaaaafaaaafaaaafaaaafaaaafaaaafaaaafaaaafaaaafaaaafaaaafaaaafaaaafaaaafaaaafaaaafaaaafaaaafaaaafaaaafaaaafaaaafaaaafaaaafaaaafaaaafaaaafaaaafaaaafaaaafaaaafaaaafaaaafaaaafaaaafaaaafaaaafaaaafaaaafaaaafaaaafaaaafaaaafaaaafaaaafaaaafaaaafaaaafaaaafaaaafaaaafaaaafaadcfaadcfaadcfaadcfaadcfaadcfaadcfaadcfaadcfaadcfaadcfaadcfaadcfaadcfaadcfaadcfaadcfaadcfaadcfaadcfaadcfaadcfaadcfaadcfaadcfaadcfaaaafaaaafaaaafaaaafaaaafaaaafaaaafaaaafaaaafaaaafaaaafaaaafaaaafaaaafaaaafaaaafaaaafaaaafaaaafaaaafaaaafaaaafaaaafaaaafaaaafaaaafaaaafaaaafaaaafaaaafaaaafaaaafaaaafaaaafaaaafaaaafaaaafaaaafaaaafaaaafaaaafaaaafaaaafaaaafaaaafaaaafaaaafaaaafaaaafaaaafaaaafaaaafaaaafaaaafaaaafaaaafaaaafaaaafaaaafaaaafaaaafaaaafaaaafaaaafaaaafaaaafaaaafaaaafaaaafaaaafaaaafaaaafaaaafaaaafaaaafaaaafaaaafaaaafaaaafaaaafaaaafaaaafaaaafaaaafaaaafaaaafaaaafaaaafaaaafaaaafaaaafaaaafaaaafaaaafaaaafaaaafaaaafaaaafaaaafaaaafaaaafaaaafaaaafaaaafaaaafaaaafaaaafaaaafaaaafaaaafaaaafaaaafaaaafaaaafaaaafaaaafaaaafaaaafaaaafaaaafaaaafaaaafaaaafaaaafaaaafaaaafaaaafaaaafaaaafaaaafaaaafaaaafaaaafaaaafaaaafaaaafaaaafaaaafaaaafaaaafaaaafaaaafaaaafaaaafaaaafaaaafaaaafaaaafaaaafaaaafaaaafaaaafaaaafaaaafaaaafaaaafaaaafaaaafaaaafaaaafaaaafaaaafaaaafaaaafaaaafaaaafaaaafaaaafaaaafaaaafaaaafaaaafaaaafaaaafaaaafaaaafaaaafaaaafaaaafaaaafaaaafaaaafaaaafaaaafaaaafaaaafaaaafaaaafaaaafaaaafaaaafaaaafaaaafaaaafaaaafaaaafaaaafaaaafaaaafaaaafaaaafaaaafaaaafaaaafaaaafaaaafaaaafaaaafaaaafaaaafaaaafaaaafaaaafaaaafaaaafaaaafaaaafaaaafaaaafaaaafaaaafaaaafaaaafaaaafaaaafaaaafaaaafaaaafaaaafaaaafaaaafaaaafaaaafaaaafaaaafaaaafaaaafaaaafaaaafaaaafaaaafaaaafaaaafaaaafaaaafaaaafaaaafaaaafaaaafaaaafaaaafaaaafaaaafaaaafaaaafaaaafaaaafaaaafaaaafaaaafaaaafaaaafaaaafaaaafaaaafaaaafaaaafaaaafaaaafaaaafaaaafaaaafaaaafaaaafaaaafaaaafaaaafaaaafaaaafaaaafaaaafaaaafaaaafaaaafaaaafaaaafaaaafaaaafaaaafaaaafaaaafaaaafaaaafaaaafaaaafaaaafaaaafaaaafaaaafaaaafaaaafaaaafaaaafaaaafaaaafaaaafaaaafaaaafaaaafaaaafaaaafaaaafaaaafaaaafaaaafaaaafaaaafaaaafaaaafaaaafaaaafaaaafaaaafaaaafaaaafaaaafaaaafaaaafaaaafaaaafaaaafaaaafaaaafaaaafaaaafaaaafaaaafaaaafaaaafaaaafaaaafaaaafaaaafaaaafaaaafaaaafaaaafaaaafaaaafaaaafaaaafaaaafaaaafaaaafaaaafaaaafaaaafaaaafaaaafaaaafaaaafaaaafaaaafaaaafaaaafaaaafaaaafaaaafaaaafaaaafaaaafaaaafaaaafaaaafaaaafaaaafaaaafaaaafaaaafaaaafaaaafaaaafaaaafaaaafaaaafaaaafaaaafaaaafaaaafaaaafaaaafaaaafaaaafaaaafaaaafaaaafaaaafaaaafaaaafaaaafaaaafaaaafaaaafaaaafaaaafaaaafaaaafaaaafaaaafaaaafaaaafaaaafaaaafaaaafaaaafaaaafaaaafaaaafaaaafaaaafaaaafaaaafaaaafaaaafaaaafaaaafaaaafaaaafaaaafaaaafaaaafaaaafaaaafaaaafaaaafaaaafaaaafaaaafaaaafaaaafaaaafaaaafaaaafaaaafaaaafaaaafaaaafaaaafaaaafaaaafaaaafaaaafaaaafaaaafaaaafaaaafaaaafaaaafaaaafaaaafaaaafaaaafaaaafaaaafaaaafaaaafaaaafaaaafaaaafaaaafaaaafaaaafaaaafaaaafaaaafaaaafaaaafaaaafaaaafaaaafaaaafaaaafaaaafaaaafaaaafaaaafaaaafaaaafaaaafaaaafaaaafaaaafaaaafaaaafaaaafaaaafaaaafaaaafaaaafaaaafaaaafaaaafaaaafaaaafaaaafaaaafaaaafaaaafaaaafaaaafaaaafaaaafaaaafaaaafaaaafaaaafaaaafaaaafaaaafaaaafaaaafaaaafaaaafaaaafaaaafaaaafaaaafaaaafaaaafaaaafaaaafaaaafaaaafaaaafaaaafaaaafaaaafaaaafaaaafaaaafaaaafaaaafaaaafaaaafaaaafaaaafaaaafaaaafaaaafaaaafaaaafaaaafaaaafaaaafaaaafaaaafaaaafaaaafaaaafaaaafaaaafaaaafaaaafaaaafaaaafaaaafaaaafaaaafaaaafaaaafaaaafaaaafaaaafaaaafaaaafaaaafaaaafaaaafaaaafaaaafaaaafaaaafaaaafaaaafaaaafaaaafaaaafaaaafaaaafaaaafaaaafaaaafaaaafaaaafaaaafaaaafaaaafaaaafaaaafaaaafaaaafaaaafaaaafaaaafaaaafaaaafaaaafaaaafaaaafaaaafaaaafaaaafaaaafaaaafaaaafaaaafaaaafaaaafaaaafaaaafaaaafaaaafaaaafaaaafaaaafaaaafaaaafaaaafaaaafaaaafaaaafaaaafaaaafaaaafaaaafaaaafaaaafaaaafaaaafaaaafaaaafaaaafaaaafaaaafaaaafaaaafaaaafaaaafaaaafaaaafaaaafaaaafaaaafaaaafaaaafaaaafaaaafaaaafaaaafaaaafaaaafaaaafaaaafaaaafaaaafaaaafaaaafaaaafaaaafaaaafaaaafaaaafaaaafaaaafaaaafaaaafaaaafaaaafaaaafaaaafaaaafaaaafaaaafaaaafaaaafaaaafaaaafaaaafaaaafaaaafaaaafaaaafaaaafaaaafaaaafaaaafaaaafaaaafaaaafaaaafaaaafaaaafaaaafaaaafaaaafaaaafaaaafaaaafaaaafaaaafaaaafaaaafaaaafaaaafaaaafaaaafaaaafaaaafaaaafaaaafaaaafaaaafaaaafaaaafaaaafaaaafaaaafaaaafaaaafaaaafaaaafaaaafaaaafaaaafaaaafaaaafaaaafaaaafaaaafaaaafaaaafaaaafaaaafaaaafaaaafaaaafaaaafaaaafaaaafaaaafaaaafaaaafaaaafaaaafaaaafaaaafaaaafaaaafaaaafaaaafaaaafaaaafaaaafaaaafaaaafaaaafaaaafaaaafaaaafaaaafaaaafaaaafaaaafaaaafaaaafaaaafaaaafaaaafaaaafaaaafaaaafaaaafaaaafaaaafaaaafaaaafaaaafaaaafaaaafaaaafaaaafaaaafaaaafaaaafaaaafaaaafaaaafaaaafaaaafaaaafaaaafaaaafaaaafaaaafaaaafaaaafaaaafaaaafaaaafaaaafaaaafaaaafaaaafaaaafaaaafaaaafaaaafaaaafaaaafaaaafaaaafaaaafaaaafaaaafaaaafaaaafaaaafaaaafaaaafaaaafaaaafaaaafaaaafaaaafaaaafaaaafaaaafaaaafaaaafaaaafaaaafaaaafaaaafaaaafaaaafaaaafaaaafaaaafaaaafaaaafaaaafaaaafaaaafaaaafaaaafaaaafaaaafaaaafaaaafaaaafaaaafaaaafaaaafaaaafaaaafaaaafaaaafaaaafaaaafaaaafaaaafaaaafaaaafaaaafaaaafaaaafaaaafaaaafaaaafaaaafaaaafaaaafaaaafaaaafaaaafaaaafaaaafaaaafaaaafaaaafaaaafaaaafaaaafaaaafaaaafaaaafaaaafaaaafaaaafaaaafaaaafaaaafaaaafaaaafaaaafaaaafaaaafaaaafaaaafaaaafaaaafaaaafaaaafaaaafaaaafaaaafaaaafaaaafaaaafaaaafaaaafaaaafaaaafaaaafaaaafaaaafaaaafaaaafaaaafaaaafaaaafaaaafaaaafaaaafaaaafaaaafaaaafaaaafaaaafaaaafaaaafaaaafaaaafaaaafaaaafaaaafaaaafaaaafaaaafaaaafaaaafaaaafaaaafaaaafaaaafaaaafaaaafaaaafaaaafaaaafaaaafaaaafaaaafaaaafaaaafaaaafaaaafaaaafaaaafaaaafaaaafaaaafaaaafaaaafaaaafaaaafaaaafaaaafaaaafaaaafaaaafaaaafaaaafaaaafaaaafaaaafaaaafaaaafaaaafaaaafaaaafaaaafaaaafaaaafaaaafaaaafaaaafaaaafaaaafaaaafaaaafaaaafaaaafaaaafaaaafaaaafaaaafaaaafaaaafaaaafaaaafaaaafaaaafaaaafaaaafaaaafaaaafaaaafaaaafaaaafaaaafaaaafaaaafaaaafaaaafaaaafaaaafaaaafaaaafaaaafaaaafaaaafaaaafaaaafaaaafaaaafaaaafaaaafaaaafaaaafaaaafaaaafaaaafaaaafaaaafaaaafaaaafaaaafaaaafaaaafaaaafaaaafaaaafaaaafaaaafaaaafaaaafaaaafaaaafaaaafaaaafaaaafaaaafaaaafaaaafaaaafaaaafaaaafaaaafaaaafaaaafaaaafaaaafaaaafaaaafaaaafaaaafaaaafaaaafaaaafaaaafaaaafaaaafaaaafaaaafaaaafaaaafaaaafaaaafaaaafaaaafaaaafaaaafaaaafaaaafaaaafaaaafaaaafaaaafaaaafaaaafaaaafaaaafaaaafaaaafaaaafaaaafaaaafaaaafaaaafaaaafaaaafaaaafaaaafaaaafaaaafaaaafaaaafaaaafaaaafaaaafaaaafaaaafaaaafaaaafaaaafaaaafaaaafaaaafaaaafaaaafaaaafaaaafaaaafaaaafaaaafaaaafaaaafaaaafaaaafaaaafaaaafaaaafaaaafaaaafaaaafaaaafaaaafaaaafaaaafaaaafaaaafaaaafaaaafaaaafaaaafaaaafaaaafaaaafaaaafaaaafaaaafaaaafaaaafaaaafaaaafaaaafaaaafaaaafaaaafaaaafaaaafaaaafaaaafaaaafaaaafaaaafaaaafaaaafaaaafaaaafaaaafaaaafaaaafaaaafaaaafaaaafaaaafaaaafaaaafaaaafaaaafaaaafaaaafaaaafaaaafaaaafaaaafaaaafaaaafaaaafaaaafaaaafaaaafaaaafaaaafaaaafaaaafaaaafaaaafaaaafaaaafaaaafaaaafaaaafaaaafaaaafaaaafaaaafaaaafaaaafaaeafaaeafaaeafaaeafaaeafaaeafaaeafaaeafaaeafaaeafaaeafaaeafaaeafaaeafaaeafaaeafaaeafaaeafaaeafaaeafaaeafaaeafaaeafaaeafaaeafaaeafaaeafaaeafaaeafaaeafaaeafaaeafaaeafaaeafaaeafaaeafaaeafaaeafaaeafaaeafaaaafaaaafaaaafaaaafaaaafaaaafaaaafaaaafaaaafaaaafaaaafaaaafaaaafaaaafaaaafaaaafaaaafaaaafaaaafaaaafaaaafaaaafaaaafaaaafaaaafaaaafaaaafaaaafaaaafaaaafaaaafaaaafaaaafaaaafaaaafaaaafaaaafaaaafaaaafaaaafaaaafaaaafaaaafaaaafaaaafaaaafaaaafaaaafaaaafaaaafaaaafaaaafaaaafaaaafaaaafaaaafaaaafaaaafaaaafaaaafaaaafaaaafaaaafaaaafaaaafaaaafaaaafaaaafaaaafaaaafaaaafaaaafaaaafaaaafaaaafaaaafaaaafaaaafaaaafaaaafaaaafaaaafaaaafaaaafaaaafaaaafaaaafaaaafaaaafaaaafaaaafaaaafaaaafaaaafaaaafaaaafaaaafaaaafaaaafaaaafaaaafaaaafaaaafaaaafaaaafaaaafaaaafaaaafaaaafaaaafaaaafaaaafaaaafaaaafaaaafaaaafaaaafaaaafaaaafaaaafaaaafaaaafaaaafaaaafaaaafaaaafaaaafaaaafaaaafaaaafaaaafaaaafaaaafaaaafaaaafaaaafaaeafaaeafaaeafaaeafaaeafaaeafaaeafaaeafaaeafaaeafaaeafaaeafaaeafaaeafaaeafaaeafaaeafaaeafaaeafaaeafaaeafaaeafaaeafaaeafaaeafaaeafaaeafaaeafaaeafaaeafaaeafaaeafaaeafaaeafaaeafaaeafaaaafaaaafaaaafaaaafaaaafaaaafaaaafaaaafaaaafaaaafaaaafaaaafaaaafaaaafaaaafaaaafaaaafaaaafaaaafaaaafaaaafaaaafaaaafaaaafaaaafaaaafaaaafaaaafaaaafaaaafaaaafaaaafaaaafaaaafaaaafaaaafaaaafaaaafaaaafaaaafaaaafaaaafaaaafaaaafaaaafaaaafaaaafaaaafaaaafaaaafaaaafaaaafaaaafaaaafaaaafaaaafaaaafaaaafaaaafaaaafaaaafaaaafaaaafaaaafaaaafaaaafaaaafaaaafaaaafaaaafaaaafaaaafaaaafaaaafaaaafaaaafaaaafaaaafaaaafaaaafaaaafaaaafaaaafaaaafaaaafaaaafaaaafaaaafaaaafaaaafaaaafaaaafaaaafaaaafaaaafaaaafaaaafaaaafaaaafaaaafaaaafaaaafaaaafaaaafaaaafaaaafaaaafaaaafaaaafaaaafaaaafaaaafaaaafaaaafaaaafaaaafaaaafaaaafaaaafaaaafaaaafaaaafaaaafaaaafaaaafaaaafaaaafaaaafaaaafaaaafaaaafaaaafaaaafaaaafaaaafaaaafaaaafaaaafaaaafaaaafaaaafaaaafaaaafaaaafaaaafaaaafaaaafaaaafaaaafaaaafaaaafaaaafaaaafaaaafaaaafaaaafaadjfaadjfaadjfaadjfaadjfaadjfaadjfaadjfaadjfaadjfaadjfaaaafaadjfaadjfaadjfaadjfaadjfaadjfaadjfaadjfaadjfaadjfaadjfaadjfaadjfaadjfaadjfaaaafaadjfaadjfaadjfaadjfaadjfaadjfaadjfaaaafaadjfaadjfaaaafaaaafaaaafaaaafaaaafaaaafaaaafaaaafaaaafaaaafaaaafaaaafaaaafaaaafaaaafaaaafaaaafaaaafaaaafaaaafaaaafaaaafaaaafaaaafaaaafaaaafaaaafaaaafaaaafaaaafaaaafaaaafaaaafaaaafaaaafaaaafaaaafaaaafaaaafaaaafaaaafaaaafaaaafaaaafaaaafaaaafaaaafaaaafaaaafaaaafaaaafaaaafaaaafaaaafaaaafaaaafaaaafaaaafaaaafaaaafaaaafaaaafaaaafaaaafaaaafaaaafaaaafaaaafaaaafaaaafaaaafaaaafaaaafaaaafaaaafaaaafaaaafaaaafaaaafaaaafaaaafaaaafaaaafaaaafaaaafaaaafaaaafaaaafaaaafaaaafaaaafaaaafaaaafaaaafaaaafaaaafaaaafaaaafaaaafaaaafaaaafaaaafaaaafaaaafaaaafaaaafaaaafaaaafaaaafaaaafaaaafaaaafaaaafaaaafaaaafaaaafaaaafaaaafaaaafaaaafaaaafaaaafaaaafaaaafaaaafaaaafaaaafaaaafaaaafaaaafaaaafaaaafaaaafaaaafaaaafaaaafaaaafaaaafaaaafaaaafaaaafaaaafaaaafaaaafaaaafaaaafaaaafaaaafaaaafaaaafaaaafaaaafaaaafaaaafaaaafaaaafaaaafaaaafaaaafaaaafaaaafaaaafaaaafaaaafaaaafaaaafaaaafaaaafaaaafaaaafaaaafaaaafaaaafaaaafaaaafaaaafaaaafaaaafaaaafaaaafaaaafaaaafaaaafaaaafaaaafaaaafaaaafaaaafaaaafaaaafaaaafaaaafaaaafaaaafaaaafaaaafaaaafaaaafaaaafaaaafaaaafaaaafaaaafaaaafaaaafaaaafaaaafaaaafaaaafaaaafaaaafaaaafaaaafaaaafaaaafaaaafaaaafaaaafaaaafaaaafaaaafaaaafaaaafaaaafaaaafaaaafaaaafaaaafaaaafaaaafaaaafaaaafaaaafaaaafaaaafaaaafaaaafaaaafaaaafaaaafaaaafaaaafaaaafaaaafaaaafaaaafaaaafaaaafaaaafaaaafaaaafaaaafaaaafaaaafaaaafaaaafaaaafaaaafaaaafaaaafaaaafaaaafaaaafaaaafaaaafaaaafaaaafaaaafaaaafaaaafaaaafaaaafaaaafaaaafaaaafaaaafaaaafaaaafaaaafaaaafaaaafaaaafaaaafaaaafaaaafaaaafaaaafaaaafaaaafaaaafaaaafaaaafaaaafaaaafaaaafaaaafaaaafaaaafaaaafaaaafaaaafaaaafaaaafaaaafaaaafaaaafaaaafaaaafaaaafaaaafaaaafaaaafaaaafaaaafaaaafaaaafaaaafaaaafaaaafaaaafaaaafaaaafaaaafaaaafaaaafaaaafaaaafaaaafaaaafaaaafaaaafaaaafaaaafaaaafaaaafaaaafaaaafaaaafaaaafaaaafaaaafaaaafaaaafaaaafaaaafaaaafaaaafaaaafaaaafaaaafaaaafaaaafaaaafaaaafaaaafaaaafaaaafaaaafaaaafaaaafaaaafaaaafaaaafaaaafaaaafaaaafaaaafaaaafaaaafaaaafaaaafaaaafaaaafaaaafaaaafaaaafaaaafaaaafaaaafaaaafaaaafaaaafaaaafaaaafaaaafaaaafaaaafaaaafaaaafaaaafaaaafaaaafaaaafaaaafaaaafaaaafaaaafaaaafaaaafaaaafaaaafaaaafaaaafaaaafaaaafaaaafaaaafaaaafaaaafaaaafaaaafaaaafaaaafaaaafaaaafaaaafaaaafaaaafaaaafaaaafaaaafaaaafaaaafaaaafaaaafaaaafaaaafaaaafaaaafaaaafaaaafaaaafaaaafaaaafaaaafaaaafaaaafaaaafaaaafaaaafaaaafaaaafaaaafaaaafaaaafaaaafaaaafaaaafaaaafaaaafaaaafaaaafaaaafaaaafaaaafaaaafaaaafaaaafaaaafaaaafaaaafaaaafaaaafaaaafaaaafaaaafaaaafaaaafaaaafaaaafaaaafaaaafaaaafaaaafaaaafaaaafaaaafaaaafaaaafaaaafaaaafaaaafaaaafaaaafaaaafaaaafaaaafaaaafaaaafaaaafaaaafaaaafaaaafaaaafaaaafaaaafaaaafaaaafaaaafaaaafaaaafaaaafaaaafaaaafaaaafaaaafaaaafaaaafaaaafaaaafaaaafaaaafaaaafaaaafaaaafaaaafaaaafaaaafaaaafaaaafaaaafaaaafaaaafaaaafaaaafaaaafaaaafaaaafaaaafaaaafaaaafaaaafaaaafaaaafaaaafaaaafaaaafaaaafaaaafaaaafaaaafaaaafaaaafaaaafaaaafaaaafaaaafaaaafaaaafaaaafaaaafaaaafaaaafaaaafaaaafaaaafaaaafaaaafaaaafaaaafaaaafaaaafaaaafaaaafaaaafaaaafaaaafaaaafaaaafaaaafaaaafaaaafaaaafaaaafaaaafaaaafaaaafaaaafaaaafaaaafaaaafaaaafaaaafaaaafaaaafaaaafaaaafaaaafaaaafaaaafaaaafaaaafaaaafaaaafaaaafaaaafaaaafaaaafaaaafaaaafaaaafaaaafaaaafaaaafaaaafaaaafaaaafaaaafaaaafaaaafaaaafaaaafaaaafaaaafaaaafaaaafaaaafaaaafaaaafaaaafaaaafaaaafaaaafaaaafaaaafaaaafaaaafaaaafaaaafaaaafaaaafaaaafaaaafaaaafaaaafaaaafaaaafaaaafaaaafaaaafaaaafaaaafaaaafaaaafaaaafaaaafaaaafaaaafaaaafaaaafaaaafaaaafaaaafaaaafaaaafaaaafaaaafaaaafaaaafaaaafaaaafaaaafaaaafaaaafaaaafaaaafaaaafaaaafaaaafaaaafaaaafaaaafaaaafaaaafaaaafaaaafaaaafaaaafaaaafaaaafaaaafaaaafaaaafaaaafaaaafaaaafaaaafaaaafaaaafaaaafaaaafaaaafaaaafaaaafaaaafaaaafaaaafaaaafaaaafaaaafaaaafaaaafaaaafaaaafaaaafaaaafaaaafaaaafaaaafaaaafaaaafaaaafaaaafaaaafaaaafaaaafaaaafaaaafaaaafaaaafaaaafaaaafaaaafaaaafaaaafaaaafaaaafaaaafaaaafaaaafaaaafaaaafaaaafaaaafaaaafaaaafaaaafaaaafaaaafaaaafaaaafaaaafaaaafaaaafaaaafaaaafaaaafaaaafaaaafaaaafaaaafaaaafaaaafaaaafaaaafaaaafaaaafaaaafaaaafaaaafaaaafaaaafaaaafaaaafaaaafaaaafaaaafaaaafaaaafaaaafaaaafaaaafaaaafaaaafaaaafaaaafaaaafaaaafaaaafaaaafaaaafaaaafaaaafaaaafaaaafaaaafaaaafaaaafaaaafaaaafaaaafaaaafaaaafaaaafaaaafaaaafaaaafaaaafaaaafaaaafaaaafaaaafaaaafaaaafaaaafaaaafaaaafaaaafaaaafaaaafaaaafaaaafaaaafaaaafaaaafaaaafaaaafaaaafaaaafaaaafaaaafaaaafaaaafaaaafaaaafaaaafaaaafaaaafaaaafaaaafaaaafaaaafaaaafaaaafaaaafaaaafaaaafaaaafaaaafaaaafaaaafaaaafaaaafaaaafaaaafaaaafaaaafaaaafaaaafaaaafaaaafaaaafaaaafaaaafaaaafaaaafaaaafaaaafaaaafaaaafaaaafaaaafaaaafaaaafaaaafaaaafaaaafaaaafaaaafaaaafaaaafaaaafaaaafaaaafaaaafaaaafaaaafaaaafaaaafaaaafaaaafaaaafaaaafaaaafaaaafaaaafaaaafaaaafaaaafaaaafaaaafaaaafaaaafaaaafaaaafaaaafaaaafaaaafaaaafaaaafaaaafaaaafaaaafaaaafaaaafaaaafaaaafaaaafaaaafaaaafaaaafaaaafaaaafaaaafaaaafaaaafaaaafaaaafaaaafaaaafaaaafaaaafaaaafaaaafaaaafaaaafaaaafaaaafaaaafaaaafaaaafaaaafaaaafaaaafaaaafaaaafaaaafaaaafaaaafaaaafaaaafaaaafaaaafaaaafaaaafaaaafaaaafaaaafaaaafaaaafaaaafaaaafaaaafaaaafaaaafaaaafaaaafaaaafaaaafaaaafaaaafaaaafaaaafaaaafaaaafaaaafaaaafaaaafaaaafaaaafaaaafaaaafaaaafaaaafaaaafaaaafaaaafaaaafaaaafaaaafaaaafaaaafaaaafaaaafaaaafaaaafaaaafaaaafaaaafaaaafaaaafaaaafaaaafaaaafaaaafaaaafaaaafaaaafaaaafaaaafaaaafaaaafaaaafaaaafaaaafaaaafaaaafaaaafaaaafaaaafaaaafaaaafaaaafaaaafaaaafaaaafaaaafaaaafaaaafaaaafaaaafaaaafaaaafaaaafaaaafaaaafaaaafaaaafaaaafaaaafaaaafaaaafaaaafaaaafaaaafaaaafaaaafaaaafaaaafaaaafaaaafaaaafaaaafaaaafaaaafaaaafaaaafaaaafaaaafaaaafaaaafaaaafaaaafaaaafaaaafaaaafaaaafaaaafaaaafaaaafaaaafaaaafaaaafaaaafaaaafaaaafaaaafaaaafaaaafaaaafaaaafaaaafaaaafaaaafaaaafaaaafaaaafaaaafaaaafaaaafaaaafaaaafaaaafaaaafaaaafaaaafaaaafaaaafaaaafaaaafaaaafaaaafaaaafaaaafaaaafaaaafaaaafaaaafaaaafaaaafaaaafaaaafaaaafaaaafaaaafaaaafaaaafaaaafaaaafaaaafaaaafaaaafaaaafaaaafaaaafaaaafaaaafaaaafaaaafaaaafaaaafaaaafaaaafaaaafaaaafaaaafaaaafaaaafaaaafaaaafaaaafaaaafaaaafaaaafaaaafaaaafaaaafaaaafaaaafaaaafaaaafaaaafaaaafaaaafaaaafaaaafaaaafaaaafaaaafaaaafaaaafaaaafaaaafaaaafaaaafaaaafaaaafaaaafaaaafaaaafaaaafaaaafaaaafaaaafaaaafaaaafaaaafaaaafaaaafaaaafaaaafaaaafaaaafaaaafaaaafaaaafaaaafaaaafaaaafaaaafaaaafaaaafaaaafaaaafaaaafaaaafaaaafaaaafaaaafaaaafaaaafaaaafaaaafaaaafaaaafaaaafaaaafaaaafaaaafaaaafaaaafaaaafaaaafaaaafaaaafaaaafaaaafaaaafaaaafaaaafaaaafaaaafaaaafaaaafaaaafaaaafaaaafaaaafaaaafaaaafaaaafaaaafaaaafaaaafaaaafaaaafaaaafaaaafaaaafaaaafaaaafaaaafaaaafaaaafaaaafaaaafaaaafaaaafaaaafaaaafaaaafaaaafaaaafaaaafaaaafaaaafaaaafaaaafaaaafaaaafaaaafaaaafaaaafaaaafaaaafaaaafaaaafaaaafaaaafaaaafaaaafaaaafaaaafaaaafaaaafaaaafaaaafaaaafaaaafaaaafaaaafaaaafaaaafaaaafaaaafaaaafaaaafaaaafaaaafaaaafaaaafaaaafaaaafaaaafaaaafaaaafaaaafaaaafaaaafaaaafaaaafaaaafaaaafaaaafaaaafaaaafaaaafaaaafaaaafaaaafaaaafaaaafaaaafaaaafaaaafaaaafaaaafaaaafaaaafaaaafaaaafaaaafaaaafaaaafaaaafaaaafaaaafaaaafaaaafaaaafaaaafaaaafaaaafaaaafaaaafaaaafaaaafaaaafaaaafaaaafaaaafaaaafaaaafaaaafaaaafaaaafaaaafaaaafaaaafaaaafaaaafaaaafaaaafaaaafaaaafaaaafaaaafaaaafaaaafaaaafaaaafaaaafaaaafaaaafaaaafaaaafaaaafaaaafaaaafaaaafaaaafaaaafaaaafaaaafaaaafaaaafaaaafaaaafaaaafaaaafaaaafaaaafaaaafaaaafaaaafaaaafaaaafaaaafaaaafaaaafaaaafaaaafaaaafaaaafaaaafaaaafaaaafaaaafaaaafaaaafaaaafaaaafaaaafaaaafaaaafaaaafaaaafaaaafaaaafaaaafaaaafaaaafaaaafaaaafaaaafaaaafaaaafaaaafaaaafaaaafaaaafaaaafaaaafaaaafaaaafaaaafaaaafaaaafaaaafaaaafaaaafaaaafaaaafaaaafaaaafaaaafaaaafaaaafaaaafaaaafaaaafaaaafaaaafaaaafaaaafaaaafaaaafaaaafaaaafaaaafaaaafaaaafaaaafaaaafaaaafaaaafaaaafaaaafaaaafaaaafaaaafaaaafaaaafaaaafaaaafaaaafaaaafaaaafaaaafaaaafaaaafaaaafaaaafaaaafaaaafaaaafaaaafaaaafaaaafaaaafaaaafaaaafaaaafaaaafaaaafaaaafaaaafaaaafaaaafaaaafaaaafaaaafaaaafaaaafaaaafaaaafaaaafaaaafaaaafaaaafaaaafaaaafaaaafaaaafaaaafaaaafaaaafaaaafaaaafaaaafaaaafaaaafaaaafaaaafaaaafaaaafaaaafaaaafaaaafaaaafaaaafaaaafaaaafaaaafaaaafaaaafaaaafaaaafaaaafaaaafaaaafaaaafaaaafaaaafaaaafaaaafaaaafaaaafaaaafaaaafaaaafaaaafaaaafaaaafaaaafaaaafaaaafaaaafaaaafaaaafaaaafaaaafaaaafaaaafaaaafaaaafaaaafaaaafaaaafaaaafaaaafaaaafaaaafaaaafaaaafaaaafaaaafaaaafaaaafaaaafaaaafaaaafaaaafaaaafaaaafaaaafaaaafaaaafaaaafaaaafaaaafaaaafaaaafaaaafaaaafaaaafaaaafaaaafaaaafaaaafaaaafaaaafaaaafaaaafaaaafaaaafaaaafaaaafaaaafaaaafaaaafaaaafaaaafaaaafaaaafaaaafaaaafaaaafaaaafaaaafaaaafaaaafaaaafaaaafaaaafaaaafaaaafaaaafaaaafaaaafaaaafaaaafaaaafaaaafaaaafaaaafaaaafaaaafaaaafaaaafaaaafaaaafaaaafaaaafaaaafaaaafaaaafaaaafaaaafaaaafaaaafaaaafaaaafaaaafaaaafaaaafaaaafaaaafaaaafaaaafaaaafaaaafaaaafaaaafaaaafaaaafaaaafaaaafaaaafaaaafaaaafaaaafaaaafaaaafaaaafaaaafaaaafaaaafaaaafaaaafaaaafaaaafaaaafaaaafaaaafaaaafaaaafaaaafaaaafaaaafaaaafaaaafaaaafaaaafaaaafaaaafaaaafaaaafaaaafaaaafaaaafaaaafaaaafaaaafaaaafaaaafaaaafaaaafaaaafaaaafaaaafaaaafaaaafaaaafaaaafaaaafaaaafaaaafaaaafaaaafaaaafaaaafaaaafaaaafaaaafaaaafaaaafaaaafaaaafaaaafaaaafaaaafaaaafaaaafaaaafaaaafaaaafaaaafaaaafaaaafaaaafaaaafaaaafaaaafaaaafaaaafaaaafaaaafaaaafaaaafaaaafaaaafaaaafaaaafaaaafaaaafaaaafaaaafaaaafaaaafaaaafaaaafaaaafaaaafaaaafaaaafaaaafaaaafaaaafaaaafaaaafaaaafaaaafaaaafaaaafaaaafaaaafaaaafaaaafaaaafaaaafaaaafaaaafaaaafaaaafaaaafaaaafaaaafaaaafaaaafaagefaagefaagefaagefaagefaagefaagefaagefaagefaagefaagefaagefaagefaagefaagefaagefaagefaagefaagefaagefaagefaagefaagefaagefaagefaagefaagefaagefaagefaagefaagefaagefaagefaagefaagefaagefaagefaagefaagefaagefaagefaagefaagefaagefaagefaagefaagefaagefaagefaagefaagefaaaafaaaafaaaafaaaafaaaafaaaafaaaafaaaafaaaafaaaafaaaafaaaafaaaafaaaafaaaafaaaafaaaafaaaafaaaafaaaafaaaafaaaafaaaafaaaafaaaafaaaafaaaafaaaafaaaafaaaafaaaafaaaafaaaafaaaafaaaafaaaafaaaafaaaafaaaafaaaafaaaafaaaafaaaafaaaafaaaafaaaafaaaafaaaafaaaafaaaafaaaafaaaafaaaafaaaafaaaafaaaafaaaafaaaafaaaafaaaafaaaafaaaafaaaafaaaafaaaafaaaafaaaafaaaafaaaafaaaafaaaafaaaafaaaafaaaafaaaafaaaafaaaafaaaafaaaafaaaafaaaafaaaafaaaafaaaafaaaafaaaafaaaafaaaafaaaafaaaafaaaafaaaafaaaafaaaafaaaafaaaafaaaafaaaafaaaafaaaafaaaafaaaafaaaafaaaafaaaafaaaafaaaafaaaafaaaafaaaafaaaafaaaafaaaafaaaafaaaafaaaafaaaafaaaafaaaafaaaafaaaafaaaafaaaafaaaafaaaafaaaafaaaafaaaafaaaafaaaafaaaafaaaafaaaafaaaafaaaafaaaafaaaafaaaafaaaafaaaafaaaafaaaafaaaafaaaafaaaafaaaafaaaafaaaafaaaafaaaafaaaafaaaafaaaafaaaafaaaafaaaafaaaafaaaafaaaafaaaafaaaafaaaafaaaafaaaafaaaafaaaafaaaafaaaafaaaafaaaafaaaafaaaafaaaafaaaafaaaafaaaafaaaafaaaafaaaafaaaafaaaafaaaafaaaafaaaafaaaafaaaafaaaafaaaafaaaafaaaafaaaafaaaafaaaafaaaafaaaafaaaafaaaafaaaafaaaafaaaafaaaafaaaafaaaafaaaafaaaafaaaafaaaafaaaafaaaafaaaafaaaafaaaafaaaafaaaafaaaafaaaafaaaafaaaafaaaafaaaafaaaafaaaafaaaafaaaafaaaafaaaafaaaafaaaafaaaafaaaafaaaafaaaafaaaafaaaafaaaafaaaafaaaafaaaafaaaafaaaafaaaafaaaafaaaafaaaafaaaafaaaafaaaafaaaafaaaafaaaafaaaafaaaafaaaafaaaafaaaafaaaafaaaafaaaafaaaafaaaafaaaafaaaafaaaafaaaafaaaafaaaafaaaafaaaafaaaafaaaafaaaafaaaafaaaafaaaafaaaafaaaafaaaafaaaafaaaafaaaafaaaafaaaafaaaafaaaafaaaafaaaafaaaafaaaafaaaafaaaafaaaafaaaafaaaafaaaafaaaafaaaafaaaafaaaafaaaafaaaafaaaafaaaafaaaafaaaafaaaafaaaafaaaafaaaafaaaafaaaafaaaafaaaafaaaafaaaafaaaafaaaafaaaafaaaafaaaafaaaafaaaafaaaafaaaafaaaafaaaafaaaafaaaafaaaafaaaafaaaafaaaafaaaafaaaafaaaafaaaafaaaafaaaafaaaafaaaafaaaafaaaafaaaafaaaafaaaafaaaafaaaafaaaafaaaafaaaafaaaafaaaafaaaafaaaafaaaafaaaafaaaafaaaafaaaafaaaafaaaafaaaafaaaafaaaafaaaafaaaafaaaafaaaafaaaafaaaafaaaafaaaafaaaafaaaafaaaafaaaafaaaafaaaafaaaafaaaafaaaafaaaafaaaafaaaafaaaafaaaafaaaafaaaafaaaafaaaafaaaafaaaafaaaafaaaafaaaafaaaafaaaafaaaafaaaafaaaafaaaafaaaafaaaafaaaafaaaafaaaafaaaafaaaafaaaafaaaafaaaafaaaafaaaafaaaafaaaafaaaafaaaafaaaafaaaafaaaafaaaafaaaafaaaafaaaafaaaafaaaafaaaafaaaafaaaafaaaafaaaafaaaafaaaafaaaafaaaafaaaafaaaafaaaafaaaafaaaafaaaafaaaafaaaafaaaafaaaafaaaafaaaafaaaafaaaafaaaafaaaafaaaafaaaafaaaafaaaafaaaafaaaafaaaafaaaafaaaafaaaafaaaafaaaafaaaafaaaafaaaafaaaafaaaafaaaafaaaafaaaafaaaafaaaafaaaafaaaafaaaafaaaafaaaafaaaafaaaafaaaafaaaafaaaafaaaafaaaafaaaafaaaafaaaafaaaafaaaafaaaafaaaafaaaafaaaafaaaafaaaafaaaafaaaafaaaafaaaafaaaafaaaafaaaafaaaafaaaafaaaafaaaafaaaafaaaafaaaafaaaafaaaafaaaafaaaafaaaafaaaafaaaafaaaafaaaafaaaafaaaafaaaafaaaafaaaafaaaafaaaafaaaafaaaafaaaafaaaafaaaafaaaafaaaafaaaafaaaafaaaafaaaafaaaafaaaafaaaafaaaafaaaafaaaafaaaafaaaafaaaafaaaafaaaafaaaafaaaafaaaafaaaafaaaafaaaafaaaafaaaafaaaafaaaafaaaafaaaafaaaafaaaafaaaafaaaafaaaafaaaafaaaafaaaafaaaafaaaafaaaafaaaafaaaafaaaafaaaafaaaafaaaafaaaafaaaafaaaafaaaafaaaafaaaafaaaafaaaafaaaafaaaafaaaafaaaafaaaafaaaafaaaafaaaafaaaafaaaafaaaafaaaafaaaafaaaafaaaafaaaafaaaafaaaafaaaafaaaafaaaafaaaafaaaafaaaafaaaafaaaafaaaafaaaafaaaafaaaafaaaafaaaafaaaafaaaafaaaafaaaafaaaafaaaafaaaafaaaafaaaafaaaafaaaafaaaafaaaafaaaafaaaafaaaafaaaafaaaafaaaafaaaafaaaafaaaafaaaafaaaafaaaafaaaafaaaafaaaafaaaafaaaafaaaafaaaafaaaafaaaafaaaafaaaafaaaafaaaafaaaafaaaafaaaafaaaafaaaafaaaafaaaafaaaafaaaafaaaafaaaafaaaafaaaafaaaafaaaafaaaafaaaafaaaafaaaafaaaafaaaafaaaafaaaafaaaafaaaafaaaafaaaafaaaafaaaafaaaafaaaafaaaafaaaafaaaafaaaafaaaafaaaafaaaafaaaafaaaafaaaafaaaafaaaafaaaafaaaafaaaafaaaafaaaafaaaafaaaafaaaafaaaafaaaafaaaafaaaafaaaafaaaafaaaafaaaafaaaafaaaafaaaafaaaafaaaafaaaafaaaafaaaafaaaafaaaafaaaafaaaafaaaafaaaafaaaafaaaafaaaafaaaafaaaafaaaafaaaafaaaafaaaafaaaafaaaafaaaafaaaafaaaafaaaafaaaafaaaafaaaafaaaafaaaafaaaafaaaafaaaafaaaafaaaafaaaafaaaafaaaafaaaafaaaafaaaafaaaafaaaafaaaafaaaafaaaafaaaafaaaafaaaafaaaafaaaafaaaafaaaafaaaafaaaafaaaafaaaafaaaafaaaafaaaafaaaafaaaafaaaafaaaafaaaafaaaafaaaafaaaafaaaafaaaafaaaafaaaafaaaafaaaafaaaafaaaafaaaafaaaafaaaafaaaafaaaafaaaafaaaafaaaafaaaafaaaafaaaafaaaafaaaafaaaafaaaafaaaafaaaafaaaafaaaafaaaafaaaafaaaafaaaafaaaafaaaafaaaafaaaafaaaafaaaafaaaafaaaafaaaafaaaafaaaafaaaafaaaafaaaafaaaafaaaafaaaafaaaafaaaafaaaafaaaafaaaafaaaafaaaafaaaafaaaafaaaafaaaafaaaafaaaafaaaafaaaafaaaafaaaafaaaafaaaafaaaafaaaafaaaafaaaafaaaafaaaafaaaafaaaafaaaafaaaafaaaafaaaafaaaafaaaafaaaafaaaafaaaafaaaafaaaafaaaafaaaafaaaafaaaafaaaafaaaafaaaafaaaafaaaafaaaafaaaafaaaafaaaafaaaafaaaafaaaafaaaafaaaafaaaafaaaafaaaafaaaafaaaafaaaafaaaafaaaafaaaafaaaafaaaafaaaafaaaafaaaafaaaafaaaafaaaafaaaafaaaafaaaafaaaafaaaafaaaafaaaafaaaafaaaafaaaafaaaafaaaafaaaafaaaafaaaafaaaafaaaafaaaafaaaafaaaafaaaafaaaafaaaafaaaafaaaafaaaafaaaafaaaafaaaafaaaafaaaafaaaafaaaafaaaafaaaafaaaafaaaafaaaafaaaafaaaafaaaafaaaafaaaafaaaafaaaafaaaafaaaafaaaafaaaafaaaafaaaafaaaafaaaafaaaafaaaafaaaafaaaafaaaafaaaafaaaafaaaafaaaafaaaafaaaafaaaafaaaafaaaafaaaafaaaafaaaafaaaafaaaafaaaafaaaafaaaafaaaafaaaafaaaafaaaafaaaafaaaafaaaafaaaafaaaafaaaafaaaafaaaafaaaafaaaafaaaafaaaafaaaafaaaafaaaafaaaafaaaafaaaafaaaafaaaafaaaafaaaafaaaafaaaafaaaafaaaafaaaafaaaafaaaafaaaafaaaafaaaafaaaafaaaafaaaafaaaafaaaafaaaafaaaafaaaafaaaafaaaafaaaafaaaafaaaafaaaafaaaafaaaafaaaafaaaafaaaafaaaafaaaafaaaafaaaafaaaafaaaafaaaafaaaafaaaafaaaafaaaafaaaafaaaafaaaafaaaafaaaafaaaafaaaafaaaafaaaafaaaafaaaafaaaafaaaafaaaafaaaafaaaafaaaafaaaafaaaafaaaafaaaafaaaafaaaafaaaafaaaafaaaafaaaafaaaafaaaafaaaafaaaafaaaafaaaafaaaafaaaafaaaafaaaafaaaafaaaafaaaafaaaafaaaafaaaafaaaafaaaafaaaafaaaafaaaafaaaafaaaafaaaafaaaafaaaafaaaafaaaafaaaafaaaafaaaafaaaafaaaafaaaafaaaafaaaafaaaafaaaafaaaafaaaafaaaafaaaafaaaafaaaafaaaafaaaafaaaafaaaafaaaafaaaafaaaafaaaafaaaafaaaafaaaafaaaafaaaafaaaafaaaafaaaafaaaafaaaafaaaafaaaafaaaafaaaafaaaafaaaafaaaafaaaafaaaafaaaafaaaafaaaafaaaafaaaafaaaafaaaafaaaafaaaafaaaafaaaafaaaafaaaafaaaafaaaafaaaafaaaafaaaafaaaafaaaafaaaafaaaafaaaafaaaafaaaafaaaafaaaafaaaafaaaafaaaafaaaafaaaafaaaafaaaafaaaafaaaafaaaafaaaafaaaafaaaafaaaafaaaafaaaafaaaafaaaafaaaafaaaafaaaafaaaafaaaafaaaafaaaafaaaafaaaafaaaafaaaafaaaafaaaafaaaafaaaafaaaafaaaafaaaafaaaafaaaafaaaafaaaafaaaafaaaafaaaafaaaafaaaafaaaafaaaafaaaafaaaafaaaafaaaafaaaafaaaafaaaafaaaafaaaafaaaafaaaafaaaafaaaafaaaafaaaafaaaafaaaafaaaafaaaafaaaafaaaafaaaafaaaafaaaafaaaafaaaafaaaafaaaafaaaafaaaafaaaafaaaafaaaafaaaafaaaafaaaafaaaafaaaafaaaafaaaafaaaafaaaafaaaafaaaafaaaafaaaafaaaafaaaafaaaafaaaafaaaafaaaafaaaafaaaafaaaafaaaafaaaafaaaafaaaafaaaafaaaafaaaafaaaafaaaafaaaafaaaafaaaafaaaafaaaafaaaafaaaafaaaafaaaafaaaafaaaafaaaafaaaafaaaafaaaafaaaafaaaafaaaafaaaafaaaafaaaafaaaafaaaafaaaafaaaafaaaafaaaafaaaafaaaafaaaafaaaafaaaafaaaafaaaafaaaafaaaafaaaafaaaafaaaafaaaafaaaafaaaafaaaafaaaafaaaafaaaafaaaafaaaafaaaafaaaafaaaafaaaafaaaafaaaafaaaafaaaafaaaafaaaafaaaafaaaafaaaafaaaafaaaafaaaafaaaafaaaafaaaafaaaafaaaafaaaafaaaafaaaafaaaafaaaafaaaafaaaafaaaafaaaafaaaafaaaafaaaafaaaafaaaafaaaafaaaafaaaafaaaafaaaafaaaafaaaafaaaafaaaafaaaafaaaafaaaafaaaafaaaafaaaafaaaafaaaafaaaafaaaafaaaafaaaafaaaafaaaafaaaafaaaafaaaafaaaafaaaafaaaafaaaafaaaafaaaafaaaafaaaafaaaafaaaafaaaafaaaafaaaafaaaafaaaafaaaafaaaafaaaafaaaafaaaafaaaafaaaafaaaafaaaafaaaafaaaafaaaafaaaafaaaafaaaafaaaafaaaafaaaafaaaafaaaafaaaafaaaafaaaafaaaafaaaafaaaafaaaafaaaafaaaafaaaafaaaafaaaafaaaafaaaafaaaafaaaafaaaafaaaafaaaafaaaafaaaafaaaafaaaafaaaafaaaafaaaafaaaafaaaafaaaafaaaafaaaafaaaafaaaafaaaafaaaafaaaafaaaafaaaafaaaafaaaafaaaafaaaafaaaafaaaafaaaafaaaafaaaafaaaafaaaafaaaafaaaafaaaafaaaafaaaafaaaafaaaafaaaafaaaafaaaafaaaafaaaafaaaafaaaafaaaafaaaafaaaafaaaafaaaafaaaafaaaafaaaafaaaafaaaafaaaafaaaafaaaafaaaafaaaafaaaafaaaafaaaafaaaafaaaafaaaafaaaafaaaafaaaafaaaafaaaafaaaafaaaafaaaafaaaafaaaafaaaafaaaafaaaafaaaafaaaafaaaafaaaafaaaafaaaafaaaafaaaafaaaafaaaafaaaafaaaafaaaafaaaafaaaafaaaafaaaafaaaafaaaafaaaafaaaafaaaafaaaafaaaafaaaafaaaafaaaafaaaafaaaafaaaafaaaafaaaafaaaafaaaafaaaafaaaafaaaafaaaafaaaafaaaafaaaafaaaafaaaafaaaafaaaafaaaafaaaafaaaafaaaafaaaafaaaafaaaafaaaafaaaafaaaafaaaafaaaafaaaafaaaafaaaafaaaafaaaafaaaafaaaafaaaafaaaafaaaafaaaafaaaafaaaafaaaafaaaafaaaafaaaafaaaafaaaafaaaafaaaafaaaafaaaafaaaafaaaafaaaafaaaafaaaafaaaafaaaafaaaafaaaafaaaafaaaafaaaafaaaafaaaafaaaafaaaafaaaafaaaafaaaafaaaafaaaafaaaafaaaafaaaafaaaafaaaafaaaafaaaafaaaafaaaafaaaafaaaafaaaafaaaafaaaafaaaafaaaafaaaafaaaafaaaafaaaafaaaafaaaafaaaafaaaafaaaafaaaafaaaafaaaafaaaafaaaafaaaafaaaafaaaafaaaafaaaafaaaafaaaafaaaafaaaafaaaafaaaafaaaafaaaafaaaafaaaafaaaafaaaafaaaafaaaafaaaafaaaafaaaafaaaafaaaafaaaafaaaafaaaafaaaafaaaafaaaafaaaafaaaafaaaafaaaafaaaafaaaafaaaafaaaafaaaafaaaafaaaafaaaafaaaafaaaafaaaafaaaafaaaafaaaafaaaafaaaafaaaafaaaafaaaafaaaafaaaafaaaafaaaafaaaafaaaafaaaafaaaafaaaafaaaafaaaafaaaafaaaafaaaafaaaafaaaafaaaafaaaafaaaafaaaafaaaafaaaafaaaafaaaafaaaafaaaafaaaafaaaafaaaafaaaafaaaafaaaafaaaafaaaafaaaafaaaafaaaafaaaafaaaafaaaafaaaafaaaafaaaafaaaafaaaafaaaafaaaafaaaafaaaafaaaafaaaafaaaafaaaafaaaafaaaafaaaafaaaafaaaafaaaafaaaafaaaafaaaafaaaafaaaafaaaafaaaafaaaafaaaafaaaafaaaafaaaafaaaafaaaafaaaafaaaafaaaafaaaafaaaafaaaafaaaafaaaafaaaafaaaafaaaafaaaafaaaafaaaafaaaafaaaafaaaafaaaafaaaafaaaafaaaafaaaafaaaafaaaafaaaafaaaafaaaafaaaafaaaafaaaafaaaafaaaafaaaafaaaafaaaafaaaafaaaafaaaafaaaafaaaafaaaafaaaafaaaafaaaafaaaafaaaafaaaafaaaafaaaafaaaafaaaafaaaafaaaafaaaafaaaafaaaafaaaafaaaafaaaafaaaafaaaafaaaafaaaafaaaafaaaafaaaafaaaafaaaafaaaafaaaafaaaafaaaafaaaafaaaafaaaafaaaafaaaafaaaafaaaafaaaafaaaafaaaafaaaafaaaafaaaafaaaafaaaafaaaafaaaafaaaafaaaafaaaafaaaafaaaafaaaafaaaafaaaafaaaafaaaafaaaafaaaafaaaafaaaafaaaafaaaafaaaafaaaafaaaafaaaafaaaafaaaafaaaafaaaafaaaafaaaafaaaafaaaafaaaafaaaafaaaafaaaafaaaafaaaafaaaafaaaafaaaafaaaafaaaafaaaafaaaafaaaafaaaafaaaafaaaafaaaafaaaafaaaafaaaafaaaafaaaafaaaafaaaafaaaafaaaafaaaafaaaafaaaafaaaafaaaafaaaafaaaafaaaafaaaafaaaafaaaafaaaafaaaafaaaafaaaafaaaafaaaafaaaafaaaafaaaafaaaafaaaafaaaafaaaafaaaafaaaafaaaafaaaafaaaafaaaafaaaafaaaafaaaafaaaafaaaafaaaafaaaafaaaafaaaafaaaafaaaafaaaafaaaafaaaafaaaafaaaafaaaafaaaafaaaafaaaafaaaafaaaafaaaafaaaafaaaafaaaafaaaafaaaafaaaafaaaafaaaafaaaafaaaafaaaafaaaafaaaafaaaafaaaafaaaafaaaafaaaafaaaafaaaafaaaafaaaafaaaafaaaafaaaafaaaafaaaafaaaafaaaafaaaafaaaafaaaafaaaafaaaafaaaafaaaafaaaafaaaafaaaafaaaafaaaafaaaafaaaafaaaafaaaafaaaafaaaafaaaafaaaafaaaafaaaafaaaafaaaafaaaafaaaafaaaafaaaafaaaafaaaafaaaafaaaafaaaafaaaafaaaafaaaafaaaafaaaafaaaafaaaafaaaafaaaafaaaafaaaafaaaafaaaafaaaafaaaafaaaafaaaafaaaafaaaafaaaafaaaafaaaafaaaafaaaafaaaafaaaafaaaafaaaafaaaafaaaafaaaafaaaafaaaafaaaafaaaafaaaafaaaafaaaafaaaafaaaafaaaafaaaafaaaafaaaafaaaafaaaafaaaafaaaafaaaafaaaafaaaafaaaafaaaafaaaafaaaafaaaafaaaafaaaafaaaafaaaafaaaafaaaafaaaafaaaafaaaafaaaafaaaafaaaafaaaafaaaafaaaafaaaafaaaafaaaafaaaafaaaafaaaafaaaafaaaafaaaafaaaafaaaafaaaafaaaafaaaafaaaafaaaafaaaafaaaafaaaafaaaafaaaafaaaafaaaafaaaafaaaafaaaafaaaafaaaafaaaafaaaafaaaafaaaafaaaafaaaafaaaafaaaafaaaafaaaafaaaafaaaafaaaafaaaafaaaafaaaafaaaafaaaafaaaafaaaafaaaafaaaafaaaafaaaafaaaafaaaafaaaafaaaafaaaafaaaafaaaafaaaafaaaafaaaafaaaafaaaafaaaafaaaafaaaafaaaafaaaafaaaafaaaafaaaafaaaafaaaafaaaafaaaafaaaafaaaafaaaafaaaafaaaafaaaafaaaafaaaafaaaafaaaafaaaafaaaafaaaafaaaafaaaafaaaafaaaafaaaafaaaafaaaafaaaafaaaafaaaafaaaafaaaafaaaafaaaafaaaafaaaafaaaafaaaafaaaafaaaafaaaafaaaafaaaafaaaafaaaafaaaafaaaafaaaafaaaafaaaafaaaafaaaafaaaafaaaafaaaafaaaafaaaafaaaafaaaafaaaafaaaafaaaafaaaafaaaafaaaafaaaafaaaafaaaafaaaafaaaafaaaafaaaafaaaafaaaafaaaafaaaafaaaafaaaafaaaafaaaafaaaafaaaafaaaafaaaafaaaafaaaafaaaafaaaafaaaafaaaafaaaafaaaafaaaafaaaafaaaafaaaafaaaafaaaafaaaafaaaafaaaafaaaafaaaafaaaafaaaafaaaafaaaafaaaafaaaafaaaafaaaafaaaafaaaafaaaafaaaafaaaafaaaafaaaafaaaafaaaafaaaafaaaafaaaafaaaafaaaafaaaafaaaafaaaafaaaafaaaafaaaafaaaafaaaafaaaafaaaafaaaafaaaafaaaafaaaafaaaafaaaafaaaafaaaafaaaafaaaafaaaafaaaafaaaafaaaafaaaafaaaafaaaafaaaafaaaafaaaafaaaafaaaafaaaafaaaafaaaafaaaafaaaafaaaafaaaafaaaafaaaafaaaafaaaafaaaafaaaafaaaafaaaafaaaafaaaafaaaafaaaafaaaafaaaafaaaafaaaafaaaafaaaafaaaafaaaafaaaafaaaafaaaafaaaafaaaafaaaafaaaafaaaafaaaafaaaafaaaafaaaafaaaafaaaafaaaafaaaafaaaafaaaafaaaafaaaafaaaafaaaafaaaafaaaafaaaafaaaafaaaafaaaafaaaafaaaafaaaafaaaafaaaafaaaafaaaafaaaafaaaafaaaafaaaafaaaafaaaafaaaafaaaafaaaafaaaafaaaafaaaafaaaafaaaafaaaafaaaafaaaafaaaafaaaafaaaafaaaafaaaafaaaafaaaafaaaafaaaafaaaafaaaafaaaafaaaafaaaafaaaafaaaafaaaafaaaafaaaafaaaafaaaafaaaafaaaafaaaafaaaafaaaafaaaafaaaafaaaafaaaafaaaafaaaafaaaafaaaafaaaafaaaafaaaafaaaafaaaafaaaafaaaafaaaafaaaafaaaafaaaafaaaafaaaafaaaafaaaafaaaafaaaafaaaafaaaafaaaafaaaafaaaafaaaafaaaafaaaafaaaafaaaafaaaafaaaafaaaafaaaafaaaafaaaafaaaafaaaafaaaafaaaafaaaafaaaafaaaafaaaafaaaafaaaafaaaafaaaafaaaafaaaafaaaafaaaafaaaafaaaafaaaafaaaafaaaafaaaafaaaafaaaafaaaafaaaafaaaafaaaafaaaafaaaafaaaafaaaafaaaafaaaafaaaafaaaafaaaafaaaafaaaafaaaafaaaafaaaafaaaafaaaafaaaafaaaafaaaafaaaafaaaafaaaafaaaafaaaafaaaafaaaafaaaafaaaafaaaafaaaafaaaafaaaafaaaafaaaafaaaafaaaafaaaafaaaafaaaafaaaafaaaafaaaafaaaafaaaafaaaafaaaafaaaafaaaafaaaafaaaafaaaafaaaafaaaafaaaafaaaafaaaafaaaafaaaafaaaafaaaafaaaafaaaafaaaafaaaafaaaafaaaafaaaafaaaafaaaafaaaafaaaafaaaafaaaafaaaafaaaafaaaafaaaafaaaafaaaafaaaafaaaafaaaafaaaafaaaafaaaafaaaafaaaafaaaafaaaafaaaafaaaafaaaafaaaafaaaafaaaafaaaafaaaafaaaafaaaafaaaafaaaafaaaafaaaafaaaafaaaafaaaafaaaafaaaafaaaafaaaafaaaafaaaafaaaafaaaafaaaafaaaafaaaafaaaafaaaafaaaafaaaafaaaafaaaafaaaafaaaafaaaafaaaafaaaafaaaafaaaafaaaafaaaafaaaafaaaafaaaafaaaafaaaafaaaafaaaafaaaafaaaafaaaafaaaafaaaafaaaafaaaafaaaafaaaafaaaafaaaafaaaafaaaafaaaafaaaafaaaafaaaafaaaafaaaafaaaafaaaafaaaafaaaafaaaafaaaafaaaafaaaafaaaafaaaafaaaafaaaafaaaafaaaafaaaafaaaafaaaafaaaafaaaafaaaafaaaafaaaafaaaafaaaafaaaafaaaafaaaafaaaafaaaafaaaafaaaafaaaafaaaafaaaafaaaafaaaafaaaafaaaafaaaafaaaafaaaafaaaafaaaafaaaafaaaafaaaafaaaafaaaafaaaafaaaafaaaafaaaafaaaafaaaafaaaafaaaafaaaafaaaafaaaafaaaafaaaafaaaafaaaafaaaafaaaafaaaafaaaafaaaafaaaafaaaafaaaafaaaafaaaafaaaafaaaafaaaafaaaafaaaafaaaafaaaafaaaafaaaafaaaafaaaafaaaafaaaafaaaafaaaafaaaafaaaafaaaafaaaafaaaafaaaafaaaafaaaafaaaafaaaafaaaafaaaafaaaafaaaafaaaafaaaafaaaafaaaafaaaafaaaafaaaafaaaafaaaafaaaafaaaafaaaafaaaafaaaafaaaafaaaafaaaafaaaafaaaafaaaafaaaafaaaafaaaafaaaafaaaafaaaafaaaafaaaafaaaafaaaafaaaafaaaafaaaafaaaafaaaafaaaafaaaafaaaafaaaafaaaafaaaafaaaafaaaafaaaafaaaafaaaafaaaafaaaafaaaafaaaafaaaafaaaafaaaafaaaafaaaafaaaafaaaafaaaafaaaafaaaafaaaafaaaafaaaafaaaafaaaafaaaafaaaafaaaafaaaafaaaafaaaafaaaafaaaafaaaafaaaafaaaafaaaafaaaafaaaafaaaafaaaafaaaafaaaafaaaafaaaafaaaafaaaafaaaafaaaafaaaafaaaafaaaafaaaafaaaafaaaafaaaafaaaafaaaafaaaafaaaafaaaafaaaafaaaafaaaafaaaafaaaafaaaafaaaafaaaafaaaafaaaafaaaafaaaafaaaafaaaafaaaafaaaafaaaafaaaafaaaafaaaafaaaafaaaafaaaafaaaafaaaafaaaafaaaafaaaafaaaafaaaafaaaafaaaafaaaafaaaafaaaafaaaafaaaafaaaafaaaafaaaafaaaafaaaafaaaafaaaafaaaafaaaafaaaafaaaafaaaafaaaafaaaafaaaafaaaafaaaafaaaafaaaafaaaafaaaafaaaafaaaafaaaafaaaafaaaafaaaafaaaafaaaafaaaafaaaafaaaafaaaafaaaafaaaafaaaafaaaafaaaafaaaafaaaafaaaafaaaafaaaafaaaafaaaafaaaafaaaafaaaafaaaafaaaafaaaafaaaafaaaafaaaafaaaafaaaafaaaafaaaafaaaafaaaafaaaafaaaafaaaafaaaafaaaafaaaafaaaafaaaafaaaafaaaafaaaafaaaafaaaafaaaafaaaafaaaafaaaafaaaafaaaafaaaafaaaafaaaafaaaafaaaafaaaafaaaafaaaafaaaafaaaafaaaafaaaafaaaafaaaafaaaafaaaafaaaafaaaafaaaafaaaafaaaafaaaafaaaafaaaafaaaafaaaafaaaafaaaafaaaafaaaafaaaafaaaafaaaafaaaafaaaafaaaafaaaafaaaafaaaafaaaafaaaafaaaafaaaafaaaafaaaafaaaafaaaafaaaafaaaafaaaafaaaafaaaafaaaafaaaafaaaafaaaafaaaafaaaafaaaafaaaafaaaafaaaafaaaafaaaafaaaafaadcfaadcfaadcfaadcfaadcfaadcfaadcfaadcfaadcfaadcfaadcfaadcfaadcfaadcfaadcfaadcfaadcfaadcfaadcfaadcfaadcfaadcfaadcfaadcfaadcfaadcfaadcfaadcfaadcfaadcfaadcfaadcfaaaafaaaafaaaafaaaafaaaafaaaafaaaafaaaafaaaafaaaafaaaafaaaafaaaafaaaafaaaafaaaafaaaafaaaafaaaafaaaafaaaafaaaafaaaafaaaafaaaafaaaafaaaafaaaafaaaafaaaafaaaafaaaafaaaafaaaafaaaafaaaafaaaafaaaafaaaafaaaafaaaafaaaafaaaafaaaafaaaafaaaafaaaafaaaafaaaafaaaafaaaafaaaafaaaafaaaafaaaafaaaafaaaafaaaafaaaafaaaafaaaafaaaafaaaafaaaafaaaafaaaafaaaafaaaafaaaafaaaafaaaafaaaafaaaafaaaafaaaafaaaafaaaafaaaafaaaafaaaafaaaafaaaafaaaafaaaafaaaafaaaafaaaafaaaafaaaafaaaafaaaafaaaafaaaafaaaafaaaafaaaafaaaafaaaafaaaafaaaafaaaafaaaafaaaafaaaafaaaafaaaafaaaafaaaafaaaafaaaafaaaafaaaafaaaafaaaafaaaafaaaafaaaafaaaafaaaafaaaafaaaafaaaafaaaafaaaafaaaafaaaafaaaafaaaafaaaafaaaafaaaafaaaafaaaafaaaafaaaafaaaafaaaafaaaafaaaafaaaafaaaafaaaafaaaafaaaafaaaafaaaafaaaafaaaafaaaafaaaafaaaafaaaafaaaafaaaafaaaafaaaafaaaafaaaafaaaafaaaafaaaafaaaafaaaafaaaafaaaafaaaafaaaafaaaafaaaafaaaafaaaafaaaafaaaafaaaafaaaafaaaafaaaafaaaafaaaafaaaafaaaafaaaafaaaafaaaafaaaafaaaafaaaafaaaafaaaafaaaafaaaafaaaafaaaafaaaafaaaafaaaafaaaafaaaafaaaafaaaafaaaafaaaafaaaafaaaafaaaafaaaafaaaafaaaafaaaafaaaafaaaafaaaafaaaafaaaafaaaafaaaafaaaafaaaafaaaafaaaafaaaafaaaafaaaafaaaafaaaafaaaafaaaafaaaafaaaafaaaafaaaafaaaafaaaafaaaafaaaafaaaafaaaafaaaafaaaafaaaafaaaafaaaafaaaafaaaafaaaafaaaafaaaafaaaafaaaafaaaafaaaafaaaafaaaafaaaafaaaafaaaafaaaafaaaafaaaafaaaafaaaafaaaafaaaafaaaafaaaafaaaafaaaafaaaafaaaafaaaafaaaafaaaafaaaafaaaafaaaafaaaafaaaafaaaafaaaafaaaafaaaafaaaafaaaafaaaafaaaafaaaafaaaafaaaafaaaafaaaafaaaafaaaafaaaafaaaafaaaafaaaafaaaafaaaafaaaafaaaafaaaafaaaafaaaafaaaafaaaafaaaafaaaafaaaafaaaafaaaafaaaafaaaafaaaafaaaafaaaafaaaafaaaafaaaafaaaafaaaafaaaafaaaafaaaafaaaafaaaafaaaafaaaafaaaafaaaafaaaafaaaafaaaafaaaafaaaafaaaafaaaafaaaafaaaafaaaafaaaafaaaafaaaafaaaafaaaafaaaafaaaafaaaafaaaafaaaafaaaafaaaafaaaafaaaafaaaafaaaafaaaafaaaafaaaafaaaafaaaafaaaafaaaafaaaafaaaafaaaafaaaafaaaafaaaafaaaafaaaafaaaafaaaafaaaafaaaafaaaafaaaafaaaafaaaafaaaafaaaafaaaafaaaafaaaafaaaafaaaafaaaafaaaafaaaafaaaafaaaafaaaafaaaafaaaafaaaafaaaafaaaafaaaafaaaafaaaafaaaafaaaafaaaafaaaafaaaafaaaafaaaafaaaafaaaafaaaafaaaafaaaafaaaafaaaafaaaafaaaafaaaafaaaafaaaafaaaafaaaafaaaafaaaafaaaafaaaafaaaafaaaafaaaafaaaafaaaafaaaafaaaafaaaafaaaafaaaafaaaafaaaafaaaafaaaafaaaafaaaafaaaafaaaafaaaafaaaafaaaafaaaafaaaafaaaafaaaafaaaafaaaafaaaafaaaafaaaafaaaafaaaafaaaafaaaafaaaafaaaafaaaafaaaafaaaafaaaafaaaafaaaafaaaafaaaafaaaafaaaafaaaafaaaafaaaafaaaafaaaafaaaafaaaafaaaafaaaafaaaafaaaafaaaafaaaafaaaafaaaafaaaafaaaafaaaafaaaafaaaafaaaafaaaafaaaafaaaafaaaafaaaafaaaafaaaafaaaafaaaafaaaafaaaafaaaafaaaafaaaafaaaafaaaafaaaafaaaafaaaafaaaafaaaafaaaafaaaafaaaafaaaafaaaafaaaafaaaafaaaafaaaafaaaafaaaafaaaafaaaafaaaafaaaafaaaafaaaafaaaafaaaafaaaafaaaafaaaafaaaafaaaafaaaafaaaafaaaafaaaafaaaafaaaafaaaafaaaafaaaafaaaafaaaafaaaafaaaafaaaafaaaafaaaafaaaafaaaafaaaafaaaafaaaafaaaafaaaafaaaafaaaafaaaafaaaafaaaafaaaafaaaafaaaafaaaafaaaafaaaafaaaafaaaafaaaafaaaafaaaafaaaafaaaafaaaafaaaafaaaafaaaafaaaafaaaafaaaafaaaafaaaafaaaafaaaafaaaafaaaafaaaafaaaafaaaafaaaafaaaafaaaafaaaafaaaafaaaafaaaafaaaafaaaafaaaafaaaafaaaafaaaafaaaafaaaafaaaafaaaafaaaafaaaafaaaafaaaafaaaafaaaafaaaafaaaafaaaafaaaafaaaafaaaafaaaafaaaafaaaafaaaafaaaafaaaafaaaafaaaafaaaafaaaafaaaafaaaafaaaafaaaafaaaafaaaafaaaafaaaafaaaafaaaafaaaafaaaafaaaafaaaafaaaafaaaafaaaafaaaafaaaafaaaafaaaafaaaafaaaafaaaafaaaafaaaafaaaafaaaafaaaafaaaafaaaafaaaafaaaafaaaafaaaafaaaafaaaafaaaafaaaafaaaafaaaafaaaafaaaafaaaafaaaafaaaafaaaafaaaafaaaafaaaafaaaafaaaafaaaafaaaafaaaafaaaafaaaafaaaafaaaafaaaafaaaafaaaafaaaafaaaafaaaafaaaafaaaafaaaafaaaafaaaafaaaafaaaafaaaafaaaafaaaafaaaafaaaafaaaafaaaafaaaafaaaafaaaafaaaafaaaafaaaafaaaafaaaafaaaafaaaafaaaafaaaafaaaafaaaafaaaafaaaafaaaafaaaafaaaafaaaafaaaafaaaafaaaafaaaafaaaafaaaafaaaafaaaafaaaafaaaafaaaafaaaafaaaafaaaafaaaafaaaafaaaafaaaafaaaafaaaafaaaafaaaafaaaafaaaafaaaafaaaafaaaafaaaafaaaafaaaafaaaafaaaafaaaafaaaafaaaafaaaafaaaafaaaafaaaafaaaafaaaafaaaafaaaafaaaafaaaafaaaafaaaafaaaafaaaafaaaafaaaafaaaafaaaafaaaafaaaafaaaafaaaafaaaafaaaafaaaafaaaafaaaafaaaafaaaafaaaafaaaafaaaafaaaafaaaafaaaafaaaafaaaafaaaafaaaafaaaafaaaafaaaafaaaafaaaafaaaafaaaafaaaafaaaafaaaafaaaafaaaafaaaafaaaafaaaafaaaafaaaafaaaafaaaafaaaafaaaafaaaafaaaafaaaafaaaafaaaafaaaafaaaafaaaafaaaafaaaafaaaafaaaafaaaafaaaafaaaafaaaafaaaafaaaafaaaafaaaafaaaafaaaafaaaafaaaafaaaafaaaafaaaafaaaafaaaafaaaafaaaafaaaafaaaafaaaafaaaafaaaafaaaafaaaafaaaafaaaafaaaafaaaafaaaafaaaafaaaafaaaafaaaafaaaafaaaafaaaafaaaafaaaafaaaafaaaafaaaafaaaafaaaafaaaafaaaafaaaafaaaafaaaafaaaafaaaafaaaafaaaafaaaafaaaafaaaafaaaafaaaafaaaafaaaafaaaafaaaafaaaafaaaafaaaafaaaafaaaafaaaafaaaafaaaafaaaafaaaafaaaafaaaafaaaafaaaafaaaafaaaafaaaafaaaafaaaafaaaafaaaafaaaafaaaafaaaafaaaafaaaafaaaafaaaafaaaafaaaafaaaafaaaafaaaafaaaafaaaafaaaafaaaafaaaafaaaafaaaafaaaafaaaafaaaafaaaafaaaafaaaafaaaafaaaafaaaafaaaafaaaafaaaafaaaafaaaafaaaafaaaafaaaafaaaafaaaafaaaafaaaafaaaafaaaafaaaafaaaafaaaafaaaafaaaafaaaafaaaafaaaafaaaafaaaafaaaafaaaafaaaafaaaafaaaafaaaafaaaafaaaafaaaafaaaafaaaafaaaafaaaafaaaafaaaafaaaafaaaafaaaafaaaafaaaafaaaafaaaafaaaafaaaafaaaafaaaafaaaafaaaafaaaafaaaafaaaafaaaafaaaafaaaafaaaafaaaafaaaafaaaafaaaafaaaafaaaafaaaafaaaafaaaafaaaafaaaafaaaafaaaafaaaafaaaafaaaafaaaafaaaafaaaafaaaafaaaafaaaafaaaafaaaafaaaafaaaafaaaafaaaafaaaafaaaafaaaafaaaafaaaafaaaafaaaafaaaafaaaafaaaafaaaafaaaafaaaafaaaafaaaafaaaafaaaafaaaafaaaafaaaafaaaafaaaafaaaafaaaafaaaafaaaafaaaafaaaafaaaafaaaafaaaafaaaafaaaafaaaafaaaafaaaafaaaafaaaafaaaafaaaafaaaafaaaafaaaafaaaafaaaafaaaafaaaafaaaafaaaafaaaafaaaafaaaafaaaafaaaafaaaafaaaafaaaafaaaafaaaafaaaafaaaafaaaafaaaafaaaafaaaafaaaafaaaafaaaafaaaafaaaafaaaafaaaafaaaafaaaafaaaafaaaafaaaafaaaafaaaafaaaafaaaafaaaafaaaafaaaafaaaafaaaafaaaafaaaafaaaafaaaafaaaafaaaafaaaafaaaafaaaafaaaafaaaafaaaafaaaafaaaafaaaafaaaafaaaafaaaafaaaafaaaafaaaafaaaafaaaafaaaafaaaafaaaafaaaafaaaafaaaafaaaafaaaafaaaafaaaafaaaafaaaafaaaafaaaafaaaafaaaafaaaafaaaafaaaafaaaafaaaafaaaafaaaafaaaafaaaafaaaafaaaafaaaafaaaafaaaafaaaafaaaafaaaafaaaafaaaafaaaafaaaafaaaafaaaafaaaafaaaafaaaafaaaafaaaafaaaafaaaafaaaafaaaafaaaafaaaafaaaafaaaafaaaafaaaafaaaafaaaafaaaafaaaafaaaafaaaafaaaafaaaafaaaafaaaafaaaafaaaafaaaafaaaafaaaafaaaafaaaafaaaafaaaafaaaafaaaafaaaafaaaafaaaafaaaafaaaafaaaafaaaafaaaafaaaafaaaafaaaafaaaafaaaafaaaafaaaafaaaafaaaafaaaafaaaafaaaafaaaafaaaafaaaafaaaafaaaafaaaafaaaafaaaafaaaafaaaafaaaafaaaafaaaafaaaafaaaafaaaafaaaafaaaafaaaafaaaafaaaafaaaafaaaafaaaafaaaafaaaafaaaafaaaafaaaafaaaafaaaafaaaafaaaafaaaafaaaafaaaafaaaafaaaafaaaafaaaafaaaafaaaafaaaafaaaafaaaafaaaafaaaafaaaafaaaafaaaafaaaafaaaafaaaafaaaafaaaafaaaafaaaafaaaafaaaafaaaafaaaafaaaafaaaafaaaafaaaafaaaafaaaafaaaafaaaafaaaafaaaafaaaafaaaafaaaafaaaafaaaafaaaafaaaafaaaafaaaafaaaafaaaafaaaafaaaafaaaafaaaafaaaafaaaafaaaafaaaafaaaafaaaafaaaafaaaafaaaafaaaafaaaafaaaafaaaafaaaafaaaafaaaafaaaafaaaafaaaafaaaafaaaafaaaafaaaafaaaafaaaafaaaafaaaafaaaafaaaafaaaafaaaafaaaafaaaafaaaafaaaafaaaafaaaafaaaafaaaafaaaafaaaafaaaafaaaafaaaafaaaafaaaafaaaafaaaafaaaafaaaafaaaafaaaafaaaafaaaafaaaafaaaafaaaafaaaafaaaafaaaafaaaafaaaafaaaafaaaafaaaafaaaafaaaafaaaafaaaafaaaafaaaafaaaafaaaafaaaafaaaafaaaafaaaafaaaafaaaafaaaafaaaafaaaafaaaafaaaafaaaafaaaafaaaafaaaafaaaafaaaafaaaafaaaafaaaafaaaafaaaafaaaafaaaafaaaafaaaafaaaafaaaafaaaafaaaafaaaafaaaafaaaafaaaafaaaafaaaafaaaafaaaafaaaafaaaafaaaafaaaafaaaafaaaafaaaafaaaafaaaafaaaafaaaafaaaafaaaafaaaafaaaafaaaafaaaafaaaafaaaafaaaafaaaafaaaafaaaafaaaafaaaafaaaafaaaafaaaafaaaafaaaafaaaafaaaafaaaafaaaafaaaafaaaafaaaafaaaafaaaafaaaafaaaafaaaafaaaafaaaafaaaafaaaafaaaafaaaafaaaafaaaafaaaafaaaafaaaafaaaafaaaafaaaafaaaafaaaafaaaafaaaafaaaafaaaafaaaafaaaafaaaafaaaafaaaafaaaafaaaafaaaafaaaafaaaafaaaafaaaafaaaafaaaafaaaafaaaafaaaafaaaafaaaafaaaafaaaafaaaafaaaafaaaafaaaafaaaafaaaafaaaafaaaafaaaafaaaafaaaafaaaafaaaafaaaafaaaafaaaafaaaafaaaafaaaafaaaafaaaafaaaafaaaafaaaafaaaafaaaafaaaafaaaafaaaafaaaafaaaafaaaafaaaafaaaafaaaafaaaafaaaafaaaafaaaafaaaafaaaafaaaafaaaafaaaafaaaafaaaafaaaafaaaafaaaafaaaafaaaafaaaafaaaafaaaafaaaafaaaafaaaafaaaafaaaafaaaafaaaafaaaafaaaafaaaafaaaafaaaafaaaafaaaafaaaafaaaafaaaafaaaafaaaafaaaafaaaafaaaafaaaafaaaafaaaafaaaafaaaafaaaafaaaafaaaafaaaafaaaafaaaafaaaafaaaafaaaafaaaafaaaafaaaafaaaafaaaafaaaafaaaafaaaafaaaafaaaafaaaafaaaafaaaafaaaafaaaafaaaafaaaafaaaafaaaafaaaafaaaafaaaafaaaafaaaafaaaafaaaafaaaafaaaafaaaafaaaafaaaafaaaafaaaafaaaafaaaafaaaafaaaafaaaafaaaafaaaafaaaafaaaafaaaafaaaafaaaafaaaafaaaafaaaafaaaafaaaafaaaafaaaafaaaafaaaafaaaafaaaafaaaafaaaafaaaafaaaafaaaafaaaafaaaafaaaafaaaafaaaafaaaafaaaafaaaafaaaafaaaafaaaafaaaafaaaafaaaafaaaafaaaafaaaafaaaafaaaafaaaafaaaafaaaafaaaafaaaafaaaafaaaafaaaafaaaafaaaafaaaafaaaafaaaafaaaafaaaafaaaafaaaafaaaafaaaafaaaafaaaafaaaafaaaafaaaafaaaafaaaafaaaafaaaafaaaafaaaafaaaafaaaafaaaafaaaafaaaafaaaafaaaafaaaafaaaafaaaafaaaafaaaafaaaafaaaafaaaafaaaafaaaafaaaafaaaafaaaafaaaafaaaafaaaafaaaafaaaafaaaafaaaafaaaafaaaafaaaafaaaafaaaafaaaafaaaafaaaafaaaafaaaafaaaafaaaafaaaafaaaafaaaafaaaafaaaafaaaafaaaafaaaafaaaafaaaafaaaafaaaafaaaafaaaafaaaafaaaafaaaafaaaafaaaafaaaafaaaafaaaafaaaafaaaafaaaafaaaafaaaafaaaafaaaafaaaafaaaafaaaafaaaafaaaafaaaafaaaafaaaafaaaafaaaafaaaafaaaafaaaafaaaafaaaafaaaafaaaafaaaafaaaafaaaafaaaafaaaafaaaafaaaafaaaafaaaafaaaafaaaafaaaafaaaafaaaafaaaafaaaafaaaafaaaafaaaafaaaafaaaafaaaafaaaafaaaafaaaafaaaafaaaafaaaafaaaafaaaafaaaafaaaafaaaafaaaafaaaafaaaafaaaafaaaafaaaafaaaafaaaafaaaafaaaafaaaafaaaafaaaafaaaafaaaafaaaafaaaafaaaafaaaafaaaafaaaafaaaafaaaafaaaafaaaafaaaafaaaafaaaafaaaafaaaafaaaafaaaafaaaafaaaafaaaafaaaafaaaafaaaafaaaafaaaafaaaafaaaafaaaafaaaafaaaafaaaafaaaafaaaafaaaafaaaafaaaafaaaafaaaafaaaafaaaafaaaafaaaafaaaafaaaafaaaafaaaafaaaafaaaafaaaafaaaafaaaafaaaafaaaafaaaafaaaafaaaafaaaafaaaafaaaafaaaafaaaafaaaafaaaafaaaafaaaafaaaafaaaafaaaafaaaafaaaafaaaafaaaafaaaafaaaafaaaafaaaafaaaafaaaafaaaafaaaafaaaafaaaafaaaafaaaafaaaafaaaafaaaafaaaafaaaafaaaafaaaafaaaafaaaafaaaafaaaafaaaafaaaafaaaafaaaafaaaafaaaafaaaafaaaafaaaafaaaafaaaafaaaafaaaafaaaafaaaafaaaafaaaafaaaafaaaafaaaafaaaafaaaafaaaafaaaafaaaafaaaafaaaafaaaafaaaafaaaafaaaafaaaafaaaafaaaafaaaafaaaafaaaafaaaafaaaafaaaafaaaafaaaafaaaafaaaafaaaafaaaafaaaafaaaafaaaafaaaafaaaafaaaafaaaafaaaafaaaafaaaafaaaafaaaafaaaafaaaafaaaafaaaafaaaafaaaafaaaafaaaafaaaafaaaafaaaafaaaafaaaafaaaafaaaafaaaafaaaafaaaafaaaafaaaafaaaafaaaafaaaafaaaafaaaafaaaafaaaafaaaafaaaafaaaafaaaafaaaafaaaafaaaafaaaafaaaafaaaafaaaafaaaafaaaafaaaafaaaafaaaafaaaafaaaafaaaafaaaafaaaafaaaafaaaafaaaafaaaafaaaafaaaafaaaafaaaafaaaafaaaafaaaafaaaafaaaafaaaafaaaafaaaafaaaafaaaafaaaafaaaafaaaafaaaafaaaafaaaafaaaafaaaafaaaafaaaafaaaafaaaafaaaafaaaafaaaafaaaafaaaafaaaafaaaafaaaafaaaafaaaafaaaafaaaafaaaafaaaafaaaafaaaafaaaafaaaafaaaafaaaafaaaafaaaafaaaafaaaafaaaafaaaafaaaafaaaafaaaafaaaafaaaafaaaafaaaafaaaafaaaafaaaafaaaafaaaafaaaafaaaafaaaafaaaafaaaafaaaafaaaafaaaafaaaafaaaafaaaafaaaafaaaafaaaafaaaafaaaafaaaafaaaafaaaafaaaafaaaafaaaafaaaafaaaafaaaafaaaafaaaafaaaafaaaafaaaafaaaafaaaafaaaafaaaafaaaafaaaafaaaafaaaafaaaafaaaafaaaafaaaafaaaafaaaafaaaafaaaafaaaafaaaafaaaafaaaafaaaafaaaafaaaafaaaafaaaafaaaafaaaafaaaafaaaafaaaafaaaafaaaafaaaafaaaafaaaafaaaafaaaafaaaafaaaafaaaafaaaafaaaafaaaafaaaafaaaafaaaafaaaafaaaafaaaafaaaafaaaafaaaafaaaafaaaafaaaafaaaafaaaafaaaafaaaafaaaafaaaafaaaafaaaafaaaafaaaafaaaafaaaafaaaafaaaafaaaafaaaafaaaafaaaafaaaafaaaafaaaafaaaafaaaafaaaafaaaafaaaafaaaafaaaafaaaafaaaafaaaafaaaafaaaafaaaafaaaafaaaafaaaafaaaafaaaafaaaafaaaafaaaafaaaafaaaafaaaafaaaafaaaafaaaafaaaafaaaafaaaafaaaafaaaafaaaafaaaafaaaafaaaafaaaafaaaafaaaafaaaafaaaafaaaafaaaafaaaafaaaafaaaafaaaafaaaafaaaafaaaafaaaafaaaafaaaafaaaafaaaafaaaafaaaafaaaafaaaafaaaafaaaafaaaafaaaafaaaafaaaafaaaafaaaafaaaafaaaafaaaafaaaafaaaafaaaafaaaafaaaafaaaafaaaafaaaafaaaafaaaafaaaafaaaafaaaafaaaafaaaafaaaafaaaafaaaafaaaafaaaafaaaafaaaafaaaafaaaafaaaafaaaafaaaafaaaafaaaafaaaafaaaafaaaafaaaafaaaafaaaafaaaafaaaafaaaafaaaafaaaafaaaafaaaafaaaafaaaafaaaafaaaafaaaafaaaafaaaafaaaafaaaafaaaafaaaafaaaafaaaafaaaafaaaafaaaafaaaafaaaafaaaafaaaafaaaafaaaafaaaafaaaafaaaafaaaafaaaafaaaafaaaafaaaafaaaafaaaafaaaafaaaafaaaafaaaafaaaafaaaafaaaafaaaafaaaafaaaafaaaafaaaafaaaafaaaafaaaafaaaafaaaafaaaafaaaafaaaafaaaafaaaafaaaafaaaafaaaafaaaafaaaafaaaafaaaafaaaafaaaafaaaafaaaafaaaafaaaafaaaafaaaafaaaafaaaafaaaafaaaafaaaafaaaafaaaafaaaafaaaafaaaafaaaafaaaafaaaafaaaafaaaafaaaafaaaafaaaafaaaafaaaafaaaafaaaafaaaafaaaafaaaafaaaafaaaafaaaafaaaafaaaafaaaafaaaafaaaafaaaafaaaafaaaafaaaafaaaafaaaafaaaafaaaafaaaafaaaafaaaafaaaafaaaafaaaafaaaafaaaafaaaafaaaafaaaafaaaafaaaafaaaafaaaafaaaafaaaafaaaafaaaafaaaafaaaafaaaafaaaafaaaafaaaafaaaafaaaafaaaafaaaafaaaafaaaafaaaafaaaafaaaafaaaafaaaafaaaafaaaafaaaafaaaafaaaafaaaafaaaafaaaafaaaafaaaafaaaafaaaafaaaafaaaafaaaafaaaafaaaafaaaafaaaafaaaafaaaafaaaafaaaafaaaafaaaafaaaafaaaafaaaafaaaafaaaafaaaafaaaafaaaafaaaafaaaafaaaafaaaafaaaafaaaafaaaafaaaafaaaafaaaafaaaafaaaafaaaafaaaafaaaafaaaafaaaafaaaafaaaafaaaafaaaafaaaafaaaafaaaafaaaafaaaafaaaafaaaafaaaafaaaafaaaafaaaafaaaafaaaafaaaafaaaafaaaafaaaafaaaafaaaafaaaafaaaafaaaafaaaafaaaafaaaafaaaafaaaafaaaafaaaafaaaafaaaafaaaafaaaafaaaafaaaafaaaafaaaafaaaafaaaafaaaafaaaafaaaafaaaafaaaafaaaafaaaafaaaafaaaafaaaafaaaafaaaafaaaafaaaafaaaafaaaafaaaafaaaafaaaafaaaafaaaafaaaafaaaafaaaafaaaafaaaafaaaafaaaafaaaafaaaafaaaafaaaafaaaafaaaafaaaafaaaafaaaafaaaafaaaafaaaafaaaafaaaafaaaafaaaafaaaafaaaafaaaafaaaafaaaafaaaafaaaafaaaafaaaafaaaafaaaafaaaafaaaafaaaafaaaafaaaafaaaafaaaafaaaafaaaafaaaafaaaafaaaafaaaafaaaafaaaafaaaafaaaafaaaafaaaafaaaafaaaafaaaafaaaafaaaafaaaafaaaafaaaafaaaafaaaafaaaafaaaafaaaafaaaafaaaafaaaafaaaafaaaafaaaafaaaafaaaafaaaafaaaafaaaafaaaafaaaafaaaafaaaafaaaafaaaafaaaafaaaafaaaafaaaafaaaafaaaafaaaafaaaafaaaafaaaafaaaafaaaafaaaafaaaafaaaafaaaafaaaafaaaafaaaafaaaafaaaafaaaafaaaafaaaafaaaafaaaafaaaafaaaafaaaafaaaafaaaafaaaafaaaafaaaafaaaafaaaafaaaafaaaafaaaafaaaafaaaafaaaafaaaafaaaafaaaafaaaafaaaafaaaafaaaafaaaafaaaafaaaafaaaafaaaafaaaafaaaafaaaafaaaafaaaafaaaafaaaafaaaafaaaafaaaafaaaafaaaafaaaafaaaafaaaafaaaafaaaafaaaafaaaafaaaafaaaafaaaafaaaafaaaafaaaafaaaafaaaafaaaafaaaafaaaafaaaafaaaafaaaafaaaafaaaafaaaafaaaafaaaafaaaafaaaafaaaafaaaafaaaafaaaafaaaafaaaafaaaafaaaafaaaafaaaafaaaafaaaafaaaafaaaafaaaafaaaafaaaafaaaafaaaafaaaafaaaafaaaafaaaafaaaafaaaafaaaafaaaafaaaafaaaafaaaafaaaafaaaafaaaafaaaafaaaafaaaafaaaafaaaafaaaafaaaafaaaafaaaafaaaafaaaafaaaafaaaafaaaafaaaafaaaafaaaafaaaafaaaafaaaafaaaafaaaafaaaafaaaafaaaafaaaafaaaafaaaafaaaafaaaafaaaafaaaafaaaafaaaafaaaafaaaafaaaafaaaafaaaafaaaafaaaafaaaafaaaafaaaafaaaafaaaafaaaafaaaafaaaafaaaafaaaafaaaafaaaafaaaafaaaafaaaafaaaafaaaafaaaafaaaafaaaafaaaafaaaafaaaafaaaafaaaafaaaafaaaafaaaafaaaafaaaafaaaafaaaafaaaafaaaafaaaafaaaafaaaafaaaafaaaafaaaafaaaafaaaafaaaafaaaafaaaafaaaafaaaafaaaafaaaafaaaafaaaafaaaafaaaafaaaafaaaafaaaafaaaafaaaafaaaafaaaafaaaafaaaafaaaafaaaafaaaafaaaafaaaafaaaafaaaafaaaafaaaafaaaafaaaafaaaafaaaafaaaafaaaafaaaafaaaafaaaafaaaafaaaafaaaafaaaafaaaafaaaafaaaafaaaafaaaafaaaafaaaafaaaafaaaafaaaafaaaafaaaafaaaafaaaafaaaafaaaafaaaafaaaafaaaafaaaafaaaafaaaafaaaafaaaafaaaafaaaafaaaafaaaafaaaafaaaafaaaafaaaafaaaafaaaafaaaafaaaafaaaafaaaafaaaafaaaafaaaafaaaafaaaafaaaafaaaafaaaafaaaafaaaafaaaafaaaafaaaafaaaafaaaafaaaafaaaafaaaafaaaafaaaafaaaafaaaafaaaafaaaafaaaafaaaafaaaafaaaafaaaafaaaafaaaafaaaafaaaafaaaafaaaafaaaafaaaafaaaafaaaafaaaafaaaafaaaafaaaafaaaafaaaafaaaafaaaafaaaafaaaafaaaafaaaafaaaafaaaafaaaafaaaafaaaafaaaafaaaafaaaafaaaafaaaafaaaafaaaafaaaafaaaafaaaafaaaafaaaafaaaafaaaafaaaafaaaafaaaafaaaafaaaafaaaafaaaafaaaafaaaafaaaafaaaafaaaafaaaafaaaafaaaafaaaafaaaafaaaafaaaafaaaafaaaafaaaafaaaafaaaafaaaafaaaafaaaafaaaafaaaafaaaafaaaafaaaafaaaafaaaafaaaafaaaafaaaafaaaafaaaafaaaafaaaafaaaafaaaafaaaafaaaafaaaafaaaafaaaafaaaafaaaafaaaafaaaafaaaafaaaafaaaafaaaafaaaafaaaafaaaafaaaafaaaafaaaafaaaafaaaafaaaafaaaafaaaafaaaafaaaafaaaafaaaafaaaafaaaafaaaafaaaafaaaafaaaafaaaafaaaafaaaafaaaafaaaafaaaafaaaafaaaafaaaafaaaafaaaafaaaafaaaafaaaafaaaafaaaafaaaafaaaafaaaafaaaafaaaafaaaafaaaafaaaafaaaafaaaafaaaafaaaafaaaafaaaafaaaafaaaafaaaafaaaafaaaafaaaafaaaafaaaafaaaafaaaafaaaafaaaafaaaafaaaafaaaafaaaafaaaafaaaafaaaafaaaafaaaafaaaafaaaafaaaafaaaafaaaafaaaafaaaafaaaafaaaafaaaafaaaafaaaafaaaafaaaafaaaafaaaafaaaafaaaafaaaafaaaafaaaafaaaafaaaafaaaafaaaafaaaafaaaafaaaafaaaafaaaafaaaafaaaafaaaafaaaafaaaafaaaafaaaafaaaafaaaafaaaafaaaafaaaafaaaafaaaafaaaafaaaafaaaafaaaafaaaafaaaafaaaafaaaafaaaafaaaafaaaafaaaafaaaafaaaafaaaafaaaafaaaafaaaafaaaafaaaafaaaafaaaafaaaafaaaafaaaafaaaafaaaafaaaafaaaafaaaafaaaafaaaafaaaafaaaafaaaafaaaafaaaafaaaafaaaafaaaafaaaafaaaafaaaafaaaafaaaafaaaafaaaafaaaafaaaafaaaafaaaafaaaafaaaafaaaafaaaafaaaafaaaafaaaafaaaafaaaafaaaafaaaafaaaafaaaafaaaafaaaafaaaafaaaafaaaafaaaafaaaafaaaafaaaafaaaafaaaafaaaafaaaafaaaafaaaafaaaafaaaafaaaafaaaafaaaafaaaafaaaafaaaafaaaafaaaafaaaafaaaafaaaafaaaafaaaafaaaafaaaafaaaafaaaafaaaafaaaafaaaafaaaafaaaafaaaafaaaafaaaafaaaafaaaafaaaafaaaafaaaafaaaafaaaafaaaafaaaafaaaafaaaafaaaafaaaafaaaafaaaafaaaafaaaafaaaafaaaafaaaafaaaafaaaafaaaafaaaafaaaafaaaafaaaafaaaafaaaafaaaafaaaafaaaafaaaafaaaafaaaafaaaafaaaafaaaafaaaafaaaafaaaafaaaafaaaafaaaafaaaafaaaafaaaafaaaafaaaafaaaafaaaafaaaafaaaafaaaafaaaafaaaafaaaafaaaafaaaafaaaafaaaafaaaafaaaafaaaafaaaafaaaafaaaafaaaafaaaafaaaafaaaafaaaafaaaafaaaafaaaafaaaafaaaafaaaafaaaafaaaafaaaafaaaafaaaafaaaafaaaafaaaafaaaafaaaafaaaafaaaafaaaafaaaafaaaafaaaafaaaafaaaafaaaafaaaafaaaafaaaafaaaafaaaafaaaafaaaafaaaafaaaafaaaafaaaafaaaafaaaafaaaafaaaafaaaafaaaafaaaafaaaafaaaafaaaafaaaafaaaafaaaafaaaafaaaafaaaafaaaafaaaafaaaafaaaafaaaafaaaafaaaafaaaafaaaafaaaafaaaafaaaafaaaafaaaafaaaafaaaafaaaafaaaafaaaafaaaafaaaafaaaafaaaafaaaafaaaafaaaafaaaafaaaafaaaafaaaafaaaafaaaafaaaafaaaafaaaafaaaafaaaafaaaafaaaafaaaafaaaafaaaafaaaafaaaafaaaafaaaafaaaafaaaafaaaafaaaafaaaafaaaafaaaafaaaafaaaafaaaafaaaafaaaafaaaafaaaafaaaafaaaafaaaafaaaafaaaafaaaafaaaafaaaafaaaafaaaafaaaafaaaafaaaafaaaafaaaafaaaafaaaafaaaafaaaafaaaafaaaafaaaafaaaafaaaafaaaafaaaafaaaafaaaafaaaafaaaafaaaafaaaafaaaafaaaafaaaafaaaafaaaafaaaafaaaafaaaafaaaafaaaafaaaafaaaafaaaafaaaafaaaafaaaafaaaafaaaafaaaafaaaafaaaafaaaafaaaafaaaafaaaafaaaafaaaafaaaafaaaafaaaafaaaafaaaafaaaafaaaafaaaafaaaafaaaafaaaafaaaafaaaafaaaafaaaafaaaafaaaafaaaafaaaafaaaafaaaafaaaafaaaafaaaafaaaafaaaafaaaafaaaafaaaafaaaafaaaafaaaafaaaafaaaafaaaafaaaafaaaafaaaafaaaafaaaafaaaafaaaafaaaafaaaafaaaafaaaafaaaafaaaafaaaafaaaafaaaafaaaafaaaafaaaafaaaafaaaafaaaafaaaafaaaafaaaafaaaafaaaafaaaafaaaafaaaafaaaafaaaafaaaafaaaafaaaafaaaafaaaafaaaafaaaafaaaafaaaafaaaafaaaafaaaafaaaafaaaafaaaafaaaafaaaafaaaafaaaafaaaafaaaafaaaafaaaafaaaafaaaafaaaafaaaafaaaafaaaafaaaafaaaafaaaafaaaafaaaafaaaafaaaafaaaafaaaafaaaafaaaafaaaafaaaafaaaafaaaafaaaafaaaafaaaafaaaafaaaafaaaafaaaafaaaafaaaafaaaafaaaafaaaafaaaafaaaafaaaafaaaafaaaafaaaafaaaafaaaafaaaafaaaafaaaafaaaafaaaafaaaafaaaafaaaafaaaafaaaafaaaafaaaafaaaafaaaafaaaafaaaafaaaafaaaafaaaafaaaafaaaafaaaafaaaafaaaafaaaafaaaafaaaafaaaafaaaafaaaafaaaafaaaafaaaafaaaafaaaafaaaafaaaafaaaafaaaafaaaafaaaafaaaafaaaafaaaafaaaafaaaafaaaafaaaafaaaafaaaafaaaafaaaafaaaafaaaafaaaafaaaafaaaafaaaafaaaafaaaafaaaafaaaafaaaafaaaafaaaafaaaafaaaafaaaafaaaafaaaafaaaafaaaafaaaafaaaafaaaafaaaafaaaafaaaafaaaafaaaafaaaafaaaafaaaafaaaafaaaafaaaafaaaafaaaafaaaafaaaafaaaafaaaafaaaafaaaafaaaafaaaafaaaafaaaafaaaafaaaafaaaafaaaafaaaafaaaafaaaafaaaafaaaafaaaafaaaafaaaafaaaafaaaafaaaafaaaafaaaafaaaafaaaafaaaafaaaafaaaafaaaafaaaafaaaafaaaafaaaafaaaafaaaafaaaafaaaafaaaafaaaafaaaafaaaafaaaafaaaafaaaafaaaafaaaafaaaafaaaafaaaafaaaafaaaafaaaafaaaafaaaafaaaafaaaafaaaafaaaafaaaafaaaafaaaafaaaafaaaafaaaafaaaafaaaafaaaafaaaafaaaafaaaafaaaafaaaafaaaafaaaafaaaafaaaafaaaafaaaafaaaafaaaafaaaafaaaafaaaafaaaafaaaafaaaafaaaafaaaafaaaafaaaafaaaafaaaafaaaafaaaafaaaafaaaafaaaafaaaafaaaafaaaafaaaafaaaafaaaafaaaafaaaafaaaafaaaafaaaafaaaafaaaafaaaafaaaafaaaafaaaafaaaafaaaafaaaafaaaafaaaafaaaafaaaafaaaafaaaafaaaafaaaafaaaafaaaafaaaafaaaafaaaafaaaafaaaafaaaafaaaafaaaafaaaafaaaafaaaafaaaafaaaafaaaafaaaafaaaafaaaafaaaafaaaafaaaafaaaafaaaafaaaafaaaafaaaafaaaafaaaafaaaafaaaafaaaafaaaafaaaafaaaafaaaafaaaafaaaafaaaafaaaafaaaafaaaafaaaafaaaafaaaafaaaafaaaafaaaafaaaafaaaafaaaafaaaafaaaafaaaafaaaafaaaafaaaafaaaafaaaafaaaafaaaafaaaafaaaafaaaafaaaafaaaafaaaafaaaafaaaafaaaafaaaafaaaafaaaafaaaafaaaafaaaafaaaafaaaafaaaafaaaafaaaafaaaafaaaafaaaafaaaafaaaafaaaafaaaafaaaafaaaafaaaafaaaafaaaafaaaafaaaafaaaafaaaafaaaafaaaafaaaafaaaafaaaafaaaafaaaafaaaafaaaafaaaafaaaafaaaafaaaafaaaafaaaafaaaafaaaafaaaafaaaafaaaafaaaafaaaafaaaafaaaafaaaafaaaafaaaafaaaafaaaafaaaafaaaafaaaafaaaafaaaafaaaafaaaafaaaafaaaafaaaafaaaafaaaafaaaafaaaafaaaafaaaafaaaafaaaafaaaafaaaafaaaafaaaafaaaafaaaafaaaafaaaafaaaafaaaafaaaafaaaafaaaafaaaafaaaafaaaafaaaafaaaafaaaafaaaafaaaafaaaafaaaafaaaafaaaafaaaafaaaafaaaafaaaafaaaafaaaafaaaafaaaafaaaafaaaafaaaafaaaafaaaafaaaafaaaafaaaafaaaafaaaafaaaafaaaafaaaafaaaafaaaafaaaafaaaafaaaafaaaafaaaafaaaafaaaafaaaafaaaafaaaafaaaafaaaafaaaafaaaafaaaafaaaafaaaafaaaafaaaafaaaafaaaafaaaafaaaafaaaafaaaafaaaafaaaafaaaafaaaafaaaafaaaafaaaafaaaafaaaafaaaafaaaafaaaafaaaafaaaafaaaafaaaafaaaafaaaafaaaafaaaafaaaafaaaafaaaafaaaafaaaafaaaafaaaafaaaafaaaafaaaafaaaafaaaafaaaafaaaafaaaafaaaafaaaafaaaafaaaafaaaafaaaafaaaafaaaafaaaafaaaafaaaafaaaafaaaafaaaafaaaafaaaafaaaafaaaafaaaafaaaafaaaafaaaafaaaafaaaafaaaafaaaafaaaafaaaafaaaafaaaafaaaafaaaafaaaafaaaafaaaafaaaafaaaafaaaafaaaafaaaafaaaafaaaafaaaafaaaafaaaafaaaafaaaafaaaafaaaafaaaafaaaafaaaafaaaafaaaafaaaafaaaafaaaafaaaafaaaafaaaafaaaafaaaafaaaafaaaafaaaafaaaafaaaafaaaafaaaafaaaafaaaafaaaafaaaafaaaafaaaafaaaafaaaafaaaafaaaafaaaafaaaafaaaafaaaafaaaafaaaafaaaafaaaafaaaafaaaafaaaafaaaafaaaafaaaafaaaafaaaafaaaafaaaafaaaafaaaafaaaafaaaafaaaafaaaafaaaafaaaafaaaafaaaafaaaafaaaafaaaafaaaafaaaafaaaafaaaafaaaafaaaafaaaafaaaafaaaafaaaafaaaafaaaafaaaafaaaafaaaafaaaafaaaafaaaafaaaafaaaafaaaafaaaafaaaafaaaafaaaafaaaafaaaafaaaafaaaafaaaafaaaafaaaafaaaafaaaafaaaafaaaafaaaafaaaafaaaafaaaafaaaafaaaafaaaafaaaafaaaafaaaafaaaafaaaafaaaafaaaafaaaafaaaafaaaafaaaafaaaafaaaafaaaafaaaafaaaafaaaafaaaafaaaafaaaafaaaafaaaafaaaafaaaafaaaafaaaafaaaafaaaafaaaafaaaafaaaafaaaafaaaafaaaafaaaafaaaafaaaafaaaafaaaafaaaafaaaafaaaafaaaafaaaafaaaafaaaafaaaafaaaafaaaafaaaafaaaafaaaafaaaafaaaafaaaafaaaafaaaafaaaafaaaafaaaafaaaafaaaafaaaafaaaafaaaafaaaafaaaafaaaafaaaafaaaafaaaafaaaafaaaafaaaafaaaafaaaafaaaafaaaafaaaafaaaafaaaafaaaafaaaafaaaafaaaafaaaafaaaafaaaafaaaafaaaafaaaafaaaafaaaafaaaafaaaafaaaafaaaafaaaafaaaafaaaafaaaafaaaafaaaafaaaafaaaafaaaafaaaafaaaafaaaafaaaafaaaafaaaafaaaafaaaafaaaafaaaafaaaafaaaafaaaafaaaafaaaafaaaafaaaafaaaafaaaafaaaafaaaafaaaafaaaafaaaafaaaafaaaafaaaafaaaafaaaafaaaafaaaafaaaafaaaafaaaafaaaafaaaafaaaafaaaafaaaafaaaafaaaafaaaafaaaafaaaafaaaafaaaafaaaafaaaafaaaafaaaafaaaafaaaafaaaafaaaafaaaafaaaafaaaafaaaafaaaafaaaafaaaafaaaafaaaafaaaafaaaafaaaafaaaafaaaafaaaafaaaafaaaafaaaafaaaafaaaafaaaafaaaafaaaafaaaafaaaafaaaafaaaafaaaafaaaafaaaafaaaafaaaafaaaafaaaafaaaafaaaafaaaafaaaafaaaafaaaafaaaafaaaafaaaafaaaafaaaafaaaafaaaafaaaafaaaafaaaafaaaafaaaafaaaafaaaafaaaafaaaafaaaafaaaafaaaafaaaafaaaafaaaafaaaafaaaafaaaafaaaafaaaafaaaafaaaafaaaafaaaafaaaafaaaafaaaafaaaafaaaafaaaafaaaafaaaafaaaafaaaafaaaafaaaafaaaafaaaafaaaafaaaafaaaafaaaafaaaafaaaafaaaafaaaafaaaafaaaafaaaafaaaafaaaafaaaafaaaafaaaafaaaafaaaafaaaafaaaafaaaafaaaafaaaafaaaafaaaafaaaafaaaafaaaafaaaafaaaafaaaafaaaafaaaafaaaafaaaafaaaafaaaafaaaafaaaafaaaafaaaafaaaafaaaafaaaafaaaafaaaafaaaafaaaafaaaafaaaafaaaafaaaafaaaafaaaafaaaafaaaafaaaafaaaafaaaafaaaafaaaafaaaafaaaafaaaafaaaafaaaafaaaafaaaafaaaafaaaafaaaafaaaafaaaafaaaafaaaafaaaafaaaafaaaafaaaafaaaafaaaafaaaafaaaafaaaafaaaafaaaafaaaafaaaafaaaafaaaafaaaafaaaafaaaafaaaafaaaafaaaafaaaafaaaafaaaafaaaafaaaafaaaafaaaafaaaafaaaafaaaafaaaafaaaafaaaafaaaafaaaafaaaafaaaafaaaafaaaafaaaafaaaafaaaafaaaafaaaafaaaafaaaafaaaafaaaafaaaafaaaafaaaafaaaafaaaafaaaafaaaafaaaafaaaafaaaafaaaafaaaafaaaafaaaafaaaafaaaafaaaafaaaafaaaafaaaafaaaafaaaafaaaafaaaafaaaafaaaafaaaafaaaafaaaafaaaafaaaafaaaafaaaafaaaafaaaafaaaafaaaafaaaafaaaafaaaafaaaafaaaafaaaafaaaafaaaafaaaafaaaafaaaafaaaafaaaafaaaafaaaafaaaafaaaafaaaafaaaafaaaafaaaafaaaafaaaafaaaafaaaafaaaafaaaafaaaafaaaafaaaafaaaafaaaafaaaafaaaafaaaafaaaafaaaafaaaafaaaafaaaafaaaafaaaafaaaafaaaafaaaafaaaafaaaafaaaafaaaafaaaafaaaafaaaafaaaafaaaafaaaafaaaafaaaafaaaafaaaafaaaafaaaafaaaafaaaafaaaafaaaafaaaafaaaafaaaafaaaafaaaafaaaafaaaafaaaafaaaafaaaafaaaafaaaafaaaafaaaafaaaafaaaafaaaafaaaafaaaafaaaafaaaafaaaafaaaafaaaafaaaafaaaafaaaafaaaafaaaafaaaafaaaafaaaafaaaafaaaafaaaafaaaafaaaafaaaafaaaafaaaafaaaafaaaafaaaafaaaafaaaafaaaafaaaafaaaafaaaafaaaafaaaafaaaafaaaafaaaafaaaafaaaafaaaafaaaafaaaafaaaafaaaafaaaafaaaafaaaafaaaafaaaafaaaafaaaafaaaafaaaafaaaafaaaafaaaafaaaafaaaafaaaafaaaafaaaafaaaafaaaafaaaafaaaafaaaafaaaafaaaafaaaafaaaafaaaafaaaafaaaafaaaafaaaafaaaafaaaafaaaafaaaafaaaafaaaafaaaafaaaafaaaafaaaafaaaafaaaafaaaafaaaafaaaafaaaafaaaafaaaafaaaafaaaafaaaafaaaafaaaafaaaafaaaafaaaafaaaafaaaafaaaafaaaafaaaafaaaafaaaafaaaafaaaafaaaafaaaafaaaafaaaafaaaafaaaafaaaafaaaafaaaafaaaafaaaafaaaafaaaafaaaafaaaafaaaafaaaafaaaafaaaafaaaafaaaafaaaafaaaafaaaafaaaafaaaafaaaafaaaafaaaafaaaafaaaafaaaafaaaafaaaafaaaafaaaafaaaafaaaafaaaafaaaafaaaafaaaafaaaafaaaafaaaafaaaafaaaafaaaafaaaafaaaafaaaafaaaafaaaafaaaafaaaafaaaafaaaafaaaafaaaafaaaafaaaafaaaafaaaafaaaafaaaafaaaafaaaafaaaafaaaafaaaafaaaafaaaafaaaafaaaafaaaafaaaafaaaafaaaafaaaafaaaafaaaafaaaafaaaafaaaafaaaafaaaafaaaafaaaafaaaafaaaafaaaafaaaafaaaafaaaafaaaafaaaafaaaafaaaafaaaafaaaafaaaafaaaafaaaafaaaafaaaafaaaafaaaafaaaafaaaafaaaafaaaafaaaafaaaafaaaafaaaafaaaafaaaafaaaafaaaafaaaafaaaafaaaafaaaafaaaafaaaafaaaafaaaafaaaafaaaafaaaafaaaafaaaafaaaafaaaafaaaafaaaafaaaafaaaafaaaafaaaafaaaafaaaafaaaafaaaafaaaafaaaafaaaafaaaafaaaafaaaafaaaafaaaafaaaafaaaafaaaafaaaafaaaafaaaafaaaafaaaafaaaafaaaafaaaafaaaafaaaafaaaafaaaafaaaafaaaafaaaafaaaafaaaafaaaafaaaafaaaafaaaafaaaafaaaafaaaafaaaafaaaafaaaafaaaafaaaafaaaafaaaafaaaafaaaafaaaafaaaafaaaafaaaafaaaafaaaafaaaafaaaafaaaafaaaafaaaafaaaafaaaafaaaafaaaafaaaafaaaafaaaafaaaafaaaafaaaafaaaafaaaafaaaafaaaafaaaafaaaafaaaafaaaafaaaafaaaafaaaafaaaafaaaafaaaafaaaafaaaafaaaafaaaafaaaafaaaafaaaafaaaafaaaafaaaafaaaafaaaafaaaafaaaafaaaafaaaafaaaafaaaafaaaafaaaafaaaafaaaafaaaafaaaafaaaafaaaafaaaafaaaafaaaafaaaafaaaafaaaafaaaafaaaafaaaafaaaafaaaafaaaafaaaafaaaafaaaafaaaafaaaafaaaafaaaafaaaafaaaafaaaafaaaafaaaafaaaafaaaafaaaafaaaafaaaafaaaafaaaafaaaafaaaafaaaafaaaafaaaafaaaafaaaafaaaafaaaafaaaafaaaafaaaafaaaafaaaafaaaafaaaafaaaafaaaafaaaafaaaafaaaafaaaafaaaafaaaafaaaafaaaafaaaafaaaafaaaafaaaafaaaafaaaafaaaafaaaafaaaafaaaafaaaafaaaafaaaafaaaafaaaafaaaafaaaafaaaafaaaafaaaafaaaafaaaafaaaafaaaafaaaafaaaafaaaafaaaafaaaafaaaafaaaafaaaafaaaafaaaafaaaafaaaafaaaafaaaafaaaafaaaafaaaafaaaafaaaafaaaafaaaafaaaafaaaafaaaafaaaafaaaafaaaafaaaafaaaafaaaafaaaafaaaafaaaafaaaafaaaafaaaafaaaafaaaafaaaafaaaafaaaafaaaafaaaafaaaafaaaafaaaafaaaafaaaafaaaafaaaafaaaafaaaafaaaafaaaafaaaafaaaafaaaafaaaafaaaafaaaafaaaafaaaafaaaafaaaafaaaafaaaafaaaafaaaafaaaafaaaafaaaafaaaafaaaafaaaafaaaafaaaafaaaafaaaafaaaafaaaafaaaafaaaafaaaafaaaafaaaafaaaafaaaafaaaafaaaafaaaafaaaafaaaafaaaafaaaafaaaafaaaafaaaafaaaafaaaafaaaafaaaafaaaafaaaafaaaafaaaafaaaafaaaafaaaafaaaafaaaafaaaafaaaafaaaafaaaafaaaafaaaafaaaafaaaafaaaafaaaafaaaafaaaafaaaafaaaafaaaafaaaafaaaafaaaafaaaafaaaafaaaafaaaafaaaafaaaafaaaafaaaafaaaafaaaafaaaafaaaafaaaafaaaafaaaafaaaafaaaafaaaafaaaafaaaafaaaafaaaafaaaafaaaafaaaafaaaafaaaafaaaafaaaafaaaafaaaafaaaafaaaafaaaafaaaafaaaafaaaafaaaafaaaafaaaafaaaafaaaafaaaafaaaafaaaafaaaafaaaafaaaafaaaafaaaafaaaafaaaafaaaafaaaafaaaafaaaafaaaafaaaafaaaafaaaafaaaafaaaafaaaafaaaafaaaafaaaafaaaafaaaafaaaafaaaafaaaafaaaafaaaafaaaafaaaafaaaafaaaafaaaafaaaafaaaafaaaafaaaafaaaafaaaafaaaafaaaafaaaafaaaafaaaafaaaafaaaafaaaafaaaafaaaafaaaafaaaafaaaafaaaafaaaafaaaafaaaafaaaafaaaafaaaafaaaafaaaafaaaafaaaafaaaafaaaafaaaafaaaafaaaafaaaafaaaafaaaafaaaafaaaafaaaafaaaafaaaafaaaafaaaafaaaafaaaafaaaafaaaafaaaafaaaafaaaafaaaafaaaafaaaafaaaafaaaafaaaafaaaafaaaafaaaafaaaafaaaafaaaafaaaafaaaafaaaafaaaafaaaafaaaafaaaafaaaafaaaafaaaafaaaafaaaafaaaafaaaafaaaafaaaafaaaafaaaafaaaafaaaafaaaafaaaafaaaafaaaafaaaafaaaafaaaafaaaafaaaafaaaafaaaafaaaafaaaafaaaafaaaafaaaafaaaafaaaafaaaafaaaafaaaafaaaafaaaafaaaafaaaafaaaafaaaafaaaafaaaafaaaafaaaafaaaafaaaafaaaafaaaafaaaafaaaafaaaafaaaafaaaafaaaafaaaafaaaafaaaafaaaafaaaafaaaafaaaafaaaafaaaafaaaafaaaafaaaafaaaafaaaafaaaafaaaafaaaafaaaafaaaafaaaafaaaafaaaafaaaafaaaafaaaafaaaafaaaafaaaafaaaafaaaafaaaafaaaafaaaafaaaafaaaafaaaafaaaafaaaafaaaafaaaafaaaafaaaafaaaafaaaafaaaafaaaafaaaafaaaafaaaafaaaafaaaafaaaafaaaafaaaafaaaafaaaafaaaafaaaafaaaafaaaafaaaafaaaafaaaafaaaafaaaafaaaafaaaafaaaafaaaafaaaafaaaafaaaafaaaafaaaafaaaafaaaafaaaafaaaafaaaafaaaafaaaafaaaafaaaafaaaafaaaafaaaafaaaafaaaafaaaafaaaafaaaafaaaafaaaafaaaafaaaafaaaafaaaafaaaafaaaafaaaafaaaafaaaafaaaafaaaafaaaafaaaafaaaafaaaafaaaafaaaafaaaafaaaafaaaafaaaafaaaafaaaafaaaafaaaafaaaafaaaafaaaafaaaafaaaafaaaafaaaafaaaafaaaafaaaafaaaafaaaafaaaafaaaafaaaafaaaafaaaafaaaafaaaafaaaafaaaafaaaafaaaafaaaafaaaafaaaafaaaafaaaafaaaafaaaafaaaafaaaafaaaafaaaafaaaafaaaafaaaafaaaafaaaafaaaafaaaafaaaafaaaafaaaafaaaafaaaafaaaafaaaafaaaafaaaafaaaafaaaafaaaafaaaafaaaafaaaafaaaafaaaafaaaafaaaafaaaafaaaafaaaafaaaafaaaafaaaafaaaafaaaafaaaafaaaafaaaafaaaafaaaafaaaafaaaafaaaafaaaafaaaafaaaafaaaafaaaafaaaafaaaafaaaafaaaafaaaafaaaafaaaafaaaafaaaafaaaafaaaafaaaafaaaafaaaafaaaafaaaafaaaafaaaafaaaafaaaafaaaafaaaafaaaafaaaafaaaafaaaafaaaafaaaafaaaafaaaafaaaafaaaafaaaafaaaafaaaafaaaafaaaafaaaafaaaafaaaafaaaafaaaafaaaafaaaafaaaafaaaafaaaafaaaafaaaafaaaafaaaafaaaafaaaafaaaafaaaafaaaafaaaafaaaafaaaafaaaafaaaafaaaafaaaafaaaafaaaafaaaafaaaafaaaafaaaafaaaafaaaafaaaafaaaafaaaafaaaafaaaafaaaafaaaafaaaafaaaafaaaafaaaafaaaafaaaafaaaafaaaafaaaafaaaafaaaafaaaafaaaafaaaafaaaafaaaafaaaafaaaafaaaafaaaafaaaafaaaafaaaafaaaafaaaafaaaafaaaafaaaafaaaafaaaafaaaafaaaafaaaafaaaafaaaafaaaafaaaafaaaafaaaafaaaafaaaafaaaafaaaafaaaafaaaafaaaafaaaafaaaafaaaafaaaafaaaafaaaafaaaafaaaafaaaafaaaafaaaafaaaafaaaafaaaafaaaafaaaafaaaafaaaafaaaafaaaafaaaafaaaafaaaafaaaafaaaafaaaafaaaafaaaafaaaafaaaafaaaafaaaafaaaafaaaafaaaafaaaafaaaafaaaafaaaafaaaafaaaafaaaafaaaafaaaafaaaafaaaafaaaafaaaafaaaafaaaafaaaafaaaafaaaafaaaafaaaafaaaafaaaafaaaafaaaafaaaafaaaafaaaafaaaafaaaafaaaafaaaafaaaafaaaafaaaafaaaafaaaafaaaafaaaafaaaafaaaafaaaafaaaafaaaafaaaafaaaafaaaafaaaafaaaafaaaafaaaafaaaafaaaafaaaafaaaafaaaafaaaafaaaafaaaafaaaafaaaafaaaafaaaafaaaafaaaafaaaafaaaafaaaafaaaafaaaafaaaafaaaafaaaafaaaafaaaafaaaafaaaafaaaafaaaafaaaafaaaafaaaafaaaafaaaafaaaafaaaafaaaafaaaafaaaafaaaafaaaafaaaafaaaafaaaafaaaafaaaafaaaafaaaafaaaafaaaafaaaafaaaafaaaafaaaafaaaafaaaafaaaafaaaafaaaafaaaafaaaafaaaafaaaafaaaafaaaafaaaafaaaafaaaafaaaafaaaafaaaafaaaafaaaafaaaafaaaafaaaafaaaafaaaafaaaafaaaafaaaafaaaafaaaafaaaafaaaafaaaafaaaafaaaafaaaafaaaafaaaafaaaafaaaafaaaafaaaafaaaafaaaafaaaafaaaafaaaafaaaafaaaafaaaafaaaafaaaafaaaafaaaafaaaafaaaafaaaafaaaafaaaafaaaafaaaafaaaafaaaafaaaafaaaafaaaafaaaafaaaafaaaafaaaafaaaafaaaafaaaafaaaafaaaafaaaafaaaafaaaafaaaafaaaafaaaafaaaafaaaafaaaafaaaafaaaafaaaafaaaafaaaafaaaafaaaafaaaafaaaafaaaafaaaafaaaafaaaafaaaafaaaafaaaafaaaafaaaafaaaafaaaafaaaafaaaafaaaafaaaafaaaafaaaafaaaafaaaafaaaafaaaafaaaafaaaafaaaafaaaafaaaafaaaafaaaafaaaafaaaafaaaafaaaafaaaafaaaafaaaafaaaafaaaafaaaafaaaafaaaafaaaafaaaafaaaafaaaafaaaafaaaafaaaafaaaafaaaafaaaafaaaafaaaafaaaafaaaafaaaafaaaafaaaafaaaafaaaafaaaafaaaafaaaafaaaafaaaafaaaafaaaafaaaafaaaafaaaafaaaafaaaafaaaafaaaafaaaafaaaafaaaafaaaafaaaafaaaafaaaafaaaafaaaafaaaafaaaafaaaafaaaafaaaafaaaafaaaafaaaafaaaafaaaafaaaafaaaafaaaafaaaafaaaafaaaafaaaafaaaafaaaafaaaafaaaafaaaafaaaafaaaafaaaafaaaafaaaafaaaafaaaafaaaafaaaafaaaafaaaafaaaafaaaafaaaafaaaafaaaafaaaafaaaafaaaafaaaafaaaafaaaafaaaafaaaafaaaafaaaafaaaafaaaafaaaafaaaafaaaafaaaafaaaafaaaafaaaafaaaafaaaafaaaafaaaafaaaafaaaafaaaafaaaafaaaafaaaafaaaafaaaafaaaafaaaafaaaafaaaafaaaafaaaafaaaafaaaafaaaafaaaafaaaafaaaafaaaafaaaafaaaafaaaafaaaafaaaafaaaafaaaafaaaafaaaafaaaafaaaafaaaafaaaafaaaafaaaafaaaafaaaafaaaafaaaafaaaafaaaafaaaafaaaafaaaafaaaafaaaafaaaafaaaafaaaafaaaafaaaafaaaafaaaafaaaafaaaafaaaafaaaafaaaafaaaafaaaafaaaafaaaafaaaafaaaafaaaafaaaafaaaafaaaafaaaafaaaafaaaafaaaafaaaafaaaafaaaafaaaafaaaafaaaafaaaafaaaafaaaafaaaafaaaafaaaafaaaafaaaafaaaafaaaafaaaafaaaafaaaafaaaafaaaafaaaafaaaafaaaafaaaafaaaafaaaafaaaafaaaafaaaafaaaafaaaafaaaafaaaafaaaafaaaafaaaafaaaafaaaafaaaafaaaafaaaafaaaafaaaafaaaafaaaafaaaafaaaafaaaafaaaafaaaafaaaafaaaafaaaafaaaafaaaafaaaafaaaafaaaafaaaafaaaafaaaafaaaafaaaafaaaafaaaafaaaafaaaafaaaafaaaafaaaafaaaafaaaafaaaafaaaafaaaafaaaafaaaafaaaafaaaafaaaafaaaafaaaafaaaafaaaafaaaafaaaafaaaafaaaafaaaafaaaafaaaafaaaafaaaafaaaafaaaafaaaafaaaafaaaafaaaafaaaafaaaafaaaafaaaafaaaafaaaafaaaafaaaafaaaafaaaafaaaafaaaafaaaafaaaafaaaafaaaafaaaafaaaafaaaafaaaafaaaafaaaafaaaafaaaafaaaafaaaafaaaafaaaafaaaafaaaafaaaafaaaafaaaafaaaafaaaafaaaafaaaafaaaafaaaafaaaafaaaafaaaafaaaafaaaafaaaafaaaafaaaafaaaafaaaafaaaafaaaafaaaafaaaafaaaafaaaafaaaafaaaafaaaafaaaafaaaafaaaafaaaafaaaafaaaafaaaafaaaafaaaafaaaafaaaafaaaafaaaafaaaafaaaafaaaafaaaafaaaafaaaafaaaafaaaafaaaafaaaafaaaafaaaafaaaafaaaafaaaafaaaafaaaafaaaafaaaafaaaafaaaafaaaafaaaafaaaafaaaafaaaafaaaafaaaafaaaafaaaafaaaafaaaafaaaafaaaafaaaafaaaafaaaafaaaafaaaafaaaafaaaafaaaafaaaafaaaafaaaafaaaafaaaafaaaafaaaafaaaafaaaafaaaafaaaafaaaafaaaafaaaafaaaafaaaafaaaafaaaafaaaafaaaafaaaafaaaafaaaafaaaafaaaafaaaafaaaafaaaafaaaafaaaafaaaafaaaafaaaafaaaafaaaafaaaafaaaafaaaafaaaafaaaafaaaafaaaafaaaafaaaafaaaafaaaafaaaafaaaafaaaafaaaafaaaafaaaafaaaafaaaafaaaafaaaafaaaafaaaafaaaafaaaafaaaafaaaafaaaafaaaafaaaafaaaafaaaafaaaafaaaafaaaafaaaafaaaafaaaafaaaafaaaafaaaafaaaafaaaafaaaafaaaafaaaafaaaafaaaafaaaafaaaafaaaafaaaafaaaafaaaafaaaafaaaafaaaafaaaafaaaafaaaafaaaafaaaafaaaafaaaafaaaafaaaafaaaafaaaafaaaafaaaafaaaafaaaafaaaafaaaafaaaafaaaafaaaafaaaafaaaafaaaafaaaafaaaafaaaafaaaafaaaafaaaafaaaafaaaafaaaafaaaafaaaafaaaafaaaafaaaafaaaafaaaafaaaafaaaafaaaafaaaafaaaafaaaafaaaafaaaafaaaafaaaafaaaafaaaafaaaafaaaafaaaafaaaafaaaafaaaafaaaafaaaafaaaafaaaafaaaafaaaafaaaafaaaafaaaafaaaafaaaafaaaafaaaafaaaafaaaafaaaafaaaafaaaafaaaafaaaafaaaafaaaafaaaafaaaafaaaafaaaafaaaafaaaafaaaafaaaafaaaafaaaafaaaafaaaafaaaafaaaafaaaafaaaafaaaafaaaafaaaafaaaafaaaafaaaafaaaafaaaafaaaafaaaafaaaafaaaafaaaafaaaafaaaafaaaafaaaafaaaafaaaafaaaafaaaafaaaafaaaafaaaafaaaafaaaafaaaafaaaafaaaafaaaafaaaafaaaafaaaafaaaafaaaafaaaafaaaafaaaafaaaafaaaafaaaafaaaafaaaafaaaafaaaafaaaafaaaafaaaafaaaafaaaafaaaafaaaafaaaafaaaafaaaafaaaafaaaafaaaafaaaafaaaafaaaafaaaafaaaafaaaafaaaafaaaafaaaafaaaafaaaafaaaafaaaafaaaafaaaafaaaafaaaafaaaafaaaafaaaafaaaafaaaafaaaafaaaafaaaafaaaafaaaafaaaafaaaafaaaafaaaafaaaafaaaafaaaafaaaafaaaafaaaafaaaafaaaafaaaafaaaafaaaafaaaafaaaafaaaafaaaafaaaafaaaafaaaafaaaafaaaafaaaafaaaafaaaafaaaafaaaafaaaafaaaafaaaafaaaafaaaafaaaafaaaafaaaafaaaafaaaafaaaafaaaafaaaafaaaafaaaafaaaafaaaafaaaafaaaafaaaafaaaafaaaafaaaafaaaafaaaafaaaafaaaafaaaafaaaafaaaafaaaafaaaafaaaafaaaafaaaafaaaafaaaafaaaafaaaafaaaafaaaafaaaafaaaafaaaafaaaafaaaafaaaafaaaafaaaafaaaafaaaafaaaafaaaafaaaafaaaafaaaafaaaafaaaafaaaafaaaafaaaafaaaafaaaafaaaafaaaafaaaafaaaafaaaafaaaafaaaafaaaafaaaafaaaafaaaafaaaafaaaafaaaafaaaafaaaafaaaafaaaafaaaafaaaafaaaafaaaafaaaafaaaafaaaafaaaafaaaafaaaafaaaafaaaafaaaafaaaafaaaafaaaafaaaafaaaafaaaafaaaafaaaafaaaafaaaafaaaafaaaafaaaafaaaafaaaafaaaafaaaafaaaafaaaafaaaafaaaafaaaafaaaafaaaafaaaafaaaafaaaafaaaafaaaafaaaafaaaafaaaafaaaafaaaafaaaafaaaafaaaafaaaafaaaafaaaafaaaafaaaafaaaafaaaafaaaafaaaafaaaafaaaafaaaafaaaafaaaafaaaafaaaafaaaafaaaafaaaafaaaafaaaafaaaafaaaafaaaafaaaafaaaafaaaafaaaafaaaafaaaafaaaafaaaafaaaafaaaafaaaafaaaafaaaafaaaafaaaafaaaafaaaafaaaafaaaafaaaafaaaafaaaafaaaafaaaafaaaafaaaafaaaafaaaafaaaafaaaafaaaafaaaafaaaafaaaafaaaafaaaafaaaafaaaafaaaafaaaafaaaafaaaafaaaafaaaafaaaafaaaafaaaafaaaafaaaafaaaafaaaafaaaafaaaafaaaafaaaafaaaafaaaafaaaafaaaafaaaafaaaafaaaafaaaafaaaafaaaafaaaafaaaafaaaafaaaafaaaafaaaafaaaafaaaafaaaafaaaafaaaafaaaafaaaafaaaafaaaafaaaafaaaafaaaafaaaafaaaafaaaafaaaafaaaafaaaafaaaafaaaafaaaafaaaafaaaafaaaafaaaafaaaafaaaafaaaafaaaafaaaafaaaafaaaafaaaafaaaafaaaafaaaafaaaafaaaafaaaafaaaafaaaafaaaafaaaafaaaafaaaafaaaafaaaafaaaafaaaafaaaafaaaafaaaafaaaafaaaafaaaafaaaafaaaafaaaafaaaafaaaafaaaafaaaafaaaafaaaafaaaafaaaafaaaafaaaafaaaafaaaafaaaafaaaafaaaafaaaafaaaafaaaafaaaafaaaafaaaafaaaafaaaafaaaafaaaafaaaafaaaafaaaafaaaafaaaafaaaafaaaafaaaafaaaafaaaafaaaafaaaafaaaafaaaafaaaafaaaafaaaafaaaafaaaafaaaafaaaafaaaafaaaafaaaafaaaafaaaafaaaafaaaafaaaafaaaafaaaafaaaafaaaafaaaafaaaafaaaafaaaafaaaafaaaafaaaafaaaafaaaafaaaafaaaafaaaafaaaafaaaafaaaafaaaafaaaafaaaafaaaafaaaafaaaafaaaafaaaafaaaafaaaafaaaafaaaafaaaafaaaafaaaafaaaafaaaafaaaafaaaafaaaafaaaafaaaafaaaafaaaafaaaafaaaafaaaafaaaafaaaafaaaafaaaafaaaafaaaafaaaafaaaafaaaafaaaafaaaafaaaafaaaafaaaafaaaafaaaafaaaafaaaafaaaafaaaafaaaafaaaafaaaafaaaafaaaafaaaafaaaafaaaafaaaafaaaafaaaafaaaafaaaafaaaafaaaafaaaafaaaafaaaafaaaafaaaafaaaafaaaafaaaafaaaafaaaafaaaafaaaafaaaafaaaafaaaafaaaafaaaafaaaafaaaafaaaafaaaafaaaafaaaafaaaafaaaafaaaafaaaafaaaafaaaafaaaafaaaafaaaafaaaafaaaafaaaafaaaafaaaafaaaafaaaafaaaafaaaafaaaafaaaafaaaafaaaafaaaafaaaafaaaafaaaafaaaafaaaafaaaafaaaafaaaafaaaafaaaafaaaafaaaafaaaafaaaafaaaafaaaafaaaafaaaafaaaafaaaafaaaafaaaafaaaafaaaafaaaafaaaafaaaafaaaafaaaafaaaafaaaafaaaafaaaafaaaafaaaafaaaafaaaafaaaafaaaafaaaafaaaafaaaafaaaafaaaafaaaafaaaafaaaafaaaafaaaafaaaafaaaafaaaafaaaafaaaafaaaafaaaafaaaafaaaafaaaafaaaafaaaafaaaafaaaafaaaafaaaafaaaafaaaafaaaafaaaafaaaafaaaafaaaafaaaafaaaafaaaafaaaafaaaafaaaafaaaafaaaafaaaafaaaafaaaafaaaafaaaafaaaafaaaafaaaafaaaafaaaafaaaafaaaafaaaafaaaafaaaafaaaafaaaafaaaafaaaafaaaafaaaafaaaafaaaafaaaafaaaafaaaafaaaafaaaafaaaafaaaafaaaafaaaafaaaafaaaafaaaafaaaafaaaafaaaafaaaafaaaafaaaafaaaafaaaafaaaafaaaafaaaafaaaafaaaafaaaafaaaafaaaafaaaafaaaafaaaafaaaafaaaafaaaafaaaafaaaafaaaafaaaafaaaafaaaafaaaafaaaafaaaafaaaafaaaafaaaafaaaafaaaafaaaafaaaafaaaafaaaafaaaafaaaafaaaafaaaafaaaafaaaafaaaafaaaafaaaafaaaafaaaafaaaafaaaafaaaafaaaafaaaafaaaafaaaafaaaafaaaafaaaafaaaafaaaafaaaafaaaafaaaafaaaafaaaafaaaafaaaafaaaafaaaafaaaafaaaafaaaafaaaafaaaafaaaafaaaafaaaafaaaafaaaafaaaafaaaafaaaafaaaafaaaafaaaafaaaafaaaafaaaafaaaafaaaafaaaafaaaafaaaafaaaafaaaafaaaafaaaafaaaafaaaafaaaafaaaafaaaafaaaafaaaafaaaafaaaafaaaafaaaafaaaafaaaafaaaafaaaafaaaafaaaafaaaafaaaafaaaafaaaafaaaafaaaafaaaafaaaafaaaafaaaafaaaafaaaafaaaafaaaafaaaafaaaafaaaafaaaafaaaafaaaafaaaafaaaafaaaafaaaafaaaafaaaafaaaafaaaafaaaafaaaafaaaafaaaafaaaafaaaafaaaafaaaafaaaafaaaafaaaafaaaafaaaafaaaafaaaafaaaafaaaafaaaafaaaafaaaafaaaafaaaafaaaafaaaafaaaafaaaafaaaafaaaafaaaafaaaafaaaafaaaafaaaafaaaafaaaafaaaafaaaafaaaafaaaafaaaafaaaafaaaafaaaafaaaafaaaafaaaafaaaafaaaafaaaafaaaafaaaafaaaafaaaafaaaafaaaafaaaafaaaafaaaafaaaafaaaafaaaafaaaafaaaafaaaafaaaafaaaafaaaafaaaafaaaafaaaafaaaafaaaafaaaafaaaafaaaafaaaafaaaafaaaafaaaafaaaafaaaafaaaafaaaafaaaafaaaafaaaafaaaafaaaafaaaafaaaafaaaafaaaafaaaafaaaafaaaafaaaafaaaafaaaafaaaafaaaafaaaafaaaafaaaafaaaafaaaafaaaafaaaafaaaafaaaafaaaafaaaafaaaafaaaafaaaafaaaafaaaafaaaafaaaafaaaafaaaafaaaafaaaafaaaafaaaafaaaafaaaafaaaafaaaafaaaafaaaafaaaafaaaafaaaafaaaafaaaafaaaafaaaafaaaafaaaafaaaafaaaafaaaafaaaafaaaafaaaafaaaafaaaafaaaafaaaafaaaafaaaafaaaafaaaafaaaafaaaafaaaafaaaafaaaafaaaafaaaafaaaafaaaafaaaafaaaafaaaafaaaafaaaafaaaafaaaafaaaafaaaafaaaafaaaafaaaafaaaafaaaafaaaafaaaafaaaafaaaafaaaafaaaafaaaafaaaafaaaafaaaafaaaafaaaafaaaafaaaafaaaafaaaafaaaafaaaafaaaafaaaafaaaafaaaafaaaafaaaafaaaafaaaafaaaafaaaafaaaafaaaafaaaafaaaafaaaafaaaafaaaafaaaafaaaafaaaafaaaafaaaafaaaafaaaafaaaafaaaafaaaafaaaafaaaafaaaafaaaafaaaafaaaafaaaafaaaafaaaafaaaafaaaafaaaafaaaafaaaafaaaafaaaafaaaafaaaafaaaafaaaafaaaafaaaafaaaafaaaafaaaafaaaafaaaafaaaafaaaafaaaafaaaafaaaafaaaafaaaafaaaafaaaafaaaafaaaafaaaafaaaafaaaafaaaafaaaafaaaafaaaafaaaafaaaafaaaafaaaafaaaafaaaafaaaafaaaafaaaafaaaafaaaafaaaafaaaafaaaafaaaafaaaafaaaafaaaafaaaafaaaafaaaafaaaafaaaafaaaafaaaafaaaafaaaafaaaafaaaafaaaafaaaafaaaafaaaafaaaafaaaafaaaafaaaafaaaafaaaafaaaafaaaafaaaafaaaafaaaafaaaafaaaafaaaafaaaafaaaafaaaafaaaafaaaafaaaafaaaafaaaafaaaafaaaafaaaafaaaafaaaafaaaafaaaafaaaafaaaafaaaafaaaafaaaafaaaafaaaafaaaafaaaafaaaafaaaafaaaafaaaafaaaafaaaafaaaafaaaafaaaafaaaafaaaafaaaafaaaafaaaafaaaafaaaafaaaafaaaafaaaafaaaafaaaafaaaafaaaafaaaafaaaafaaaafaaaafaaaafaaaafaaaafaaaafaaaafaaaafaaaafaaaafaaaafaaaafaaaafaaaafaaaafaaaafaaaafaaaafaaaafaaaafaaaafaaaafaaaafaaaafaaaafaaaafaaaafaaaafaaaafaaaafaaaafaaaafaaaafaaaafaaaafaaaafaaaafaaaafaaaafaaaafaaaafaaaafaaaafaaaafaaaafaaaafaaaafaaaafaaaafaaaafaaaafaaaafaaaafaaaafaaaafaaaafaaaafaaaafaaaafaaaafaaaafaaaafaaaafaaaafaaaafaaaafaaaafaaaafaaaafaaaafaaaafaaaafaaaafaaaafaaaafaaaafaaaafaaaafaaaafaaaafaaaafaaaafaaaafaaaafaaaafaaaafaaaafaaaafaaaafaaaafaaaafaaaafaaaafaaaafaaaafaaaafaaaafaaaafaaaafaaaafaaaafaaaafaaaafaaaafaaaafaaaafaaaafaaaafaaaafaaaafaaaafaaaafaaaafaaaafaaaafaaaafaaaafaaaafaaaafaaaafaaaafaaaafaaaafaaaafaaaafaaaafaaaafaaaafaaaafaaaafaaaafaaaafaaaafaaaafaaaafaaaafaaaafaaaafaaaafaaaafaaaafaaaafaaaafaaaafaaaafaaaafaaaafaaaafaaaafaaaafaaaafaaaafaaaafaaaafaaaafaaaafaaaafaaaafaaaafaaaafaaaafaaaafaaaafaaaafaaaafaaaafaaaafaaaafaaaafaaaafaaaafaaaafaaaafaaaafaaaafaaaafaaaafaaaafaaaafaaaafaaaafaaaafaaaafaaaafaaaafaaaafaaaafaaaafaaaafaaaafaaaafaaaafaaaafaaaafaaaafaaaafaaaafaaaafaaaafaaaafaaaafaaaafaaaafaaaafaaaafaaaafaaaafaaaafaaaafaaaafaaaafaaaafaaaafaaaafaaaafaaaafaaaafaaaafaaaafaaaafaaaafaaaafaaaafaaaafaaaafaaaafaaaafaaaafaaaafaaaafaaaafaaaafaaaafaaaafaaaafaaaafaaaafaaaafaaaafaaaafaaaafaaaafaaaafaaaafaaaafaaaafaaaafaaaafaaaafaaaafaaaafaaaafaaaafaaaafaaaafaaaafaaaafaaaafaaaafaaaafaaaafaaaafaaaafaaaafaaaafaaaafaaaafaaaafaaaafaaaafaaaafaaaafaaaafaaaafaaaafaaaafaaaafaaaafaaaafaaaafaaaafaaaafaaaafaaaafaaaafaaaafaaaafaaaafaaaafaaaafaaaafaaaafaaaafaaaafaaaafaaaafaaaafaaaafaaaafaaaafaaaafaaaafaaaafaaaafaaaafaaaafaaaafaaaafaaaafaaaafaaaafaaaafaaaafaaaafaaaafaaaafaaaafaaaafaaaafaaaafaaaafaaaafaaaafaaaafaaaafaaaafaaaafaaaafaaaafaaaafaaaafaaaafaaaafaaaafaaaafaaaafaaaafaaaafaaaafaaaafaaaafaaaafaaaafaaaafaaaafaaaafaaaafaaaafaaaafaaaafaaaafaaaafaaaafaaaafaaaafaaaafaaaafaaaafaaaafaaaafaaaafaaaafaaaafaaaafaaaafaaaafaaaafaaaafaaaafaaaafaaaafaaaafaaaafaaaafaaaafaaaafaaaafaaaafaaaafaaaafaaaafaaaafaaaafaaaafaaaafaaaafaaaafaaaafaaaafaaaafaaaafaaaafaaaafaaaafaaaafaaaafaaaafaaaafaaaafaaaafaaaafaaaafaaaafaaaafaaaafaaaafaaaafaaaafaaaafaaaafaaaafaaaafaaaafaaaafaaaafaaaafaaaafaaaafaaaafaaaafaaaafaaaafaaaafaaaafaaaafaaaafaaaafaaaafaaaafaaaafaaaafaaaafaaaafaaaafaaaafaaaafaaaafaaaafaaaafaaaafaaaafaaaafaaaafaaaafaaaafaaaafaaaafaaaafaaaafaaaafaaaafaaaafaaaafaaaafaaaafaaaafaaaafaaaafaaaafaaaafaaaafaaaafaaaafaaaafaaaafaaaafaaaafaaaafaaaafaaaafaaaafaaaafaaaafaaaafaaaafaaaafaaaafaaaafaaaafaaaafaaaafaaaafaaaafaaaafaaaafaaaafaaaafaaaafaaaafaaaafaaaafaaaafaaaafaaaafaaaafaaaafaaaafaaaafaaaafaaaafaaaafaaaafaaaafaaaafaaaafaaaafaaaafaaaafaaaafaaaafaaaafaaaafaaaafaaaafaaaafaaaafaaaafaaaafaaaafaaaafaaaafaaaafaaaafaaaafaaaafaaaafaaaafaaaafaaaafaaaafaaaafaaaafaaaafaaaafaaaafaaaafaaaafaaaafaaaafaaaafaaaafaaaafaaaafaaaafaaaafaaaafaaaafaaaafaaaafaaaafaaaafaaaafaaaafaaaafaaaafaaaafaaaafaaaafaaaafaaaafaaaafaaaafaaaafaaaafaaaafaaaafaaaafaaaafaaaafaaaafaaaafaaaafaaaafaaaafaaaafaaaafaaaafaaaafaaaafaaaafaaaafaaaafaaaafaaaafaaaafaaaafaaaafaaaafaaaafaaaafaaaafaaaafaaaafaaaafaaaafaaaafaaaafaaaafaaaafaaaafaaaafaaaafaaaafaaaafaaaafaaaafaaaafaaaafaaaafaaaafaaaafaaaafaaaafaaaafaaaafaaaafaaaafaaaafaaaafaaaafaaaafaaaafaaaafaaaafaaaafaaaafaaaafaaaafaaaafaaaafaaaafaaaafaaaafaaaafaaaafaaaafaaaafaaaafaaaafaaaafaaaafaaaafaaaafaaaafaaaafaaaafaaaafaaaafaaaafaaaafaaaafaaaafaaaafaaaafaaaafaaaafaaaafaaaafaaaafaaaafaaaafaaaafaaaafaaaafaaaafaaaafaaaafaaaafaaaafaaaafaaaafaaaafaaaafaaaafaaaafaaaafaaaafaaaafaaaafaaaafaaaafaaaafaaaafaaaafaaaafaaaafaaaafaaaafaaaafaaaafaaaafaaaafaaaafaaaafaaaafaaaafaaaafaaaafaaaafaaaafaaaafaaaafaaaafaaaafaaaafaaaafaaaafaaaafaaaafaaaafaaaafaaaafaaaafaaaafaaaafaaaafaaaafaaaafaaaafaaaafaaaafaaaafaaaafaaaafaaaafaaaafaaaafaaaafaaaafaaaafaaaafaaaafaaaafaaaafaaaafaaaafaaaafaaaafaaaafaaaafaaaafaaaafaaaafaaaafaaaafaaaafaaaafaaaafaaaafaaaafaaaafaaaafaaaafaaaafaaaafaaaafaaaafaaaafaaaafaaaafaaaafaaaafaaaafaaaafaaaafaaaafaaaafaaaafaaaafaaaafaaaafaaaafaaaafaaaafaaaafaaaafaaaafaaaafaaaafaaaafaaaafaaaafaaaafaaaafaaaafaaaafaaaafaaaafaaaafaaaafaaaafaaaafaaaafaaaafaaaafaaaafaaaafaaaafaaaafaaaafaaaafaaaafaaaafaaaafaaaafaaaafaaaafaaaafaaaafaaaafaaaafaaaafaaaafaaaafaaaafaaaafaaaafaaaafaaaafaaaafaaaafaaaafaaaafaaaafaaaafaaaafaaaafaaaafaaaafaaaafaaaafaaaafaaaafaaaafaaaafaaaafaaaafaaaafaaaafaaaafaaaafaaaafaaaafaaaafaaaafaaaafaaaafaaaafaaaafaaaafaaaafaaaafaaaafaaaafaaaafaaaafaaaafaaaafaaaafaaaafaaaafaaaafaaaafaaaafaaaafaaaafaaaafaaaafaaaafaaaafaaaafaaaafaaaafaaaafaaaafaaaafaaaafaaaafaaaafaaaafaaaafaaaafaaaafaaaafaaaafaaaafaaaafaaaafaaaafaaaafaaaafaaaafaaaafaaaafaaaafaaaafaaaafaaaafaaaafaaaafaaaafaaaafaaaafaaaafaaaafaaaafaaaafaaaafaaaafaaaafaaaafaaaafaaaafaaaafaaaafaaaafaaaafaaaafaaaafaaaafaaaafaaaafaaaafaaaafaaaafaaaafaaaafaaaafaaaafaaaafaaaafaaaafaaaafaaaafaaaafaaaafaaaafaaaafaaaafaaaafaaaafaaaafaaaafaaaafaaaafaaaafaaaafaaaafaaaafaaaafaaaafaaaafaaaafaaaafaaaafaaaafaaaafaaaafaaaafaaaafaaaafaaaafaaaafaaaafaaaafaaaafaaaafaaaafaaaafaaaafaaaafaaaafaaaafaaaafaaaafaaaafaaaafaaaafaaaafaaaafaaaafaaaafaaaafaaaafaaaafaaaafaaaafaaaafaaaafaaaafaaaafaaaafaaaafaaaafaaaafaaaafaaaafaaaafaaaafaaaafaaaafaaaafaaaafaaaafaaaafaaaafaaaafaaaafaaaafaaaafaaaafaaaafaaaafaaaafaaaafaaaafaaaafaaaafaaaafaaaafaaaafaaaafaaaafaaaafaaaafaaaafaaaafaaaafaaaafaaaafaaaafaaaafaaaafaaaafaaaafaaaafaaaafaaaafaaaafaaaafaaaafaaaafaaaafaaaafaaaafaaaafaaaafaaaafaaaafaaaafaaaafaaaafaaaafaaaafaaaafaaaafaaaafaaaafaaaafaaaafaaaafaaaafaaaafaaaafaaaafaaaafaaaafaaaafaaaafaaaafaaaafaaaafaaaafaaaafaaaafaaaafaaaafaaaafaaaafaaaafaaaafaaaafaaaafaaaafaaaafaaaafaaaafaaaafaaaafaaaafaaaafaaaafaaaafaaaafaaaafaaaafaaaafaaaafaaaafaaaafaaaafaaaafaaaafaaaafaaaafaaaafaaaafaaaafaaaafaaaafaaaafaaaafaaaafaaaafaaaafaaaafaaaafaaaafaaaafaaaafaaaafaaaafaaaafaaaafaaaafaaaafaaaafaaaafaaaafaaaafaaaafaaaafaaaafaaaafaaaafaaaafaaaafaaaafaaaafaaaafaaaafaaaafaaaafaaaafaaaafaaaafaaaafaaaafaaaafaaaafaaaafaaaafaaaafaaaafaaaafaaaafaaaafaaaafaaaafaaaafaaaafaaaafaaaafaaaafaaaafaaaafaaaafaaaafaaaafaaaafaaaafaaaafaaaafaaaafaaaafaaaafaaaafaaaafaaaafaaaafaaaafaaaafaaaafaaaafaaaafaaaafaaaafaaaafaaaafaaaafaaaafaaaafaaaafaaaafaaaafaaaafaaaafaaaafaaaafaaaafaaaafaaaafaaaafaaaafaaaafaaaafaaaafaaaafaaaafaaaafaaaafaaaafaaaafaaaafaaaafaaaafaaaafaaaafaaaafaaaafaaaafaaaafaaaafaaaafaaaafaaaafaaaafaaaafaaaafaaaafaaaafaaaafaaaafaaaafaaaafaaaafaaaafaaaafaaaafaaaafaaaafaaaafaaaafaaaafaaaafaaaafaaaafaaaafaaaafaaaafaaaafaaaafaaaafaaaafaaaafaaaafaaaafaaaafaaaafaaaafaaaafaaaafaaaafaaaafaaaafaaaafaaaafaaaafaaaafaaaafaaaafaaaafaaaafaaaafaaaafaaaafaaaafaaaafaaaafaaaafaaaafaaaafaaaafaaaafaaaafaaaafaaaafaaaafaaaafaaaafaaaafaaaafaaaafaaaafaaaafaaaafaaaafaaaafaaaafaaaafaaaafaaaafaaaafaaaafaaaafaaaafaaaafaaaafaaaafaaaafaaaafaaaafaaaafaaaafaaaafaaaafaaaafaaaafaaaafaaaafaaaafaaaafaaaafaaaafaaaafaaaafaaaafaaaafaaaafaaaafaaaafaaaafaaaafaaaafaaaafaaaafaaaafaaaafaaaafaaaafaaaafaaaafaaaafaaaafaaaafaaaafaaaafaaaafaaaafaaaafaaaafaaaafaaaafaaaafaaaafaaaafaaaafaaaafaaaafaaaafaaaafaaaafaaaafaaaafaaaafaaaafaaaafaaaafaaaafaaaafaaaafaaaafaaaafaaaafaaaafaaaafaaaafaaaafaaaafaaaafaaaafaaaafaaaafaaaafaaaafaaaafaaaafaaaafaaaafaaaafaaaafaaaafaaaafaaaafaaaafaaaafaaaafaaaafaaaafaaaafaaaafaaaafaaaafaaaafaaaafaaaafaaaafaaaafaaaafaaaafaaaafaaaafaaaafaaaafaaaafaaaafaaaafaaaafaaaafaaaafaaaafaaaafaaaafaaaafaaaafaaaafaaaafaaaafaaaafaaaafaaaafaaaafaaaafaaaafaaaafaaaafaaaafaaaafaaaafaaaafaaaafaaaafaaaafaaaafaaaafaaaafaaaafaaaafaaaafaaaafaaaafaaaafaaaafaaaafaaaafaaaafaaaafaaaafaaaafaaaafaaaafaaaafaaaafaaaafaaaafaaaafaaaafaaaafaaaafaaaafaaaafaaaafaaaafaaaafaaaafaaaafaaaafaaaafaaaafaaaafaaaafaaaafaaaafaaaafaaaafaaaafaaaafaaaafaaaafaaaafaaaafaaaafaaaafaaaafaaaafaaaafaaaafaaaafaaaafaaaafaaaafaaaafaaaafaaaafaaaafaaaafaaaafaaaafaaaafaaaafaaaafaaaafaaaafaaaafaaaafaaaafaaaafaaaafaaaafaaaafaaaafaaaafaaaafaaaafaaaafaaaafaaaafaaaafaaaafaaaafaaaafaaaafaaaafaaaafaaaafaaaafaaaafaaaafaaaafaaaafaaaafaaaafaaaafaaaafaaaafaaaafaaaafaaaafaaaafaaaafaaaafaaaafaaaafaaaafaaaafaaaafaaaafaaaafaaaafaaaafaaaafaaaafaaaafaaaafaaaafaaaafaaaafaaaafaaaafaaaafaaaafaaaafaaaafaaaafaaaafaaaafaaaafaaaafaaaafaaaafaaaafaaaafaaaafaaaafaaaafaaaafaaaafaaaafaaaafaaaafaaaafaaaafaaaafaaaafaaaafaaaafaaaafaaaafaaaafaaaafaaaafaaaafaaaafaaaafaaaafaaaafaaaafaaaafaaaafaaaafaaaafaaaafaaaafaaaafaaaafaaaafaaaafaaaafaaaafaaaafaaaafaaaafaaaafaaaafaaaafaaaafaaaafaaaafaaaafaaaafaaaafaaaafaaaafaaaafaaaafaaaafaaaafaaaafaaaafaaaafaaaafaaaafaaaafaaaafaaaafaaaafaaaafaaaafaaaafaaaafaaaafaaaafaaaafaaaafaaaafaaaafaaaafaaaafaaaafaaaafaaaafaaaafaaaafaaaafaaaafaaaafaaaafaaaafaaaafaaaafaaaafaaaafaaaafaaaafaaaafaaaafaaaafaaaafaaaafaaaafaaaafaaaafaaaafaaaafaaaafaaaafaaaafaaaafaaaafaaaafaaaafaaaafaaaafaaaafaaaafaaaafaaaafaaaafaaaafaaaafaaaafaaaafaaaafaaaafaaaafaaaafaaaafaaaafaaaafaaaafaaaafaaaafaaaafaaaafaaaafaaaafaaaafaaaafaaaafaaaafaaaafaaaafaaaafaaaafaaaafaaaafaaaafaaaafaaaafaaaafaaaafaaaafaaaafaaaafaaaafaaaafaaaafaaaafaaaafaaaafaaaafaaaafaaaafaaaafaaaafaaaafaaaafaaaafaaaafaaaafaaaafaaaafaaaafaaaafaaaafaaaafaaaafaaaafaaaafaaaafaaaafaaaafaaaafaaaafaaaafaaaafaaaafaaaafaaaafaaaafaaaafaaaafaaaafaaaafaaaafaaaafaaaafaaaafaaaafaaaafaaaafaaaafaaaafaaaafaaaafaaaafaaaafaaaafaaaafaaaafaaaafaaaafaaaafaaaafaaaafaaaafaaaafaaaafaaaafaaaafaaaafaaaafaaaafaaaafaaaafaaaafaaaafaaaafaaaafaaaafaaaafaaaafaaaafaaaafaaaafaaaafaaaafaaaafaaaafaaaafaaaafaaaafaaaafaaaafaaaafaaaafaaaafaaaafaaaafaaaafaaaafaaaafaaaafaaaafaaaafaaaafaaaafaaaafaaaafaaaafaaaafaaaafaaaafaaaafaaaafaaaafaaaafaaaafaaaafaaaafaaaafaaaafaaaafaaaafaaaafaaaafaaaafaaaafaaaafaaaafaaaafaaaafaaaafaaaafaaaafaaaafaaaafaaaafaaaafaaaafaaaafaaaafaaaafaaaafaaaafaaaafaaaafaaaafaaaafaaaafaaaafaaaafaaaafaaaafaaaafaaaafaaaafaaaafaaaafaaaafaaaafaaaafaaaafaaaafaaaafaaaafaaaafaaaafaaaafaaaafaaaafaaaafaaaafaaaafaaaafaaaafaaaafaaaafaaaafaaaafaaaafaaaafaaaafaaaafaaaafaaaafaaaafaaaafaaaafaaaafaaaafaaaafaaaafaaaafaaaafaaaafaaaafaaaafaaaafaaaafaaaafaaaafaaaafaaaafaaaafaaaafaaaafaaaafaaaafaaaafaaaafaaaafaaaafaaaafaaaafaaaafaaaafaaaafaaaafaaaafaaaafaaaafaaaafaaaafaaaafaaaafaaaafaaaafaaaafaaaafaaaafaaaafaaaafaaaafaaaafaaaafaaaafaaaafaaaafaaaafaaaafaaaafaaaafaaaafaaaafaaaafaaaafaaaafaaaafaaaafaaaafaaaafaaaafaaaafaaaafaaaafaaaafaaaafaaaafaaaafaaaafaaaafaaaafaaaafaaaafaaaafaaaafaaaafaaaafaaaafaaaafaaaafaaaafaaaafaaaafaaaafaaaafaaaafaaaafaaaafaaaafaaaafaaaafaaaafaaaafaaaafaaaafaaaafaaaafaaaafaaaafaaaafaaaafaaaafaaaafaaaafaaaafaaaafaaaafaaaafaaaafaaaafaaaafaaaafaaaafaaaafaaaafaaaafaaaafaaaafaaaafaaaafaaaafaaaafaaaafaaaafaaaafaaaafaaaafaaaafaaaafaaaafaaaafaaaafaaaafaaaafaaaafaaaafaaaafaaaafaaaafaaaafaaaafaaaafaaaafaaaafaaaafaaaafaaaafaaaafaaaafaaaafaaaafaaaafaaaafaaaafaaaafaaaafaaaafaaaafaaaafaaaafaaaafaaaafaaaafaaaafaaaafaaaafaaaafaaaafaaaafaaaafaaaafaaaafaaaafaaaafaaaafaaaafaaaafaaaafaaaafaaaafaaaafaaaafaaaafaaaafaaaafaaaafaaaafaaaafaaaafaaaafaaaafaaaafaaaafaaaafaaaafaaaafaaaafaaaafaaaafaaaafaaaafaaaafaaaafaaaafaaaafaaaafaaaafaaaafaaaafaaaafaaaafaaaafaaaafaaaafaaaafaaaafaaaafaaaafaaaafaaaafaaaafaaaafaaaafaaaafaaaafaaaafaaaafaaaafaaaafaaaafaaaafaaaafaaaafaaaafaaaafaaaafaaaafaaaafaaaafaaaafaaaafaaaafaaaafaaaafaaaafaaaafaaaafaaaafaaaafaaaafaaaafaaaafaaaafaaaafaaaafaaaafaaaafaaaafaaaafaaaafaaaafaaaafaaaafaaaafaaaafaaaafaaaafaaaafaaaafaaaafaaaafaaaafaaaafaaaafaaaafaaaafaaaafaaaafaaaafaaaafaaaafaaaafaaaafaaaafaaaafaaaafaaaafaaaafaaaafaaaafaaaafaaaafaaaafaaaafaaaafaaaafaaaafaaaafaaaafaaaafaaaafaaaafaaaafaaaafaaaafaaaafaaaafaaaafaaaafaaaafaaaafaaaafaaaafaaaafaaaafaaaafaaaafaaaafaaaafaaaafaaaafaaaafaaaafaaaafaaaafaaaafaaaafaaaafaaaafaaaafaaaafaaaafaaaafaaaafaaaafaaaafaaaafaaaafaaaafaaaafaaaafaaaafaaaafaaaafaaaafaaaafaaaafaaaafaaaafaaaafaaaafaaaafaaaafaaaafaaaafaaaafaaaafaaaafaaaafaaaafaaaafaaaafaaaafaaaafaaaafaaaafaaaafaaaafaaaafaaaafaaaafaaaafaaaafaaaafaaaafaaaafaaaafaaaafaaaafaaaafaaaafaaaafaaaafaaaafaaaafaaaafaaaafaaaafaaaafaaaafaaaafaaaafaaaafaaaafaaaafaaaafaaaafaaaafaaaafaaaafaaaafaaaafaaaafaaaafaaaafaaaafaaaafaaaafaaaafaaaafaaaafaaaafaaaafaaaafaaaafaaaafaaaafaaaafaaaafaaaafaaaafaaaafaaaafaaaafaaaafaaaafaaaafaaaafaaaafaaaafaaaafaaaafaaaafaaaafaaaafaaaafaaaafaaaafaaaafaaaafaaaafaaaafaaaafaaaafaaaafaaaafaaaafaaaafaaaafaaaafaaaafaaaafaaaafaaaafaaaafaaaafaaaafaaaafaaaafaaaafaaaafaaaafaaaafaaaafaaaafaaaafaaaafaaaafaaaafaaaafaaaafaaaafaaaafaaaafaaaafaaaafaaaafaaaafaaaafaaaafaaaafaaaafaaaafaaaafaaaafaaaafaaaafaaaafaaaafaaaafaaaafaaaafaaaafaaaafaaaafaaaafaaaafaaaafaaaafaaaafaaaafaaaafaaaafaaaafaaaafaaaafaaaafaaaafaaaafaaaafaaaafaaaafaaaafaaaafaaaafaaaafaaaafaaaafaaaafaaaafaaaafaaaafaaaafaaaafaaaafaaaafaaaafaaaafaaaafaaaafaaaafaaaafaaaafaaaafaaaafaaaafaaaafaaaafaaaafaaaafaaaafaaaafaaaafaaaafaaaafaaaafaaaafaaaafaaaafaaaafaaaafaaaafaaaafaaaafaaaafaaaafaaaafaaaafaaaafaaaafaaaafaaaafaaaafaaaafaaaafaaaafaaaafaaaafaaaafaaaafaaaafaaaafaaaafaaaafaaaafaaaafaaaafaaaafaaaafaaaafaaaafaaaafaaaafaaaafaaaafaaaafaaaafaaaafaaaafaaaafaaaafaaaafaaaafaaaafaaaafaaaafaaaafaaaafaaaafaaaafaaaafaaaafaaaafaaaafaaaafaaaafaaaafaaaafaaaafaaaafaaaafaaaafaaaafaaaafaaaafaaaafaaaafaaaafaaaafaaaafaaaafaaaafaaaafaaaafaaaafaaaafaaaafaaaafaaaafaaaafaaaafaaaafaaaafaaaafaaaafaaaafaaaafaaaafaaaafaaaafaaaafaaaafaaaafaaaafaaaafaaaafaaaafaaaafaaaafaaaafaaaafaaaafaaaafaaaafaaaafaaaafaaaafaaaafaaaafaaaafaaaafaaaafaaaafaaaafaaaafaaaafaaaafaaaafaaaafaaaafaaaafaaaafaaaafaaaafaaaafaaaafaaaafaaaafaaaafaaaafaaaafaaaafaaaafaaaafaaaafaaaafaaaafaaaafaaaafaaaafaaaafaaaafaaaafaaaafaaaafaaaafaaaafaaaafaaaafaaaafaaaafaaaafaaaafaaaafaaaafaaaafaaaafaaaafaaaafaaaafaaaafaaaafaaaafaaaafaaaafaaaafaaaafaaaafaaaafaaaafaaaafaaaafaaaafaaaafaaaafaaaafaaaafaaaafaaaafaaaafaaaafaaaafaaaafaaaafaaaafaaaafaaaafaaaafaaaafaaaafaaaafaaaafaaaafaaaafaaaafaaaafaaaafaaaafaaaafaaaafaaaafaaaafaaaafaaaafaaaafaaaafaaaafaaaafaaaafaaaafaaaafaaaafaaaafaaaafaaaafaaaafaaaafaaaafaaaafaaaafaaaafaaaafaaaafaaaafaaaafaaaafaaaafaaaafaaaafaaaafaaaafaaaafaaaafaaaafaaaafaaaafaaaafaaaafaaaafaaaafaaaafaaaafaaaafaaaafaaaafaaaafaaaafaaaafaaaafaaaafaaaafaaaafaaaafaaaafaaaafaaaafaaaafaaaafaaaafaaaafaaaafaaaafaaaafaaaafaaaafaaaafaaaafaaaafaaaafaaaafaaaafaaaafaaaafaaaafaaaafaaaafaaaafaaaafaaaafaaaafaaaafaaaafaaaafaaaafaaaafaaaafaaaafaaaafaaaafaaaafaaaafaaaafaaaafaaaafaaaafaaaafaaaafaaaafaaaafaaaafaaaafaaaafaaaafaaaafaaaafaaaafaaaafaaaafaaaafaaaafaaaafaaaafaaaafaaaafaaaafaaaafaaaafaaaafaaaafaaaafaaaafaaaafaaaafaaaafaaaafaaaafaaaafaaaafaaaafaaaafaaaafaaaafaaaafaaaafaaaafaaaafaaaafaaaafaaaafaaaafaaaafaaaafaaaafaaaafaaaafaaaafaaaafaaaafaaaafaaaafaaaafaaaafaaaafaaaafaaaafaaaafaaaafaaaafaaaafaaaafaaaafaaaafaaaafaaaafaaaafaaaafaaaafaaaafaaaafaaaafaaaafaaaafaaaafaaaafaaaafaaaafaaaafaaaafaaaafaaaafaaaafaaaafaaaafaaaafaaaafaaaafaaaafaaaafaaaafaaaafaaaafaaaafaaaafaaaafaaaafaaaafaaaafaaaafaaaafaaaafaaaafaaaafaaaafaaaafaaaafaaaafaaaafaaaafaaaafaaaafaaaafaaaafaaaafaaaafaaaafaaaafaaaafaaaafaaaafaaaafaaaafaaaafaaaafaaaafaaaafaaaafaaaafaaaafaaaafaaaafaaaafaaaafaaaafaaaafaaaafaaaafaaaafaaaafaaaafaaaafaaaafaaaafaaaafaaaafaaaafaaaafaaaafaaaafaaaafaaaafaaaafaaaafaaaafaaaafaaaafaaaafaaaafaaaafaaaafaaaafaaaafaaaafaaaafaaaafaaaafaaaafaaaafaaaafaaaafaaaafaaaafaaaafaaaafaaaafaaaafaaaafaaaafaaaafaaaafaaaafaaaafaaaafaaaafaaaafaaaafaaaafaaaafaaaafaaaafaaaafaaaafaaaafaaaafaaaafaaaafaaaafaaaafaaaafaaaafaaaafaaaafaaaafaaaafaaaafaaaafaaaafaaaafaaaafaaaafaaaafaaaafaaaafaaaafaaaafaaaafaaaafaaaafaaaafaaaafaaaafaaaafaaaafaaaafaaaafaaaafaaaafaaaafaaaafaaaafaaaafaaaafaaaafaaaafaaaafaaaafaaaafaaaafaaaafaaaafaaaafaaaafaaaafaaaafaaaafaaaafaaaafaaaafaaaafaaaafaaaafaaaafaaaafaaaafaaaafaaaafaaaafaaaafaaaafaaaafaaaafaaaafaaaafaaaafaaaafaaaafaaaafaaaafaaaafaaaafaaaafaaaafaaaafaaaafaaaafaaaafaaaafaaaafaaaafaaaafaaaafaaaafaaaafaaaafaaaafaaaafaaaafaaaafaaaafaaaafaaaafaaaafaaaafaaaafaaaafaaaafaaaafaaaafaaaafaaaafaaaafaaaafaaaafaaaafaaaafaaaafaaaafaaaafaaaafaaaafaaaafaaaafaaaafaaaafaaaafaaaafaaaafaaaafaaaafaaaafaaaafaaaafaaaafaaaafaaaafaaaafaaaafaaaafaaaafaaaafaaaafaaaafaaaafaaaafaaaafaaaafaaaafaaaafaaaafaaaafaaaafaaaafaaaafaaaafaaaafaaaafaaaafaaaafaaaafaaaafaaaafaaaafaaaafaaaafaaaafaaaafaaaafaaaafaaaafaaaafaaaafaaaafaaaafaaaafaaaafaaaafaaaafaaaafaaaafaaaafaaaafaaaafaaaafaaaafaaaafaaaafaaaafaaaafaaaafaaaafaaaafaaaafaaaafaaaafaaaafaaaafaaaafaaaafaaaafaaaafaaaafaaaafaaaafaaaafaaaafaaaafaaaafaaaafaaaafaaaafaaaafaaaafaaaafaaaafaaaafaaaafaaaafaaaafaaaafaaaafaaaafaaaafaaaafaaaafaaaafaaaafaaaafaaaafaaaafaaaafaaaafaaaafaaaafaaaafaaaafaaaafaaaafaaaafaaaafaaaafaaaafaaaafaaaafaaaafaaaafaaaafaaaafaaaafaaaafaaaafaaaafaaaafaaaafaaaafaaaafaaaafaaaafaaaafaaaafaaaafaaaafaaaafaaaafaaaafaaaafaaaafaaaafaaaafaaaafaaaafaaaafaaaafaaaafaaaafaaaafaaaafaaaafaaaafaaaafaaaafaaaafaaaafaaaafaaaafaaaafaaaafaaaafaaaafaaaafaaaafaaaafaaaafaaaafaaaafaaaafaaaafaaaafaaaafaaaafaaaafaaaafaaaafaaaafaaaafaaaafaaaafaaaafaaaafaaaafaaaafaaaafaaaafaaaafaaaafaaaafaaaafaaaafaaaafaaaafaaaafaaaafaaaafaaaafaaaafaaaafaaaafaaaafaaaafaaaafaaaafaaaafaaaafaaaafaaaafaaaafaaaafaaaafaaaafaaaafaaaafaaaafaaaafaaaafaaaafaaaafaaaafaaaafaaaafaaaafaaaafaaaafaaaafaaaafaaaafaaaafaaaafaaaafaaaafaaaafaaaafaaaafaaaafaaaafaaaafaaaafaaaafaaaafaaaafaaaafaaaafaaaafaaaafaaaafaaaafaaaafaaaafaaaafaaaafaaaafaaaafaaaafaaaafaaaafaaaafaaaafaaaafaaaafaaaafaaaafaaaafaaaafaaaafaaaafaaaafaaaafaaaafaaaafaaaafaaaafaaaafaaaafaaaafaaaafaaaafaaaafaaaafaaaafaaaafaaaafaaaafaaaafaaaafaaaafaaaafaaaafaaaafaaaafaaaafaaaafaaaafaaaafaaaafaaaafaaaafaaaafaaaafaaaafaaaafaaaafaaaafaaaafaaaafaaaafaaaafaaaafaaaafaaaafaaaafaaaafaaaafaaaafaaaafaaaafaaaafaaaafaaaafaaaafaaaafaaaafaaaafaaaafaaaafaaaafaaaafaaaafaaaafaaaafaaaafaaaafaaaafaaaafaaaafaaaafaaaafaaaafaaaafaaaafaaaafaaaafaaaafaaaafaaaafaaaafaaaafaaaafaaaafaaaafaaaafaaaafaaaafaaaafaaaafaaaafaaaafaaaafaaaafaaaafaaaafaaaafaaaafaaaafaaaafaaaafaaaafaaaafaaaafaaaafaaaafaaaafaaaafaaaafaaaafaaaafaaaafaaaafaaaafaaaafaaaafaaaafaaaafaaaafaaaafaaaafaaaafaaaafaaaafaaaafaaaafaaaafaaaafaaaafaaaafaaaafaaaafaaaafaaaafaaaafaaaafaaaafaaaafaaaafaaaafaaaafaaaafaaaafaaaafaaaafaaaafaaaafaaaafaaaafaaaafaaaafaaaafaaaafaaaafaaaafaaaafaaaafaaaafaaaafaaaafaaaafaaaafaaaafaaaafaaaafaaaafaaaafaaaafaaaafaaaafaaaafaaaafaaaafaaaafaaaafaaaafaaaafaaaafaaaafaaaafaaaafaaaafaaaafaaaafaaaafaaaafaaaafaaaafaaaafaaaafaaaafaaaafaaaafaaaafaaaafaaaafaaaafaaaafaaaafaaaafaaaafaaaafaaaafaaaafaaaafaaaafaaaafaaaafaaaafaaaafaaaafaaaafaaaafaaaafaaaafaaaafaaaafaaaafaaaafaaaafaaaafaaaafaaaafaaaafaaaafaaaafaaaafaaaafaaaafaaaafaaaafaaaafaaaafaaaafaaaafaaaafaaaafaaaafaaaafaaaafaaaafaaaafaaaafaaaafaaaafaaaafaaaafaaaafaaaafaaaafaaaafaaaafaaaafaaaafaaaafaaaafaaaafaaaafaaaafaaaafaaaafaaaafaaaafaaaafaaaafaaaafaaaafaaaafaaaafaaaafaaaafaaaafaaaafaaaafaaaafaaaafaaaafaaaafaaaafaaaafaaaafaaaafaaaafaaaafaaaafaaaafaaaafaaaafaaaafaaaafaaaafaaaafaaaafaaaafaaaafaaaafaaaafaaaafaaaafaaaafaaaafaaaafaaaafaaaafaaaafaaaafaaaafaaaafaaaafaaaafaaaafaaaafaaaafaaaafaaaafaaaafaaaafaaaafaaaafaaaafaaaafaaaafaaaafaaaafaaaafaaaafaaaafaaaafaaaafaaaafaaaafaaaafaaaafaaaafaaaafaaaafaaaafaaaafaaaafaaaafaaaafaaaafaaaafaaaafaaaafaaaafaaaafaaaafaaaafaaaafaaaafaaaafaaaafaaaafaaaafaaaafaaaafaaaafaaaafaaaafaaaafaaaafaaaafaaaafaaaafaaaafaaaafaaaafaaaafaaaafaaaafaaaafaaaafaaaafaaaafaaaafaaaafaaaafaaaafaaaafaaaafaaaafaaaafaaaafaaaafaaaafaaaafaaaafaaaafaaaafaaaafaaaafaaaafaaaafaaaafaaaafaaaafaaaafaaaafaaaafaaaafaaaafaaaafaaaafaaaafaaaafaaaafaaaafaaaafaaaafaaaafaaaafaaaafaaaafaaaafaaaafaaaafaaaafaaaafaaaafaaaafaaaafaaaafaaaafaaaafaaaafaaaafaaaafaaaafaaaafaaaafaaaafaaaafaaaafaaaafaaaafaaaafaaaafaaaafaaaafaaaafaaaafaaaafaaaafaaaafaaaafaaaafaaaafaaaafaaaafaaaafaaaafaaaafaaaafaaaafaaaafaaaafaaaafaaaafaaaafaaaafaaaafaaaafaaaafaaaafaaaafaaaafaaaafaaaafaaaafaaaafaaaafaaaafaaaafaaaafaaaafaaaafaaaafaaaafaaaafaaaafaaaafaaaafaaaafaaaafaaaafaaaafaaaafaaaafaaaafaaaafaaaafaaaafaaaafaaaafaaaafaaaafaaaafaaaafaaaafaaaafaaaafaaaafaaaafaaaafaaaafaaaafaaaafaaaafaaaafaaaafaaaafaaaafaaaafaaaafaaaafaaaafaaaafaaaafaaaafaaaafaaaafaaaafaaaafaaaafaaaafaaaafaaaafaaaafaaaafaaaafaaaafaaaafaaaafaaaafaaaafaaaafaaaafaaaafaaaafaaaafaaaafaaaafaaaafaaaafaaaafaaaafaaaafaaaafaaaafaaaafaaaafaaaafaaaafaaaafaaaafaaaafaaaafaaaafaaaafaaaafaaaafaaaafaaaafaaaafaaaafaaaafaaaafaaaafaaaafaaaafaaaafaaaafaaaafaaaafaaaafaaaafaaaafaaaafaaaafaaaafaaaafaaaafaaaafaaaafaaaafaaaafaaaafaaaafaaaafaaaafaaaafaaaafaaaafaaaafaaaafaaaafaaaafaaaafaaaafaaaafaaaafaaaafaaaafaaaafaaaafaaaafaaaafaaaafaaaafaaaafaaaafaaaafaaaafaaaafaaaafaaaafaaaafaaaafaaaafaaaafaaaafaaaafaaaafaaaafaaaafaaaafaaaafaaaafaaaafaaaafaaaafaaaafaaaafaaaafaaaafaaaafaaaafaaaafaaaafaaaafaaaafaaaafaaaafaaaafaaaafaaaafaaaafaaaafaaaafaaaafaaaafaaaafaaaafaaaafaaaafaaaafaaaafaaaafaaaafaaaafaaaafaaaafaaaafaaaafaaaafaaaafaaaafaaaafaaaafaaaafaaaafaaaafaaaafaaaafaaaafaaaafaaaafaaaafaaaafaaaafaaaafaaaafaaaafaaaafaaaafaaaafaaaafaaaafaaaafaaaafaaaafaaaafaaaafaaaafaaaafaaaafaaaafaaaafaaaafaaaafaaaafaaaafaaaafaaaafaaaafaaaafaaaafaaaafaaaafaaaafaaaafaaaafaaaafaaaafaaaafaaaafaaaafaaaafaaaafaaaafaaaafaaaafaaaafaaaafaaaafaaaafaaaafaaaafaaaafaaaafaaaafaaaafaaaafaaaafaaaafaaaafaaaafaaaafaaaafaaaafaaaafaaaafaaaafaaaafaaaafaaaafaaaafaaaafaaaafaaaafaaaafaaaafaaaafaaaafaaaafaaaafaaaafaaaafaaaafaaaafaaaafaaaafaaaafaaaafaaaafaaaafaaaafaaaafaaaafaaaafaaaafaaaafaaaafaaaafaaaafaaaafaaaafaaaafaaaafaaaafaaaafaaaafaaaafaaaafaaaafaaaafaaaafaaaafaaaafaaaafaaaafaaaafaaaafaaaafaaaafaaaafaaaafaaaafaaaafaaaafaaaafaaaafaaaafaaaafaaaafaaaafaaaafaaaafaaaafaaaafaaaafaaaafaaaafaaaafaaaafaaaafaaaafaaaafaaaafaaaafaaaafaaaafaaaafaaaafaaaafaaaafaaaafaaaafaaaafaaaafaaaafaaaafaaaafaaaafaaaafaaaafaaaafaaaafaaaafaaaafaaaafaaaafaaaafaaaafaaaafaaaafaaaafaaaafaaaafaaaafaaaafaaaafaaaafaaaafaaaafaaaafaaaafaaaafaaaafaaaafaaaafaaaafaaaafaaaafaaaafaaaafaaaafaaaafaaaafaaaafaaaafaaaafaaaafaaaafaaaafaaaafaaaafaaaafaaaafaaaafaaaafaaaafaaaafaaaafaaaafaaaafaaaafaaaafaaaafaaaafaaaafaaaafaaaafaaaafaaaafaaaafaaaafaaaafaaaafaaaafaaaafaaaafaaaafaaaafaaaafaaaafaaaafaaaafaaaafaaaafaaaafaaaafaaaafaaaafaaaafaaaafaaaafaaaafaaaafaaaafaaaafaaaafaaaafaaaafaaaafaaaafaaaafaaaafaaaafaaaafaaaafaaaafaaaafaaaafaaaafaaaafaaaafaaaafaaaafaaaafaaaafaaaafaaaafaaaafaaaafaaaafaaaafaaaafaaaafaaaafaaaafaaaafaaaafaaaafaaaafaaaafaaaafaaaafaaaafaaaafaaaafaaaafaaaafaaaafaaaafaaaafaaaafaaaafaaaafaaaafaaaafaaaafaaaafaaaafaaaafaaaafaaaafaaaafaaaafaaaafaaaafaaaafaaaafaaaafaaaafaaaafaaaafaaaafaaaafaaaafaaaafaaaafaaaafaaaafaaaafaaaafaaaafaaaafaaaafaaaafaaaafaaaafaaaafaaaafaaaafaaaafaaaafaaaafaaaafaaaafaaaafaaaafaaaafaaaafaaaafaaaafaaaafaaaafaaaafaaaafaaaafaaaafaaaafaaaafaaaafaaaafaaaafaaaafaaaafaaaafaaaafaaaafaaaafaaaafaaaafaaaafaaaafaaaafaaaafaaaafaaaafaaaafaaaafaaaafaaaafaaaafaaaafaaaafaaaafaaaafaaaafaaaafaaaafaaaafaaaafaaaafaaaafaaaafaaaafaaaafaaaafaaaafaaaafaaaafaaaafaaaafaaaafaaaafaaaafaaaafaaaafaaaafaaaafaaaafaaaafaaaafaaaafaaaafaaaafaaaafaaaafaaaafaaaafaaaafaaaafaaaafaaaafaaaafaaaafaaaafaaaafaaaafaaaafaaaafaaaafaaaafaaaafaaaafaaaafaaaafaaaafaaaafaaaafaaaafaaaafaaaafaaaafaaaafaaaafaaaafaaaafaaaafaaaafaaaafaaaafaaaafaaaafaaaafaaaafaaaafaaaafaaaafaaaafaaaafaaaafaaaafaaaafaaaafaaaafaaaafaaaafaaaafaaaafaaaafaaaafaaaafaaaafaaaafaaaafaaaafaaaafaaaafaaaafaaaafaaaafaaaafaaaafaaaafaaaafaaaafaaaafaaaafaaaafaaaafaaaafaaaafaaaafaaaafaaaafaaaafaaaafaaaafaaaafaaaafaaaafaaaafaaaafaaaafaaaafaaaafaaaafaaaafaaaafaaaafaaaafaaaafaaaafaaaafaaaafaaaafaaaafaaaafaaaafaaaafaaaafaaaafaaaafaaaafaaaafaaaafaaaafaaaafaaaafaaaafaaaafaaaafaaaafaaaafaaaafaaaafaaaafaaaafaaaafaaaafaaaafaaaafaaaafaaaafaaaafaaaafaaaafaaaafaaaafaaaafaaaafaaaafaaaafaaaafaaaafaaaafaaaafaaaafaaaafaaaafaaaafaaaafaaaafaaaafaaaafaaaafaaaafaaaafaaaafaaaafaaaafaaaafaaaafaaaafaaaafaaaafaaaafaaaafaaaafaaaafaaaafaaaafaaaafaaaafaaaafaaaafaaaafaaaafaaaafaaaafaaaafaaaafaaaafaaaafaaaafaaaafaaaafaaaafaaaafaaaafaaaafaaaafaaaafaaaafaaaafaaaafaaaafaaaafaaaafaaaafaaaafaaaafaaaafaaaafaaaafaaaafaaaafaaaafaaaafaaaafaaaafaaaafaaaafaaaafaaaafaaaafaaaafaaaafaaaafaaaafaaaafaaaafaaaafaaaafaaaafaaaafaaaafaaaafaaaafaaaafaaaafaaaafaaaafaaaafaaaafaaaafaaaafaaaafaaaafaaaafaaaafaaaafaaaafaaaafaaaafaaaafaaaafaaaafaaaafaaaafaaaafaaaafaaaafaaaafaaaafaaaafaaaafaaaafaaaafaaaafaaaafaaaafaaaafaaaafaaaafaaaafaaaafaaaafaaaafaaaafaaaafaaaafaaaafaaaafaaaafaaaafaaaafaaaafaaaafaaaafaaaafaaaafaaaafaaaafaaaafaaaafaaaafaaaafaaaafaaaafaaaafaaaafaaaafaaaafaaaafaaaafaaaafaaaafaaaafaaaafaaaafaaaafaaaafaaaafaaaafaaaafaaaafaaaafaaaafaaaafaaaafaaaafaaaafaaaafaaaafaaaafaaaafaaaafaaaafaaaafaaaafaaaafaaaafaaaafaaaafaaaafaaaafaaaafaaaafaaaafaaaafaaaafaaaafaaaafaaaafaaaafaaaafaaaafaaaafaaaafaaaafaaaafaaaafaaaafaaaafaaaafaaaafaaaafaaaafaaaafaaaafaaaafaaaafaaaafaaaafaaaafaaaafaaaafaaaafaaaafaaaafaaaafaaaafaaaafaaaafaaaafaaaafaaaafaaaafaaaafaaaafaaaafaaaafaaaafaaaafaaaafaaaafaaaafaaaafaaaafaaaafaaaafaaaafaaaafaaaafaaaafaaaafaaaafaaaafaaaafaaaafaaaafaaaafaaaafaaaafaaaafaaaafaaaafaaaafaaaafaaaafaaaafaaaafaaaafaaaafaaaafaaaafaaaafaaaafaaaafaaaafaaaafaaaafaaaafaaaafaaaafaaaafaaaafaaaafaaaafaaaafaaaafaaaafaaaafaaaafaaaafaaaafaaaafaaaafaaaafaaaafaaaafaaaafaaaafaaaafaaaafaaaafaaaafaaaafaaaafaaaafaaaafaaaafaaaafaaaafaaaafaaaafaaaafaaaafaaaafaaaafaaaafaaaafaaaafaaaafaaaafaaaafaaaafaaaafaaaafaaaafaaaafaaaafaaaafaaaafaaaafaaaafaaaafaaaafaaaafaaaafaaaafaaaafaaaafaaaafaaaafaaaafaaaafaaaafaaaafaaaafaaaafaaaafaaaafaaaafaaaafaaaafaaaafaaaafaaaafaaaafaaaafaaaafaaaafaaaafaaaafaaaafaaaafaaaafaaaafaaaafaaaafaaaafaaaafaaaafaaaafaaaafaaaafaaaafaaaafaaaafaaaafaaaafaaaafaaaafaaaafaaaafaaaafaaaafaaaafaaaafaaaafaaaafaaaafaaaafaaaafaaaafaaaafaaaafaaaafaaaafaaaafaaaafaaaafaaaafaaaafaaaafaaaafaaaafaaaafaaaafaaaafaaaafaaaafaaaafaaaafaaaafaaaafaaaafaaaafaaaafaaaafaaaafaaaafaaaafaaaafaaaafaaaafaaaafaaaafaaaafaaaafaaaafaaaafaaaafaaaafaaaafaaaafaaaafaaaafaaaafaaaafaaaafaaaafaaaafaaaafaaaafaaaafaaaafaaaafaaaafaaaafaaaafaaaafaaaafaaaafaaaafaaaafaaaafaaaafaaaafaaaafaaaafaaaafaaaafaaaafaaaafaaaafaaaafaaaafaaaafaaaafaaaafaaaafaaaafaaaafaaaafaaaafaaaafaaaafaaaafaaaafaaaafaaaafaaaafaaaafaaaafaaaafaaaafaaaafaaaafaaaafaaaafaaaafaaaafaaaafaaaafaaaafaaaafaaaafaaaafaaaafaaaafaaaafaaaafaaaafaaaafaaaafaaaafaaaafaaaafaaaafaaaafaaaafaaaafaaaafaaaafaaaafaaaafaaaafaaaafaaaafaaaafaaaafaaaafaaaafaaaafaaaafaaaafaaaafaaaafaaaafaaaafaaaafaaaafaaaafaaaafaaaafaaaafaaaafaaaafaaaafaaaafaaaafaaaafaaaafaaaafaaaafaaaafaaaafaaaafaaaafaaaafaaaafaaaafaaaafaaaafaaaafaaaafaaaafaaaafaaaafaaaafaaaafaaaafaaaafaaaafaaaafaaaafaaaafaaaafaaaafaaaafaaaafaaaafaaaafaaaafaaaafaaaafaaaafaaaafaaaafaaaafaaaafaaaafaaaafaaaafaaaafaaaafaaaafaaaafaaaafaaaafaaaafaaaafaaaafaaaafaaaafaaaafaaaafaaaafaaaafaaaafaaaafaaaafaaaafaaaafaaaafaaaafaaaafaaaafaaaafaaaafaaaafaaaafaaaafaaaafaaaafaaaafaaaafaaaafaaaafaaaafaaaafaaaafaaaafaaaafaaaafaaaafaaaafaaaafaaaafaaaafaaaafaaaafaaaafaaaafaaaafaaaafaaaafaaaafaaaafaaaafaaaafaaaafaaaafaaaafaaaafaaaafaaaafaaaafaaaafaaaafaaaafaaaafaaaafaaaafaaaafaaaafaaaafaaaafaaaafaaaafaaaafaaaafaaaafaaaafaaaafaaaafaaaafaaaafaaaafaaaafaaaafaaaafaaaafaaaafaaaafaaaafaaaafaaaafaaaafaaaafaaaafaaaafaaaafaaaafaaaafaaaafaaaafaaaafaaaafaaaafaaaafaaaafaaaafaaaafaaaafaaaafaaaafaaaafaaaafaaaafaaaafaaaafaaaafaaaafaaaafaaaafaaaafaaaafaaaafaaaafaaaafaaaafaaaafaaaafaaaafaaaafaaaafaaaafaaaafaaaafaaaafaaaafaaaafaaaafaaaafaaaafaaaafaaaafaaaafaaaafaaaafaaaafaaaafaaaafaaaafaaaafaaaafaaaafaaaafaaaafaaaafaaaafaaaafaaaafaaaafaaaafaaaafaaaafaaaafaaaafaaaafaaaafaaaafaaaafaaaafaaaafaaaafaaaafaaaafaaaafaaaafaaaafaaaafaaaafaaaafaaaafaaaafaaaafaaaafaaaafaaaafaaaafaaaafaaaafaaaafaaaafaaaafaaaafaaaafaaaafaaaafaaaafaaaafaaaafaaaafaaaafaaaafaaaafaaaafaaaafaaaafaaaafaaaafaaaafaaaafaaaafaaaafaaaafaaaafaaaafaaaafaaaafaaaafaaaafaaaafaaaafaaaafaaaafaaaafaaaafaaaafaaaafaaaafaaaafaaaafaaaafaaaafaaaafaaaafaaaafaaaafaaaafaaaafaaaafaaaafaaaafaaaafaaaafaaaafaaaafaaaafaaaafaaaafaaaafaaaafaaaafaaaafaaaafaaaafaaaafaaaafaaaafaaaafaaaafaaaafaaaafaaaafaaaafaaaafaaaafaaaafaaaafaaaafaaaafaaaafaaaafaaaafaaaafaaaafaaaafaaaafaaaafaaaafaaaafaaaafaaaafaaaafaaaafaaaafaaaafaaaafaaaafaaaafaaaafaaaafaaaafaaaafaaaafaaaafaaaafaaaafaaaafaaaafaaaafaaaafaaaafaaaafaaaafaaaafaaaafaaaafaaaafaaaafaaaafaaaafaaaafaaaafaaaafaaaafaaaafaaaafaaaafaaaafaaaafaaaafaaaafaaaafaaaafaaaafaaaafaaaafaaaafaaaafaaaafaaaafaaaafaaaafaaaafaaaafaaaafaaaafaaaafaaaafaaaafaaaafaaaafaaaafaaaafaaaafaaaafaaaafaaaafaaaafaaaafaaaafaaaafaaaafaaaafaaaafaaaafaaaafaaaafaaaafaaaafaaaafaaaafaaaafaaaafaaaafaaaafaaaafaaaafaaaafaaaafaaaafaaaafaaaafaaaafaaaafaaaafaaaafaaaafaaaafaaaafaaaafaaaafaaaafaaaafaaaafaaaafaaaafaaaafaaaafaaaafaaaafaaaafaaaafaaaafaaaafaaaafaaaafaaaafaaaafaaaafaaaafaaaafaaaafaaaafaaaafaaaafaaaafaaaafaaaafaaaafaaaafaaaafaaaafaaaafaaaafaaaafaaaafaaaafaaaafaaaafaaaafaaaafaaaafaaaafaaaafaaaafaaaafaaaafaaaafaaaafaaaafaaaafaaaafaaaafaaaafaaaafaaaafaaaafaaaafaaaafaaaafaaaafaaaafaaaafaaaafaaaafaaaafaaaafaaaafaaaafaaaafaaaafaaaafaaaafaaaafaaaafaaaafaaaafaaaafaaaafaaaafaaaafaaaafaaaafaaaafaaaafaaaafaaaafaaaafaaaafaaaafaaaafaaaafaaaafaaaafaaaafaaaafaaaafaaaafaaaafaaaafaaaafaaaafaaaafaaaafaaaafaaaafaaaafaaaafaaaafaaaafaaaafaaaafaaaafaaaafaaaafaaaafaaaafaaaafaaaafaaaafaaaafaaaafaaaafaaaafaaaafaaaafaaaafaaaafaaaafaaaafaaaafaaaafaaaafaaaafaaaafaaaafaaaafaaaafaaaafaaaafaaaafaaaafaaaafaaaafaaaafaaaafaaaafaaaafaaaafaaaafaaaafaaaafaaaafaaaafaaaafaaaafaaaafaaaafaaaafaaaafaaaafaaaafaaaafaaaafaaaafaaaafaaaafaaaafaaaafaaaafaaaafaaaafaaaafaaaafaaaafaaaafaaaafaaaafaaaafaaaafaaaafaaaafaaaafaaaafaaaafaaaafaaaafaaaafaaaafaaaafaaaafaaaafaaaafaaaafaaaafaaaafaaaafaaaafaaaafaaaafaaaafaaaafaaaafaaaafaaaafaaaafaaaafaaaafaaaafaaaafaaaafaaaafaaaafaaaafaaaafaaaafaaaafaaaafaaaafaaaafaaaafaaaafaaaafaaaafaaaafaaaafaaaafaaaafaaaafaaaafaaaafaaaafaaaafaaaafaaaafaaaafaaaafaaaafaaaafaaaafaaaafaaaafaaaafaaaafaaaafaaaafaaaafaaaafaaaafaaaafaaaafaaaafaaaafaaaafaaaafaaaafaaaafaaaafaaaafaaaafaaaafaaaafaaaafaaaafaaaafaaaafaaaafaaaafaaaafaaaafaaaafaaaafaaaafaaaafaaaafaaaafaaaafaaaafaaaafaaaafaaaafaaaafaaaafaaaafaaaafaaaafaaaafaaaafaaaafaaaafaaaafaaaafaaaafaaaafaaaafaaaafaaaafaaaafaaaafaaaafaaaafaaaafaaaafaaaafaaaafaaaafaaaafaaaafaaaafaaaafaaaafaaaafaaaafaaaafaaaafaaaafaaaafaaaafaaaafaaaafaaaafaaaafaaaafaaaafaaaafaaaafaaaafaaaafaaaafaaaafaaaafaaaafaaaafaaaafaaaafaaaafaaaafaaaafaaaafaaaafaaaafaaaafaaaafaaaafaaaafaaaafaaaafaaaafaaaafaaaafaaaafaaaafaaaafaaaafaaaafaaaafaaaafaaaafaaaafaaaafaaaafaaaafaaaafaaaafaaaafaaaafaaaafaaaafaaaafaaaafaaaafaaaafaaaafaaaafaaaafaaaafaaaafaaaafaaaafaaaafaaaafaaaafaaaafaaaafaaaafaaaafaaaafaaaafaaaafaaaafaaaafaaaafaaaafaaaafaaaafaaaafaaaafaaaafaaaafaaaafaaaafaaaafaaaafaaaafaaaafaaaafaaaafaaaafaaaafaaaafaaaafaaaafaaaafaaaafaaaafaaaafaaaafaaaafaaaafaaaafaaaafaaaafaaaafaaaafaaaafaaaafaaaafaaaafaaaafaaaafaaaafaaaafaaaafaaaafaaaafaaaafaaaafaaaafaaaafaaaafaaaafaaaafaaaafaaaafaaaafaaaafaaaafaaaafaaaafaaaafaaaafaaaafaaaafaaaafaaaafaaaafaaaafaaaafaaaafaaaafaaaafaaaafaaaafaaaafaaaafaaaafaaaafaaaafaaaafaaaafaaaafaaaafaaaafaaaafaaaafaaaafaaaafaaaafaaaafaaaafaaaafaaaafaaaafaaaafaaaafaaaafaaaafaaaafaaaafaaaafaaaafaaaafaaaafaaaafaaaafaaaafaaaafaaaafaaaafaaaafaaaafaaaafaaaafaaaafaaaafaaaafaaaafaaaafaaaafaaaafaaaafaaaafaaaafaaaafaaaafaaaafaaaafaaaafaaaafaaaafaaaafaaaafaaaafaaaafaaaafaaaafaaaafaaaafaaaafaaaafaaaafaaaafaaaafaaaafaaaafaaaafaaaafaaaafaaaafaaaafaaaafaaaafaaaafaaaafaaaafaaaafaaaafaaaafaaaafaaaafaaaafaaaafaaaafaaaafaaaafaaaafaaaafaaaafaaaafaaaafaaaafaaaafaaaafaaaafaaaafaaaafaaaafaaaafaaaafaaaafaaaafaaaafaaaafaaaafaaaafaaaafaaaafaaaafaaaafaaaafaaaafaaaafaaaafaaaafaaaafaaaafaaaafaaaafaaaafaaaafaaaafaaaafaaaafaaaafaaaafaaaafaaaafaaaafaaaafaaaafaaaafaaaafaaaafaaaafaaaafaaaafaaaafaaaafaaaafaaaafaaaafaaaafaaaafaaaafaaaafaaaafaaaafaaaafaaaafaaaafaaaafaaaafaaaafaaaafaaaafaaaafaaaafaaaafaaaafaaaafaaaafaaaafaaaafaaaafaaaafaaaafaaaafaaaafaaaafaaaafaaaafaaaafaaaafaaaafaaaafaaaafaaaafaaaafaaaafaaaafaaaafaaaafaaaafaaaafaaaafaaaafaaaafaaaafaaaafaaaafaaaafaaaafaaaafaaaafaaaafaaaafaaaafaaaafaaaafaaaafaaaafaaaafaaaafaaaafaaaafaaaafaaaafaaaafaaaafaaaafaaaafaaaafaaaafaaaafaaaafaaaafaaaafaaaafaaaafaaaafaaaafaaaafaaaafaaaafaaaafaaaafaaaafaaaafaaaafaaaafaaaafaaaafaaaafaaaafaaaafaaaafaaaafaaaafaaaafaaaafaaaafaaaafaaaafaaaafaaaafaaaafaaaafaaaafaaaafaaaafaaaafaaaafaaaafaaaafaaaafaaaafaaaafaaaafaaaafaaaafaaaafaaaafaaaafaaaafaaaafaaaafaaaafaaaafaaaafaaaafaaaafaaaafaaaafaaaafaaaafaaaafaaaafaaaafaaaafaaaafaaaafaaaafaaaafaaaafaaaafaaaafaaaafaaaafaaaafaaaafaaaafaaaafaaaafaaaafaaaafaaaafaaaafaaaafaaaafaaaafaaaafaaaafaaaafaaaafaaaafaaaafaaaafaaaafaaaafaaaafaaaafaaaafaaaafaaaafaaaafaaaafaaaafaaaafaaaafaaaafaaaafaaaafaaaafaaaafaaaafaaaafaaaafaaaafaaaafaaaafaaaafaaaafaaaafaaaafaaaafaaaafaaaafaaaafaaaafaaaafaaaafaaaafaaaafaaaafaaaafaaaafaaaafaaaafaaaafaaaafaaaafaaaafaaaafaaaafaaaafaaaafaaaafaaaafaaaafaaaafaaaafaaaafaaaafaaaafaaaafaaaafaaaafaaaafaaaafaaaafaaaafaaaafaaaafaaaafaaaafaaaafaaaafaaaafaaaafaaaafaaaafaaaafaaaafaaaafaaaafaaaafaaaafaaaafaaaafaaaafaaaafaaaafaaaafaaaafaaaafaaaafaaaafaaaafaaaafaaaafaaaafaaaafaaaafaaaafaaaafaaaafaaaafaaaafaaaafaaaafaaaafaaaafaaaafaaaafaaaafaaaafaaaafaaaafaaaafaaaafaaaafaaaafaaaafaaaafaaaafaaaafaaaafaaaafaaaafaaaafaaaafaaaafaaaafaaaafaaaafaaaafaaaafaaaafaaaafaaaafaaaafaaaafaaaafaaaafaaaafaaaafaaaafaaaafaaaafaaaafaaaafaaaafaaaafaaaafaaaafaaaafaaaafaaaafaaaafaaaafaaaafaaaafaaaafaaaafaaaafaaaafaaaafaaaafaaaafaaaafaaaafaaaafaaaafaaaafaaaafaaaafaaaafaaaafaaaafaaaafaaaafaaaafaaaafaaaafaaaafaaaafaaaafaaaafaaaafaaaafaaaafaaaafaaaafaaaafaaaafaaaafaaaafaaaafaaaafaaaafaaaafaaaafaaaafaaaafaaaafaaaafaaaafaaaafaaaafaaaafaaaafaaaafaaaafaaaafaaaafaaaafaaaafaaaafaaaafaaaafaaaafaaaafaaaafaaaafaaaafaaaafaaaafaaaafaaaafaaaafaaaafaaaafaaaafaaaafaaaafaaaafaaaafaaaafaaaafaaaafaaaafaaaafaaaafaaaafaaaafaaaafaaaafaaaafaaaafaaaafaaaafaaaafaaaafaaaafaaaafaaaafaaaafaaaafaaaafaaaafaaaafaaaafaaaafaaaafaaaafaaaafaaaafaaaafaaaafaaaafaaaafaaaafaaaafaaaafaaaafaaaafaaaafaaaafaaaafaaaafaaaafaaaafaaaafaaaafaaaafaaaafaaaafaaaafaaaafaaaafaaaafaaaafaaaafaaaafaaaafaaaafaaaafaaaafaaaafaaaafaaaafaaaafaaaafaaaafaaaafaaaafaaaafaaaafaaaafaaaafaaaafaaaafaaaafaaaafaaaafaaaafaaaafaaaafaaaafaaaafaaaafaaaafaaaafaaaafaaaafaaaafaaaafaaaafaaaafaaaafaaaafaaaafaaaafaaaafaaaafaaaafaaaafaaaafaaaafaaaafaaaafaaaafaaaafaaaafaaaafaaaafaaaafaaaafaaaafaaaafaaaafaaaafaaaafaaaafaaaafaaaafaaaafaaaafaaaafaaaafaaaafaaaafaaaafaaaafaaaafaaaafaaaafaaaafaaaafaaaafaaaafaaaafaaaafaaaafaaaafaaaafaaaafaaaafaaaafaaaafaaaafaaaafaaaafaaaafaaaafaaaafaaaafaaaafaaaafaaaafaaaafaaaafaaaafaaaafaaaafaaaafaaaafaaaafaaaafaaaafaaaafaaaafaaaafaaaafaaaafaaaafaaaafaaaafaaaafaaaafaaaafaaaafaaaafaaaafaaaafaaaafaaaafaaaafaaaafaaaafaaaafaaaafaaaafaaaafaaaafaaaafaaaafaaaafaaaafaaaafaaaafaaaafaaaafaaaafaaaafaaaafaaaafaaaafaaaafaaaafaaaafaaaafaaaafaaaafaaaafaaaafaaaafaaaafaaaafaaaafaaaafaaaafaaaafaaaafaaaafaaaafaaaafaaaafaaaafaaaafaaaafaaaafaaaafaaaafaaaafaaaafaaaafaaaafaaaafaaaafaaaafaaaafaaaafaaaafaaaafaaaafaaaafaaaafaaaafaaaafaaaafaaaafaaaafaaaafaaaafaaaafaaaafaaaafaaaafaaaafaaaafaaaafaaaafaaaafaaaafaaaafaaaafaaaafaaaafaaaafaaaafaaaafaaaafaaaafaaaafaaaafaaaafaaaafaaaafaaaafaaaafaaaafaaaafaaaafaaaafaaaafaaaafaaaafaaaafaaaafaaaafaaaafaaaafaaaafaaaafaaaafaaaafaaaafaaaafaaaafaaaafaaaafaaaafaaaafaaaafaaaafaaaafaaaafaaaafaaaafaaaafaaaafaaaafaaaafaaaafaaaafaaaafaaaafaaaafaaaafaaaafaaaafaaaafaaaafaaaafaaaafaaaafaaaafaaaafaaaafaaaafaaaafaaaafaaaafaaaafaaaafaaaafaaaafaaaafaaaafaaaafaaaafaaaafaaaafaaaafaaaafaaaafaaaafaaaafaaaafaaaafaaaafaaaafaaaafaaaafaaaafaaaafaaaafaaaafaaaafaaaafaaaafaaaafaaaafaaaafaaaafaaaafaaaafaaaafaaaafaaaafaaaafaaaafaaaafaaaafaaaafaaaafaaaafaaaafaaaafaaaafaaaafaaaafaaaafaaaafaaaafaaaafaaaafaaaafaaaafaaaafaaaafaaaafaaaafaaaafaaaafaaaafaaaafaaaafaaaafaaaafaaaafaaaafaaaafaaaafaaaafaaaafaaaafaaaafaaaafaaaafaaaafaaaafaaaafaaaafaaaafaaaafaaaafaaaafaaaafaaaafaaaafaaaafaaaafaaaafaaaafaaaafaaaafaaaafaaaafaaaafaaaafaaaafaaaafaaaafaaaafaaaafaaaafaaaafaaaafaaaafaaaafaaaafaaaafaaaafaaaafaaaafaaaafaaaafaaaafaaaafaaaafaaaafaaaafaaaafaaaafaaaafaaaafaaaafaaaafaaaafaaaafaaaafaaaafaaaafaaaafaaaafaaaafaaaafaaaafaaaafaaaafaaaafaaaafaaaafaaaafaaaafaaaafaaaafaaaafaaaafaaaafaaaafaaaafaaaafaaaafaaaafaaaafaaaafaaaafaaaafaaaafaaaafaaaafaaaafaaaafaaaafaaaafaaaafaaaafaaaafaaaafaaaafaaaafaaaafaaaafaaaafaaaafaaaafaaaafaaaafaaaafaaaafaaaafaaaafaaaafaaaafaaaafaaaafaaaafaaaafaaaafaaaafaaaafaaaafaaaafaaaafaaaafaaaafaaaafaaaafaaaafaaaafaaaafaaaafaaaafaaaafaaaafaaaafaaaafaaaafaaaafaaaafaaaafaaaafaaaafaaaafaaaafaaaafaaaafaaaafaaaafaaaafaaaafaaaafaaaafaaaafaaaafaaaafaaaafaaaafaaaafaaaafaaaafaaaafaaaafaaaafaaaafaaaafaaaafaaaafaaaafaaaafaaaafaaaafaaaafaaaafaaaafaaaafaaaafaaaafaaaafaaaafaaaafaaaafaaaafaaaafaaaafaaaafaaaafaaaafaaaafaaaafaaaafaaaafaaaafaaaafaaaafaaaafaaaafaaaafaaaafaaaafaaaafaaaafaaaafaaaafaaaafaaaafaaaafaaaafaaaafaaaafaaaafaaaafaaaafaaaafaaaafaaaafaaaafaaaafaaaafaaaafaaaafaaaafaaaafaaaafaaaafaaaafaaaafaaaafaaaafaaaafaaaafaaaafaaaafaaaafaaaafaaaafaaaafaaaafaaaafaaaafaaaafaaaafaaaafaaaafaaaafaaaafaaaafaaaafaaaafaaaafaaaafaaaafaaaafaaaafaaaafaaaafaaaafaaaafaaaafaaaafaaaafaaaafaaaafaaaafaaaafaaaafaaaafaaaafaaaafaaaafaaaafaaaafaaaafaaaafaaaafaaaafaaaafaaaafaaaafaaaafaaaafaaaafaaaafaaaafaaaafaaaafaaaafaaaafaaaafaaaafaaaafaaaafaaaafaaaafaaaafaaaafaaaafaaaafaaaafaaaafaaaafaaaafaaaafaaaafaaaafaaaafaaaafaaaafaaaafaaaafaaaafaaaafaaaafaaaafaaaafaaaafaaaafaaaafaaaafaaaafaaaafaaaafaaaafaaaafaaaafaaaafaaaafaaaafaaaafaaaafaaaafaaaafaaaafaaaafaaaafaaaafaaaafaaaafaaaafaaaafaaaafaaaafaaaafaaaafaaaafaaaafaaaafaaaafaaaafaaaafaaaafaaaafaaaafaaaafaaaafaaaafaaaafaaaafaaaafaaaafaaaafaaaafaaaafaaaafaaaafaaaafaaaafaaaafaaaafaaaafaaaafaaaafaaaafaaaafaaaafaaaafaaaafaaaafaaaafaaaafaaaafaaaafaaaafaaaafaaaafaaaafaaaafaaaafaaaafaaaafaaaafaaaafaaaafaaaafaaaafaaaafaaaafaaaafaaaafaaaafaaaafaaaafaaaafaaaafaaaafaaaafaaaafaaaafaaaafaaaafaaaafaaaafaaaafaaaafaaaafaaaafaaaafaaaafaaaafaaaafaaaafaaaafaaaafaaaafaaaafaaaafaaaafaaaafaaaafaaaafaaaafaaaafaaaafaaaafaaaafaaaafaaaafaaaafaaaafaaaafaaaafaaaafaaaafaaaafaaaafaaaafaaaafaaaafaaaafaaaafaaaafaaaafaaaafaaaafaaaafaaaafaaaafaaaafaaaafaaaafaaaafaaaafaaaafaaaafaaaafaaaafaaaafaaaafaaaafaaaafaaaafaaaafaaaafaaaafaaaafaaaafaaaafaaaafaaaafaaaafaaaafaaaafaaaafaaaafaaaafaaaafaaaafaaaafaaaafaaaafaaaafaaaafaaaafaaaafaaaafaaaafaaaafaaaafaaaafaaaafaaaafaaaafaaaafaaaafaaaafaaaafaaaafaaaafaaaafaaaafaaaafaaaafaaaafaaaafaaaafaaaafaaaafaaaafaaaafaaaafaaaafaaaafaaaafaaaafaaaafaaaafaaaafaaaafaaaafaaaafaaaafaaaafaaaafaaaafaaaafaaaafaaaafaaaafaaaafaaaafaaaafaaaafaaaafaaaafaaaafaaaafaaaafaaaafaaaafaaaafaaaafaaaafaaaafaaaafaaaafaaaafaaaafaaaafaaaafaaaafaaaafaaaafaaaafaaaafaaaafaaaafaaaafaaaafaaaafaaaafaaaafaaaafaaaafaaaafaaaafaaaafaaaafaaaafaaaafaaaafaaaafaaaafaaaafaaaafaaaafaaaafaaaafaaaafaaaafaaaafaaaafaaaafaaaafaaaafaaaafaaaafaaaafaaaafaaaafaaaafaaaafaaaafaaaafaaaafaaaafaaaafaaaafaaaafaaaafaaaafaaaafaaaafaaaafaaaafaaaafaaaafaaaafaaaafaaaafaaaafaaaafaaaafaaaafaaaafaaaafaaaafaaaafaaaafaaaafaaaafaaaafaaaafaaaafaaaafaaaafaaaafaaaafaaaafaaaafaaaafaaaafaaaafaaaafaaaafaaaafaaaafaaaafaaaafaaaafaaaafaaaafaaaafaaaafaaaafaaaafaaaafaaaafaaaafaaaafaaaafaaaafaaaafaaaafaaaafaaaafaaaafaaaafaaaafaaaafaaaafaaaafaaaafaaaafaaaafaaaafaaaafaaaafaaaafaaaafaaaafaaaafaaaafaaaafaaaafaaaafaaaafaaaafaaaafaaaafaaaafaaaafaaaafaaaafaaaafaaaafaaaafaaaafaaaafaaaafaaaafaaaafaaaafaaaafaaaafaaaafaaaafaaaafaaaafaaaafaaaafaaaafaaaafaaaafaaaafaaaafaaaafaaaafaaaafaaaafaaaafaaaafaaaafaaaafaaaafaaaafaaaafaaaafaaaafaaaafaaaafaaaafaaaafaaaafaaaafaaaafaaaafaaaafaaaafaaaafaaaafaaaafaaaafaaaafaaaafaaaafaaaafaaaafaaaafaaaafaaaafaaaafaaaafaaaafaaaafaaaafaaaafaaaafaaaafaaaafaaaafaaaafaaaafaaaafaaaafaaaafaaaafaaaafaaaafaaaafaaaafaaaafaaaafaaaafaaaafaaaafaaaafaaaafaaaafaaaafaaaafaaaafaaaafaaaafaaaafaaaafaaaafaaaafaaaafaaaafaaaafaaaafaaaafaaaafaaaafaaaafaaaafaaaafaaaafaaaafaaaafaaaafaaaafaaaafaaaafaaaafaaaafaaaafaaaafaaaafaaaafaaaafaaaafaaaafaaaafaaaafaaaafaaaafaaaafaaaafaaaafaaaafaaaafaaaafaaaafaaaafaaaafaaaafaaaafaaaafaaaafaaaafaaaafaaaafaaaafaaaafaaaafaaaafaaaafaaaafaaaafaaaafaaaafaaaafaaaafaaaafaaaafaaaafaaaafaaaafaaaafaaaafaaaafaaaafaaaafaaaafaaaafaaaafaaaafaaaafaaaafaaaafaaaafaaaafaaaafaaaafaaaafaaaafaaaafaaaafaaaafaaaafaaaafaaaafaaaafaaaafaaaafaaaafaaaafaaaafaaaafaaaafaaaafaaaafaaaafaaaafaaaafaaaafaaaafaaaafaaaafaaaafaaaafaaaafaaaafaaaafaaaafaaaafaaaafaaaafaaaafaaaafaaaafaaaafaaaafaaaafaaaafaaaafaaaafaaaafaaaafaaaafaaaafaaaafaaaafaaaafaaaafaaaafaaaafaaaafaaaafaaaafaaaafaaaafaaaafaaaafaaaafaaaafaaaafaaaafaaaafaaaafaaaafaaaafaaaafaaaafaaaafaaaafaaaafaaaafaaaafaaaafaaaafaaaafaaaafaaaafaaaafaaaafaaaafaaaafaaaafaaaafaaaafaaaafaaaafaaaafaaaafaaaafaaaafaaaafaaaafaaaafaaaafaaaafaaaafaaaafaaaafaaaafaaaafaaaafaaaafaaaafaaaafaaaafaaaafaaaafaaaafaaaafaaaafaaaafaaaafaaaafaaaafaaaafaaaafaaaafaaaafaaaafaaaafaaaafaaaafaaaafaaaafaaaafaaaafaaaafaaaafaaaafaaaafaaaafaaaafaaaafaaaafaaaafaaaafaaaafaaaafaaaafaaaafaaaafaaaafaaaafaaaafaaaafaaaafaaaafaaaafaaaafaaaafaaaafaaaafaaaafaaaafaaaafaaaafaaaafaaaafaaaafaaaafaaaafaaaafaaaafaaaafaaaafaaaafaaaafaaaafaaaafaaaafaaaafaaaafaaaafaaaafaaaafaaaafaaaafaaaafaaaafaaaafaaaafaaaafaaaafaaaafaaaafaaaafaaaafaaaafaaaafaaaafaaaafaaaafaaaafaaaafaaaafaaaafaaaafaaaafaaaafaaaafaaaafaaaafaaaafaaaafaaaafaaaafaaaafaaaafaaaafaaaafaaaafaaaafaaaafaaaafaaaafaaaafaaaafaaaafaaaafaaaafaaaafaaaafaaaafaaaafaaaafaaaafaaaafaaaafaaaafaaaafaaaafaaaafaaaafaaaafaaaafaaaafaaaafaaaafaaaafaaaafaaaafaaaafaaaafaaaafaaaafaaaafaaaafaaaafaaaafaaaafaaaafaaaafaaaafaaaafaaaafaaaafaaaafaaaafaaaafaaaafaaaafaaaafaaaafaaaafaaaafaaaafaaaafaaaafaaaafaaaafaaaafaaaafaaaafaaaafaaaafaaaafaaaafaaaafaaaafaaaafaaaafaaaafaaaafaaaafaaaafaaaafaaaafaaaafaaaafaaaafaaaafaaaafaaaafaaaafaaaafaaaafaaaafaaaafaaaafaaaafaaaafaaaafaaaafaaaafaaaafaaaafaaaafaaaafaaaafaaaafaaaafaaaafaaaafaaaafaaaafaaaafaaaafaaaafaaaafaaaafaaaafaaaafaaaafaaaafaaaafaaaafaaaafaaaafaaaafaaaafaaaafaaaafaaaafaaaafaaaafaaaafaaaafaaaafaaaafaaaafaaaafaaaafaaaafaaaafaaaafaaaafaaaafaaaafaaaafaaaafaaaafaaaafaaaafaaaafaaaafaaaafaaaafaaaafaaaafaaaafaaaafaaaafaaaafaaaafaaaafaaaafaaaafaaaafaaaafaaaafaaaafaaaafaaaafaaaafaaaafaaaafaaaafaaaafaaaafaaaafaaaafaaaafaaaafaaaafaaaafaaaafaaaafaaaafaaaafaaaafaaaafaaaafaaaafaaaafaaaafaaaafaaaafaaaafaaaafaaaafaaaafaaaafaaaafaaaafaaaafaaaafaaaafaaaafaaaafaaaafaaaafaaaafaaaafaaaafaaaafaaaafaaaafaaaafaaaafaaaafaaaafaaaafaaaafaaaafaaaafaaaafaaaafaaaafaaaafaaaafaaaafaaaafaaaafaaaafaaaafaaaafaaaafaaaafaaaafaaaafaaaafaaaafaaaafaaaafaaaafaaaafaaaafaaaafaaaafaaaafaaaafaaaafaaaafaaaafaaaafaaaafaaaafaaaafaaaafaaaafaaaafaaaafaaaafaaaafaaaafaaaafaaaafaaaafaaaafaaaafaaaafaaaafaaaafaaaafaaaafaaaafaaaafaaaafaaaafaaaafaaaafaaaafaaaafaaaafaaaafaaaafaaaafaaaafaaaafaaaafaaaafaaaafaaaafaaaafaaaafaaaafaaaafaaaafaaaafaaaafaaaafaaaafaaaafaaaafaaaafaaaafaaaafaaaafaaaafaaaafaaaafaaaafaaaafaaaafaaaafaaaafaaaafaaaafaaaafaaaafaaaafaaaafaaaafaaaafaaaafaaaafaaaafaaaafaaaafaaaafaaaafaaaafaaaafaaaafaaaafaaaafaaaafaaaafaaaafaaaafaaaafaaaafaaaafaaaafaaaafaaaafaaaafaaaafaaaafaaaafaaaafaaaafaaaafaaaafaaaafaaaafaaaafaaaafaaaafaaaafaaaafaaaafaaaafaaaafaaaafaaaafaaaafaaaafaaaafaaaafaaaafaaaafaaaafaaaafaaaafaaaafaaaafaaaafaaaafaaaafaaaafaaaafaaaafaaaafaaaafaaaafaaaafaaaafaaaafaaaafaaaafaaaafaaaafaaaafaaaafaaaafaaaafaaaafaaaafaaaafaaaafaaaafaaaafaaaafaaaafaaaafaaaafaaaafaaaafaaaafaaaafaaaafaaaafaaaafaaaafaaaafaaaafaaaafaaaafaaaafaaaafaaaafaaaafaaaafaaaafaaaafaaaafaaaafaaaafaaaafaaaafaaaafaaaafaaaafaaaafaaaafaaaafaaaafaaaafaaaafaaaafaaaafaaaafaaaafaaaafaaaafaaaafaaaafaaaafaaaafaaaafaaaafaaaafaaaafaaaafaaaafaaaafaaaafaaaafaaaafaaaafaaaafaaaafaaaafaaaafaaaafaaaafaaaafaaaafaaaafaaaafaaaafaaaafaaaafaaaafaaaafaaaafaaaafaaaafaaaafaaaafaaaafaaaafaaaafaaaafaaaafaaaafaaaafaaaafaaaafaaaafaaaafaaaafaaaafaaaafaaaafaaaafaaaafaaaafaaaafaaaafaaaafaaaafaaaafaaaafaaaafaaaafaaaafaaaafaaaafaaaafaaaafaaaafaaaafaaaafaaaafaaaafaaaafaaaafaaaafaaaafaaaafaaaafaaaafaaaafaaaafaaaafaaaafaaaafaaaafaaaafaaaafaaaafaaaafaaaafaaaafaaaafaaaafaaaafaaaafaaaafaaaafaaaafaaaafaaaafaaaafaaaafaaaafaaaafaaaafaaaafaaaafaaaafaaaafaaaafaaaafaaaafaaaafaaaafaaaafaaaafaaaafaaaafaaaafaaaafaaaafaaaafaaaafaaaafaaaafaaaafaaaafaaaafaaaafaaaafaaaafaaaafaaaafaaaafaaaafaaaafaaaafaaaafaaaafaaaafaaaafaaaafaaaafaaaafaaaafaaaafaaaafaaaafaaaafaaaafaaaafaaaafaaaafaaaafaaaafaaaafaaaafaaaafaaaafaaaafaaaafaaaafaaaafaaaafaaaafaaaafaaaafaaaafaaaafaaaafaaaafaaaafaaaafaaaafaaaafaaaafaaaafaaaafaaaafaaaafaaaafaaaafaaaafaaaafaaaafaaaafaaaafaaaafaaaafaaaafaaaafaaaafaaaafaaaafaaaafaaaafaaaafaaaafaaaafaaaafaaaafaaaafaaaafaaaafaaaafaaaafaaaafaaaafaaaafaaaafaaaafaaaafaaaafaaaafaaaafaaaafaaaafaaaafaaaafaaaafaaaafaaaafaaaafaaaafaaaafaaaafaaaafaaaafaaaafaaaafaaaafaaaafaaaafaaaafaaaafaaaafaaaafaaaafaaaafaaaafaaaafaaaafaaaafaaaafaaaafaaaafaaaafaaaafaaaafaaaafaaaafaaaafaaaafaaaafaaaafaaaafaaaafaaaafaaaafaaaafaaaafaaaafaaaafaaaafaaaafaaaafaaaafaaaafaaaafaaaafaaaafaaaafaaaafaaaafaaaafaaaafaaaafaaaafaaaafaaaafaaaafaaaafaaaafaaaafaaaafaaaafaaaafaaaafaaaafaaaafaaaafaaaafaaaafaaaafaaaafaaaafaaaafaaaafaaaafaaaafaaaafaaaafaaaafaaaafaaaafaaaafaaaafaaaafaaaafaaaafaaaafaaaafaaaafaaaafaaaafaaaafaaaafaaaafaaaafaaaafaaaafaaaafaaaafaaaafaaaafaaaafaaaafaaaafaaaafaaaafaaaafaaaafaaaafaaaafaaaafaaaafaaaafaaaafaaaafaaaafaaaafaaaafaaaafaaaafaaaafaaaafaaaafaaaafaaaafaaaafaaaafaaaafaaaafaaaafaaaafaaaafaaaafaaaafaaaafaaaafaaaafaaaafaaaafaaaafaaaafaaaafaaaafaaaafaaaafaaaafaaaafaaaafaaaafaaaafaaaafaaaafaaaafaaaafaaaafaaaafaaaafaaaafaaaafaaaafaaaafaaaafaaaafaaaafaaaafaaaafaaaafaaaafaaaafaaaafaaaafaaaafaaaafaaaafaaaafaaaafaaaafaaaafaaaafaaaafaaaafaaaafaaaafaaaafaaaafaaaafaaaafaaaafaaaafaaaafaaaafaaaafaaaafaaaafaaaafaaaafaaaafaaaafaaaafaaaafaaaafaaaafaaaafaaaafaaaafaaaafaaaafaaaafaaaafaaaafaaaafaaaafaaaafaaaafaaaafaaaafaaaafaaaafaaaafaaaafaaaafaaaafaaaafaaaafaaaafaaaafaaaafaaaafaaaafaaaafaaaafaaaafaaaafaaaafaaaafaaaafaaaafaaaafaaaafaaaafaaaafaaaafaaaafaaaafaaaafaaaafaaaafaaaafaaaafaaaafaaaafaaaafaaaafaaaafaaaafaaaafaaaafaaaafaaaafaaaafaaaafaaaafaaaafaaaafaaaafaaaafaaaafaaaafaaaafaaaafaaaafaaaafaaaafaaaafaaaafaaaafaaaafaaaafaaaafaaaafaaaafaaaafaaaafaaaafaaaafaaaafaaaafaaaafaaaafaaaafaaaafaaaafaaaafaaaafaaaafaaaafaaaafaaaafaaaafaaaafaaaafaaaafaaaafaaaafaaaafaaaafaaaafaaaafaaaafaaaafaaaafaaaafaaaafaaaafaaaafaaaafaaaafaaaafaaaafaaaafaaaafaaaafaaaafaaaafaaaafaaaafaaaafaaaafaaaafaaaafaaaafaaaafaaaafaaaafaaaafaaaafaaaafaaaafaaaafaaaafaaaafaaaafaaaafaaaafaaaafaaaafaaaafaaaafaaaafaaaafaaaafaaaafaaaafaaaafaaaafaaaafaaaafaaaafaaaafaaaafaaaafaaaafaaaafaaaafaaaafaaaafaaaafaaaafaaaafaaaafaaaafaaaafaaaafaaaafaaaafaaaafaaaafaaaafaaaafaaaafaaaafaaaafaaaafaaaafaaaafaaaafaaaafaaaafaaaafaaaafaaaafaaaafaaaafaaaafaaaafaaaafaaaafaaaafaaaafaaaafaaaafaaaafaaaafaaaafaaaafaaaafaaaafaaaafaaaafaaaafaaaafaaaafaaaafaaaafaaaafaaaafaaaafaaaafaaaafaaaafaaaafaaaafaaaafaaaafaaaafaaaafaaaafaaaafaaaafaaaafaaaafaaaafaaaafaaaafaaaafaaaafaaaafaaaafaaaafaaaafaaaafaaaafaaaafaaaafaaaafaaaafaaaafaaaafaaaafaaaafaaaafaaaafaaaafaaaafaaaafaaaafaaaafaaaafaaaafaaaafaaaafaaaafaaaafaaaafaaaafaaaafaaaafaaaafaaaafaaaafaaaafaaaafaaaafaaaafaaaafaaaafaaaafaaaafaaaafaaaafaaaafaaaafaaaafaaaafaaaafaaaafaaaafaaaafaaaafaaaafaaaafaaaafaaaafaaaafaaaafaaaafaaaafaaaafaaaafaaaafaaaafaaaafaaaafaaaafaaaafaaaafaaaafaaaafaaaafaaaafaaaafaaaafaaaafaaaafaaaafaaaafaaaafaaaafaaaafaaaafaaaafaaaafaaaafaaaafaaaafaaaafaaaafaaaafaaaafaaaafaaaafaaaafaaaafaaaafaaaafaaaafaaaafaaaafaaaafaaaafaaaafaaaafaaaafaaaafaaaafaaaafaaaafaaaafaaaafaaaafaaaafaaaafaaaafaaaafaaaafaaaafaaaafaaaafaaaafaaaafaaaafaaaafaaaafaaaafaaaafaaaafaaaafaaaafaaaafaaaafaaaafaaaafaaaafaaaafaaaafaaaafaaaafaaaafaaaafaaaafaaaafaaaafaaaafaaaafaaaafaaaafaaaafaaaafaaaafaaaafaaaafaaaafaaaafaaaafaaaafaaaafaaaafaaaafaaaafaaaafaaaafaaaafaaaafaaaafaaaafaaaafaaaafaaaafaaaafaaaafaaaafaaaafaaaafaaaafaaaafaaaafaaaafaaaafaaaafaaaafaaaafaaaafaaaafaaaafaaaafaaaafaaaafaaaafaaaafaaaafaaaafaaaafaaaafaaaafaaaafaaaafaaaafaaaafaaaafaaaafaaaafaaaafaaaafaaaafaaaafaaaafaaaafaaaafaaaafaaaafaaaafaaaafaaaafaaaafaaaafaaaafaaaafaaaafaaaafaaaafaaaafaaaafaaaafaaaafaaaafaaaafaaaafaaaafaaaafaaaafaaaafaaaafaaaafaaaafaaaafaaaafaaaafaaaafaaaafaaaafaaaafaaaafaaaafaaaafaaaafaaaafaaaafaaaafaaaafaaaafaaaafaaaafaaaafaaaafaaaafaaaafaaaafaaaafaaaafaaaafaaaafaaaafaaaafaaaafaaaafaaaafaaaafaaaafaaaafaaaafaaaafaaaafaaaafaaaafaaaafaaaafaaaafaaaafaaaafaaaafaaaafaaaafaaaafaaaafaaaafaaaafaaaafaaaafaaaafaaaafaaaafaaaafaaaafaaaafaaaafaaaafaaaafaaaafaaaafaaaafaaaafaaaafaaaafaaaafaaaafaaaafaaaafaaaafaaaafaaaafaaaafaaaafaaaafaaaafaaaafaaaafaaaafaaaafaaaafaaaafaaaafaaaafaaaafaaaafaaaafaaaafaaaafaaaafaaaafaaaafaaaafaaaafaaaafaaaafaaaafaaaafaaaafaaaafaaaafaaaafaaaafaaaafaaaafaaaafaaaafaaaafaaaafaaaafaaaafaaaafaaaafaaaafaaaafaaaafaaaafaaaafaaaafaaaafaaaafaaaafaaaafaaaafaaaafaaaafaaaafaaaafaaaafaaaafaaaafaaaafaaaafaaaafaaaafaaaafaaaafaaaafaaaafaaaafaaaafaaaafaaaafaaaafaaaafaaaafaaaafaaaafaaaafaaaafaaaafaaaafaaaafaaaafaaaafaaaafaaaafaaaafaaaafaaaafaaaafaaaafaaaafaaaafaaaafaaaafaaaafaaaafaaaafaaaafaaaafaaaafaaaafaaaafaaaafaaaafaaaafaaaafaaaafaaaafaaaafaaaafaaaafaaaafaaaafaaaafaaaafaaaafaaaafaaaafaaaafaaaafaaaafaaaafaaaafaaaafaaaafaaaafaaaafaaaafaaaafaaaafaaaafaaaafaaaafaaaafaaaafaaaafaaaafaaaafaaaafaaaafaaaafaaaafaaaafaaaafaaaafaaaafaaaafaaaafaaaafaaaafaaaafaaaafaaaafaaaafaaaafaaaafaaaafaaaafaaaafaaaafaaaafaaaafaaaafaaaafaaaafaaaafaaaafaaaafaaaafaaaafaaaafaaaafaaaafaaaafaaaafaaaafaaaafaaaafaaaafaaaafaaaafaaaafaaaafaaaafaaaafaaaafaaaafaaaafaaaafaaaafaaaafaaaafaaaafaaaafaaaafaaaafaaaafaaaafaaaafaaaafaaaafaaaafaaaafaaaafaaaafaaaafaaaafaaaafaaaafaaaafaaaafaaaafaaaafaaaafaaaafaaaafaaaafaaaafaaaafaaaafaaaafaaaafaaaafaaaafaaaafaaaafaaaafaaaafaaaafaaaafaaaafaaaafaaaafaaaafaaaafaaaafaaaafaaaafaaaafaaaafaaaafaaaafaaaafaaaafaaaafaaaafaaaafaaaafaaaafaaaafaaaafaaaafaaaafaaaafaaaafaaaafaaaafaaaafaaaafaaaafaaaafaaaafaaaafaaaafaaaafaaaafaaaafaaaafaaaafaaaafaaaafaaaafaaaafaaaafaaaafaaaafaaaafaaaafaaaafaaaafaaaafaaaafaaaafaaaafaaaafaaaafaaaafaaaafaaaafaaaafaaaafaaaafaaaafaaaafaaaafaaaafaaaafaaaafaaaafaaaafaaaafaaaafaaaafaaaafaaaafaaaafaaaafaaaafaaaafaaaafaaaafaaaafaaaafaaaafaaaafaaaafaaaafaaaafaaaafaaaafaaaafaaaafaaaafaaaafaaaafaaaafaaaafaaaafaaaafaaaafaaaafaaaafaaaafaaaafaaaafaaaafaaaafaaaafaaaafaaaafaaaafaaaafaaaafaaaafaaaafaaaafaaaafaaaafaaaafaaaafaaaafaaaafaaaafaaaafaaaafaaaafaaaafaaaafaaaafaaaafaaaafaaaafaaaafaaaafaaaafaaaafaaaafaaaafaaaafaaaafaaaafaaaafaaaafaaaafaaaafaaaafaaaafaaaafaaaafaaaafaaaafaaaafaaaafaaaafaaaafaaaafaaaafaaaafaaaafaaaafaaaafaaaafaaaafaaaafaaaafaaaafaaaafaaaafaaaafaaaafaaaafaaaafaaaafaaaafaaaafaaaafaaaafaaaafaaaafaaaafaaaafaaaafaaaafaaaafaaaafaaaafaaaafaaaafaaaafaaaafaaaafaaaafaaaafaaaafaaaafaaaafaaaafaaaafaaaafaaaafaaaafaaaafaaaafaaaafaaaafaaaafaaaafaaaafaaaafaaaafaaaafaaaafaaaafaaaafaaaafaaaafaaaafaaaafaaaafaaaafaaaafaaaafaaaafaaaafaaaafaaaafaaaafaaaafaaaafaaaafaaaafaaaafaaaafaaaafaaaafaaaafaaaafaaaafaaaafaaaafaaaafaaaafaaaafaaaafaaaafaaaafaaaafaaaafaaaafaaaafaaaafaaaafaaaafaaaafaaaafaaaafaaaafaaaafaaaafaaaafaaaafaaaafaaaafaaaafaaaafaaaafaaaafaaaafaaaafaaaafaaaafaaaafaaaafaaaafaaaafaaaafaaaafaaaafaaaafaaaafaaaafaaaafaaaafaaaafaaaafaaaafaaaafaaaafaaaafaaaafaaaafaaaafaaaafaaaafaaaafaaaafaaaafaaaafaaaafaaaafaaaafaaaafaaaafaaaafaaaafaaaafaaaafaaaafaaaafaaaafaaaafaaaafaaaafaaaafaaaafaaaafaaaafaaaafaaaafaaaafaaaafaaaafaaaafaaaafaaaafaaaafaaaafaaaafaaaafaaaafaaaafaaaafaaaafaaaafaaaafaaaafaaaafaaaafaaaafaaaafaaaafaaaafaaaafaaaafaaaafaaaafaaaafaaaafaaaafaaaafaaaafaaaafaaaafaaaafaaaafaaaafaaaafaaaafaaaafaaaafaaaafaaaafaaaafaaaafaaaafaaaafaaaafaaaafaaaafaaaafaaaafaaaafaaaafaaaafaaaafaaaafaaaafaaaafaaaafaaaafaaaafaaaafaaaafaaaafaaaafaaaafaaaafaaaafaaaafaaaafaaaafaaaafaaaafaaaafaaaafaaaafaaaafaaaafaaaafaaaafaaaafaaaafaaaafaaaafaaaafaaaafaaaafaaaafaaaafaaaafaaaafaaaafaaaafaaaafaaaafaaaafaaaafaaaafaaaafaaaafaaaafaaaafaaaafaaaafaaaafaaaafaaaafaaaafaaaafaaaafaaaafaaaafaaaafaaaafaaaafaaaafaaaafaaaafaaaafaaaafaaaafaaaafaaaafaaaafaaaafaaaafaaaafaaaafaaaafaaaafaaaafaaaafaaaafaaaafaaaafaaaafaaaafaaaafaaaafaaaafaaaafaaaafaaaafaaaafaaaafaaaafaaaafaaaafaaaafaaaafaaaafaaaafaaaafaaaafaaaafaaaafaaaafaaaafaaaafaaaafaaaafaaaafaaaafaaaafaaaafaaaafaaaafaaaafaaaafaaaafaaaafaaaafaaaafaaaafaaaafaaaafaaaafaaaafaaaafaaaafaaaafaaaafaaaafaaaafaaaafaaaafaaaafaaaafaaaafaaaafaaaafaaaafaaaafaaaafaaaafaaaafaaaafaaaafaaaafaaaafaaaafaaaafaaaafaaaafaaaafaaaafaaaafaaaafaaaafaaaafaaaafaaaafaaaafaaaafaaaafaaaafaaaafaaaafaaaafaaaafaaaafaaaafaaaafaaaafaaaafaaaafaaaafaaaafaaaafaaaafaaaafaaaafaaaafaaaafaaaafaaaafaaaafaaaafaaaafaaaafaaaafaaaafaaaafaaaafaaaafaaaafaaaafaaaafaaaafaaaafaaaafaaaafaaaafaaaafaaaafaaaafaaaafaaaafaaaafaaaafaaaafaaaafaaaafaaaafaaaafaaaafaaaafaaaafaaaafaaaafaaaafaaaafaaaafaaaafaaaafaaaafaaaafaaaafaaaafaaaafaaaafaaaafaaaafaaaafaaaafaaaafaaaafaaaafaaaafaaaafaaaafaaaafaaaafaaaafaaaafaaaafaaaafaaaafaaaafaaaafaaaafaaaafaaaafaaaafaaaafaaaafaaaafaaaafaaaafaaaafaaaafaaaafaaaafaaaafaaaafaaaafaaaafaaaafaaaafaaaafaaaafaaaafaaaafaaaafaaaafaaaafaaaafaaaafaaaafaaaafaaaafaaaafaaaafaaaafaaaafaaaafaaaafaaaafaaaafaaaafaaaafaaaafaaaafaaaafaaaafaaaafaaaafaaaafaaaafaaaafaaaafaaaafaaaafaaaafaaaafaaaafaaaafaaaafaaaafaaaafaaaafaaaafaaaafaaaafaaaafaaaafaaaafaaaafaaaafaaaafaaaafaaaafaaaafaaaafaaaafaaaafaaaafaaaafaaaafaaaafaaaafaaaafaaaafaaaafaaaafaaaafaaaafaaaafaaaafaaaafaaaafaaaafaaaafaaaafaaaafaaaafaaaafaaaafaaaafaaaafaaaafaaaafaaaafaaaafaaaafaaaafaaaafaaaafaaaafaaaafaaaafaaaafaaaafaaaafaaaafaaaafaaaafaaaafaaaafaaaafaaaafaaaafaaaafaaaafaaaafaaaafaaaafaaaafaaaafaaaafaaaafaaaafaaaafaaaafaaaafaaaafaaaafaaaafaaaafaaaafaaaafaaaafaaaafaaaafaaaafaaaafaaaafaaaafaaaafaaaafaaaafaaaafaaaafaaaafaaaafaaaafaaaafaaaafaaaafaaaafaaaafaaaafaaaafaaaafaaaafaaaafaaaafaaaafaaaafaaaafaaaafaaaafaaaafaaaafaaaafaaaafaaaafaaaafaaaafaaaafaaaafaaaafaaaafaaaafaaaafaaaafaaaafaaaafaaaafaaaafaaaafaaaafaaaafaaaafaaaafaaaafaaaafaaaafaaaafaaaafaaaafaaaafaaaafaaaafaaaafaaaafaaaafaaaafaaaafaaaafaaaafaaaafaaaafaaaafaaaafaaaafaaaafaaaafaaaafaaaafaaaafaaaafaaaafaaaafaaaafaaaafaaaafaaaafaaaafaaaafaaaafaaaafaaaafaaaafaaaafaaaafaaaafaaaafaaaafaaaafaaaafaaaafaaaafaaaafaaaafaaaafaaaafaaaafaaaafaaaafaaaafaaaafaaaafaaaafaaaafaaaafaaaafaaaafaaaafaaaafaaaafaaaafaaaafaaaafaaaafaaaafaaaafaaaafaaaafaaaafaaaafaaaafaaaafaaaafaaaafaaaafaaaafaaaafaaaafaaaafaaaafaaaafaaaafaaaafaaaafaaaafaaaafaaaafaaaafaaaafaaaafaaaafaaaafaaaafaaaafaaaafaaaafaaaafaaaafaaaafaaaafaaaafaaaafaaaafaaaafaaaafaaaafaaaafaaaafaaaafaaaafaaaafaaaafaaaafaaaafaaaafaaaafaaaafaaaafaaaafaaaafaaaafaaaafaaaafaaaafaaaafaaaafaaaafaaaafaaaafaaaafaaaafaaaafaaaafaaaafaaaafaaaafaaaafaaaafaaaafaaaafaaaafaaaafaaaafaaaafaaaafaaaafaaaafaaaafaaaafaaaafaaaafaaaafaaaafaaaafaaaafaaaafaaaafaaaafaaaafaaaafaaaafaaaafaaaafaaaafaaaafaaaafaaaafaaaafaaaafaaaafaaaafaaaafaaaafaaaafaaaafaaaafaaaafaaaafaaaafaaaafaaaafaaaafaaaafaaaafaaaafaaaafaaaafaaaafaaaafaaaafaaaafaaaafaaaafaaaafaaaafaaaafaaaafaaaafaaaafaaaafaaaafaaaafaaaafaaaafaaaafaaaafaaaafaaaafaaaafaaaafaaaafaaaafaaaafaaaafaaaafaaaafaaaafaaaafaaaafaaaafaaaafaaaafaaaafaaaafaaaafaaaafaaaafaaaafaaaafaaaafaaaafaaaafaaaafaaaafaaaafaaaafaaaafaaaafaaaafaaaafaaaafaaaafaaaafaaaafaaaafaaaafaaaafaaaafaaaafaaaafaaaafaaaafaaaafaaaafaaaafaaaafaaaafaaaafaaaafaaaafaaaafaaaafaaaafaaaafaaaafaaaafaaaafaaaafaaaafaaaafaaaafaaaafaaaafaaaafaaaafaaaafaaaafaaaafaaaafaaaafaaaafaaaafaaaafaaaafaaaafaaaafaaaafaaaafaaaafaaaafaaaafaaaafaaaafaaaafaaaafaaaafaaaafaaaafaaaafaaaafaaaafaaaafaaaafaaaafaaaafaaaafaaaafaaaafaaaafaaaafaaaafaaaafaaaafaaaafaaaafaaaafaaaafaaaafaaaafaaaafaaaafaaaafaaaafaaaafaaaafaaaafaaaafaaaafaaaafaaaafaaaafaaaafaaaafaaaafaaaafaaaafaaaafaaaafaaaafaaaafaaaafaaaafaaaafaaaafaaaafaaaafaaaafaaaafaaaafaaaafaaaafaaaafaaaafaaaafaaaafaaaafaaaafaaaafaaaafaaaafaaaafaaaafaaaafaaaafaaaafaaaafaaaafaaaafaaaafaaaafaaaafaaaafaaaafaaaafaaaafaaaafaaaafaaaafaaaafaaaafaaaafaaaafaaaafaaaafaaaafaaaafaaaafaaaafaaaafaaaafaaaafaaaafaaaafaaaafaaaafaaaafaaaafaaaafaaaafaaaafaaaafaaaafaaaafaaaafaaaafaaaafaaaafaaaafaaaafaaaafaaaafaaaafaaaafaaaafaaaafaaaafaaaafaaaafaaaafaaaafaaaafaaaafaaaafaaaafaaaafaaaafaaaafaaaafaaaafaaaafaaaafaaaafaaaafaaaafaaaafaaaafaaaafaaaafaaaafaaaafaaaafaaaafaaaafaaaafaaaafaaaafaaaafaaaafaaaafaaaafaaaafaaaafaaaafaaaafaaaafaaaafaaaafaaaafaaaafaaaafaaaafaaaafaaaafaaaafaaaafaaaafaaaafaaaafaaaafaaaafaaaafaaaafaaaafaaaafaaaafaaaafaaaafaaaafaaaafaaaafaaaafaaaafaaaafaaaafaaaafaaaafaaaafaaaafaaaafaaaafaaaafaaaafaaaafaaaafaaaafaaaafaaaafaaaafaaaafaaaafaaaafaaaafaaaafaaaafaaaafaaaafaaaafaaaafaaaafaaaafaaaafaaaafaaaafaaaafaaaafaaaafaaaafaaaafaaaafaaaafaaaafaaaafaaaafaaaafaaaafaaaafaaaafaaaafaaaafaaaafaaaafaaaafaaaafaaaafaaaafaaaafaaaafaaaafaaaafaaaafaaaafaaaafaaaafaaaafaaaafaaaafaaaafaaaafaaaafaaaafaaaafaaaafaaaafaaaafaaaafaaaafaaaafaaaafaaaafaaaafaaaafaaaafaaaafaaaafaaaafaaaafaaaafaaaafaaaafaaaafaaaafaaaafaaaafaaaafaaaafaaaafaaaafaaaafaaaafaaaafaaaafaaaafaaaafaaaafaaaafaaaafaaaafaaaafaaaafaaaafaaaafaaaafaaaafaaaafaaaafaaaafaaaafaaaafaaaafaaaafaaaafaaaafaaaafaaaafaaaafaaaafaaaafaaaafaaaafaaaafaaaafaaaafaaaafaaaafaaaafaaaafaaaafaaaafaaaafaaaafaaaafaaaafaaaafaaaafaaaafaaaafaaaafaaaafaaaafaaaafaaaafaaaafaaaafaaaafaaaafaaaafaaaafaaaafaaaafaaaafaaaafaaaafaaaafaaaafaaaafaaaafaaaafaaaafaaaafaaaafaaaafaaaafaaaafaaaafaaaafaaaafaaaafaaaafaaaafaaaafaaaafaaaafaaaafaaaafaaaafaaaafaaaafaaaafaaaafaaaafaaaafaaaafaaaafaaaafaaaafaaaafaaaafaaaafaaaafaaaafaaaafaaaafaaaafaaaafaaaafaaaafaaaafaaaafaaaafaaaafaaaafaaaafaaaafaaaafaaaafaaaafaaaafaaaafaaaafaaaafaaaafaaaafaaaafaaaafaaaafaaaafaaaafaaaafaaaafaaaafaaaafaaaafaaaafaaaafaaaafaaaafaaaafaaaafaaaafaaaafaaaafaaaafaaaafaaaafaaaafaaaafaaaafaaaafaaaafaaaafaaaafaaaafaaaafaaaafaaaafaaaafaaaafaaaafaaaafaaaafaaaafaaaafaaaafaaaafaaaafaaaafaaaafaaaafaaaafaaaafaaaafaaaafaaaafaaaafaaaafaaaafaaaafaaaafaaaafaaaafaaaafaaaafaaaafaaaafaaaafaaaafaaaafaaaafaaaafaaaafaaaafaaaafaaaafaaaafaaaafaaaafaaaafaaaafaaaafaaaafaaaafaaaafaaaafaaaafaaaafaaaafaaaafaaaafaaaafaaaafaaaafaaaafaaaafaaaafaaaafaaaafaaaafaaaafaaaafaaaafaaaafaaaafaaaafaaaafaaaafaaaafaaaafaaaafaaaafaaaafaaaafaaaafaaaafaaaafaaaafaaaafaaaafaaaafaaaafaaaafaaaafaaaafaaaafaaaafaaaafaaaafaaaafaaaafaaaafaaaafaaaafaaaafaaaafaaaafaaaafaaaafaaaafaaaafaaaafaaaafaaaafaaaafaaaafaaaafaaaafaaaafaaaafaaaafaaaafaaaafaaaafaaaafaaaafaaaafaaaafaaaafaaaafaaaafaaaafaaaafaaaafaaaafaaaafaaaafaaaafaaaafaaaafaaaafaaaafaaaafaaaafaaaafaaaafaaaafaaaafaaaafaaaafaaaafaaaafaaaafaaaafaaaafaaaafaaaafaaaafaaaafaaaafaaaafaaaafaaaafaaaafaaaafaaaafaaaafaaaafaaaafaaaafaaaafaaaafaaaafaaaafaaaafaaaafaaaafaaaafaaaafaaaafaaaafaaaafaaaafaaaafaaaafaaaafaaaafaaaafaaaafaaaafaaaafaaaafaaaafaaaafaaaafaaaafaaaafaaaafaaaafaaaafaaaafaaaafaaaafaaaafaaaafaaaafaaaafaaaafaaaafaaaafaaaafaaaafaaaafaaaafaaaafaaaafaaaafaaaafaaaafaaaafaaaafaaaafaaaafaaaafaaaafaaaafaaaafaaaafaaaafaaaafaaaafaaaafaaaafaaaafaaaafaaaafaaaafaaaafaaaafaaaafaaaafaaaafaaaafaaaafaaaafaaaafaaaafaaaafaaaafaaaafaaaafaaaafaaaafaaaafaaaafaaaafaaaafaaaafaaaafaaaafaaaafaaaafaaaafaaaafaaaafaaaafaaaafaaaafaaaafaaaafaaaafaaaafaaaafaaaafaaaafaaaafaaaafaaaafaaaafaaaafaaaafaaaafaaaafaaaafaaaafaaaafaaaafaaaafaaaafaaaafaaaafaaaafaaaafaaaafaaaafaaaafaaaafaaaafaaaafaaaafaaaafaaaafaaaafaaaafaaaafaaaafaaaafaaaafaaaafaaaafaaaafaaaafaaaafaaaafaaaafaaaafaaaafaaaafaaaafaaaafaaaafaaaafaaaafaaaafaaaafaaaafaaaafaaaafaaaafaaaafaaaafaaaafaaaafaaaafaaaafaaaafaaaafaaaafaaaafaaaafaaaafaaaafaaaafaaaafaaaafaaaafaaaafaaaafaaaafaaaafaaaafaaaafaaaafaaaafaaaafaaaafaaaafaaaafaaaafaaaafaaaafaaaafaaaafaaaafaaaafaaaafaaaafaaaafaaaafaaaafaaaafaaaafaaaafaaaafaaaafaaaafaaaafaaaafaaaafaaaafaaaafaaaafaaaafaaaafaaaafaaaafaaaafaaaafaaaafaaaafaaaafaaaafaaaafaaaafaaaafaaaafaaaafaaaafaaaafaaaafaaaafaaaafaaaafaaaafaaaafaaaafaaaafaaaafaaaafaaaafaaaafaaaafaaaafaaaafaaaafaaaafaaaafaaaafaaaafaaaafaaaafaaaafaaaafaaaafaaaafaaaafaaaafaaaafaaaafaaaafaaaafaaaafaaaafaaaafaaaafaaaafaaaafaaaafaaaafaaaafaaaafaaaafaaaafaaaafaaaafaaaafaaaafaaaafaaaafaaaafaaaafaaaafaaaafaaaafaaaafaaaafaaaafaaaafaaaafaaaafaaaafaaaafaaaafaaaafaaaafaaaafaaaafaaaafaaaafaaaafaaaafaaaafaaaafaaaafaaaafaaaafaaaafaaaafaaaafaaaafaaaafaaaafaaaafaaaafaaaafaaaafaaaafaaaafaaaafaaaafaaaafaaaafaaaafaaaafaaaafaaaafaaaafaaaafaaaafaaaafaaaafaaaafaaaafaaaafaaaafaaaafaaaafaaaafaaaafaaaafaaaafaaaafaaaafaaaafaaaafaaaafaaaafaaaafaaaafaaaafaaaafaaaafaaaafaaaafaaaafaaaafaaaafaaaafaaaafaaaafaaaafaaaafaaaafaaaafaaaafaaaafaaaafaaaafaaaafaaaafaaaafaaaafaaaafaaaafaaaafaaaafaaaafaaaafaaaafaaaafaaaafaaaafaaaafaaaafaaaafaaaafaaaafaaaafaaaafaaaafaaaafaaaafaaaafaaaafaaaafaaaafaaaafaaaafaaaafaaaafaaaafaaaafaaaafaaaafaaaafaaaafaaaafaaaafaaaafaaaafaaaafaaaafaaaafaaaafaaaafaaaafaaaafaaaafaaaafaaaafaaaafaaaafaaaafaaaafaaaafaaaafaaaafaaaafaaaafaaaafaaaafaaaafaaaafaaaafaaaafaaaafaaaafaaaafaaaafaaaafaaaafaaaafaaaafaaaafaaaafaaaafaaaafaaaafaaaafaaaafaaaafaaaafaaaafaaaafaaaafaaaafaaaafaaaafaaaafaaaafaaaafaaaafaaaafaaaafaaaafaaaafaaaafaaaafaaaafaaaafaaaafaaaafaaaafaaaafaaaafaaaafaaaafaaaafaaaafaaaafaaaafaaaafaaaafaaaafaaaafaaaafaaaafaaaafaaaafaaaafaaaafaaaafaaaafaaaafaaaafaaaafaaaafaaaafaaaafaaaafaaaafaaaafaaaafaaaafaaaafaaaafaaaafaaaafaaaafaaaafaaaafaaaafaaaafaaaafaaaafaaaafaaaafaaaafaaaafaaaafaaaafaaaafaaaafaaaafaaaafaaaafaaaafaaaafaaaafaaaafaaaafaaaafaaaafaaaafaaaafaaaafaaaafaaaafaaaafaaaafaaaafaaaafaaaafaaaafaaaafaaaafaaaafaaaafaaaafaaaafaaaafaaaafaaaafaaaafaaaafaaaafaaaafaaaafaaaafaaaafaaaafaaaafaaaafaaaafaaaafaaaafaaaafaaaafaaaafaaaafaaaafaaaafaaaafaaaafaaaafaaaafaaaafaaaafaaaafaaaafaaaafaaaafaaaafaaaafaaaafaaaafaaaafaaaafaaaafaaaafaaaafaaaafaaaafaaaafaaaafaaaafaaaafaaaafaaaafaaaafaaaafaaaafaaaafaaaafaaaafaaaafaaaafaaaafaaaafaaaafaaaafaaaafaaaafaaaafaaaafaaaafaaaafaaaafaaaafaaaafaaaafaaaafaaaafaaaafaaaafaaaafaaaafaaaafaaaafaaaafaaaafaaaafaaaafaaaafaaaafaaaafaaaafaaaafaaaafaaaafaaaafaaaafaaaafaaaafaaaafaaaafaaaafaaaafaaaafaaaafaaaafaaaafaaaafaaaafaaaafaaaafaaaafaaaafaaaafaaaafaaaafaaaafaaaafaaaafaaaafaaaafaaaafaaaafaaaafaaaafaaaafaaaafaaaafaaaafaaaafaaaafaaaafaaaafaaaafaaaafaaaafaaaafaaaafaaaafaaaafaaaafaaaafaaaafaaaafaaaafaaaafaaaafaaaafaaaafaaaafaaaafaaaafaaaafaaaafaaaafaaaafaaaafaaaafaaaafaaaafaaaafaaaafaaaafaaaafaaaafaaaafaaaafaaaafaaaafaaaafaaaafaaaafaaaafaaaafaaaafaaaafaaaafaaaafaaaafaaaafaaaafaaaafaaaafaaaafaaaafaaaafaaaafaaaafaaaafaaaafaaaafaaaafaaaafaaaafaaaafaaaafaaaafaaaafaaaafaaaafaaaafaaaafaaaafaaaafaaaafaaaafaaaafaaaafaaaafaaaafaaaafaaaafaaaafaaaafaaaafaaaafaaaafaaaafaaaafaaaafaaaafaaaafaaaafaaaafaaaafaaaafaaaafaaaafaaaafaaaafaaaafaaaafaaaafaaaafaaaafaaaafaaaafaaaafaaaafaaaafaaaafaaaafaaaafaaaafaaaafaaaafaaaafaaaafaaaafaaaafaaaafaaaafaaaafaaaafaaaafaaaafaaaafaaaafaaaafaaaafaaaafaaaafaaaafaaaafaaaafaaaafaaaafaaaafaaaafaaaafaaaafaaaafaaaafaaaafaaaafaaaafaaaafaaaafaaaafaaaafaaaafaaaafaaaafaaaafaaaafaaaafaaaafaaaafaaaafaaaafaaaafaaaafaaaafaaaafaaaafaaaafaaaafaaaafaaaafaaaafaaaafaaaafaaaafaaaafaaaafaaaafaaaafaaaafaaaafaaaafaaaafaaaafaaaafaaaafaaaafaaaafaaaafaaaafaaaafaaaafaaaafaaaafaaaafaaaafaaaafaaaafaaaafaaaafaaaafaaaafaaaafaaaafaaaafaaaafaaaafaaaafaaaafaaaafaaaafaaaafaaaafaaaafaaaafaaaafaaaafaaaafaaaafaaaafaaaafaaaafaaaafaaaafaaaafaaaafaaaafaaaafaaaafaaaafaaaafaaaafaaaafaaaafaaaafaaaafaaaafaaaafaaaafaaaafaaaafaaaafaaaafaaaafaaaafaaaafaaaafaaaafaaaafaaaafaaaafaaaafaaaafaaaafaaaafaaaafaaaafaaaafaaaafaaaafaaaafaaaafaaaafaaaafaaaafaaaafaaaafaaaafaaaafaaaafaaaafaaaafaaaafaaaafaaaafaaaafaaaafaaaafaaaafaaaafaaaafaaaafaaaafaaaafaaaafaaaafaaaafaaaafaaaafaaaafaaaafaaaafaaaafaaaafaaaafaaaafaaaafaaaafaaaafaaaafaaaafaaaafaaaafaaaafaaaafaaaafaaaafaaaafaaaafaaaafaaaafaaaafaaaafaaaafaaaafaaaafaaaafaaaafaaaafaaaafaaaafaaaafaaaafaaaafaaaafaaaafaaaafaaaafaaaafaaaafaaaafaaaafaaaafaaaafaaaafaaaafaaaafaaaafaaaafaaaafaaaafaaaafaaaafaaaafaaaafaaaafaaaafaaaafaaaafaaaafaaaafaaaafaaaafaaaafaaaafaaaafaaaafaaaafaaaafaaaafaaaafaaaafaaaafaaaafaaaafaaaafaaaafaaaafaaaafaaaafaaaafaaaafaaaafaaaafaaaafaaaafaaaafaaaafaaaafaaaafaaaafaaaafaaaafaaaafaaaafaaaafaaaafaaaafaaaafaaaafaaaafaaaafaaaafaaaafaaaafaaaafaaaafaaaafaaaafaaaafaaaafaaaafaaaafaaaafaaaafaaaafaaaafaaaafaaaafaaaafaaaafaaaafaaaafaaaafaaaafaaaafaaaafaaaafaaaafaaaafaaaafaaaafaaaafaaaafaaaafaaaafaaaafaaaafaaaafaaaafaaaafaaaafaaaafaaaafaaaafaaaafaaaafaaaafaaaafaaaafaaaafaaaafaaaafaaaafaaaafaaaafaaaafaaaafaaaafaaaafaaaafaaaafaaaafaaaafaaaafaaaafaaaafaaaafaaaafaaaafaaaafaaaafaaaafaaaafaaaafaaaafaaaafaaaafaaaafaaaafaaaafaaaafaaaafaaaafaaaafaaaafaaaafaaaafaaaafaaaafaaaafaaaafaaaafaaaafaaaafaaaafaaaafaaaafaaaafaaaafaaaafaaaafaaaafaaaafaaaafaaaafaaaafaaaafaaaafaaaafaaaafaaaafaaaafaaaafaaaafaaaafaaaafaaaafaaaafaaaafaaaafaaaafaaaafaaaafaaaafaaaafaaaafaaaafaaaafaaaafaaaafaaaafaaaafaaaafaaaafaaaafaaaafaaaafaaaafaaaafaaaafaaaafaaaafaaaafaaaafaaaafaaaafaaaafaaaafaaaafaaaafaaaafaaaafaaaafaaaafaaaafaaaafaaaafaaaafaaaafaaaafaaaafaaaafaaaafaaaafaaaafaaaafaaaafaaaafaaaafaaaafaaaafaaaafaaaafaaaafaaaafaaaafaaaafaaaafaaaafaaaafaaaafaaaafaaaafaaaafaaaafaaaafaaaafaaaafaaaafaaaafaaaafaaaafaaaafaaaafaaaafaaaafaaaafaaaafaaaafaaaafaaaafaaaafaaaafaaaafaaaafaaaafaaaafaaaafaaaafaaaafaaaafaaaafaaaafaaaafaaaafaaaafaaaafaaaafaaaafaaaafaaaafaaaafaaaafaaaafaaaafaaaafaaaafaaaafaaaafaaaafaaaafaaaafaaaafaaaafaaaafaaaafaaaafaaaafaaaafaaaafaaaafaaaafaaaafaaaafaaaafaaaafaaaafaaaafaaaafaaaafaaaafaaaafaaaafaaaafaaaafaaaafaaaafaaaafaaaafaaaafaaaafaaaafaaaafaaaafaaaafaaaafaaaafaaaafaaaafaaaafaaaafaaaafaaaafaaaafaaaafaaaafaaaafaaaafaaaafaaaafaaaafaaaafaaaafaaaafaaaafaaaafaaaafaaaafaaaafaaaafaaaafaaaafaaaafaaaafaaaafaaaafaaaafaaaafaaaafaaaafaaaafaaaafaaaafaaaafaaaafaaaafaaaafaaaafaaaafaaaafaaaafaaaafaaaafaaaafaaaafaaaafaaaafaaaafaaaafaaaafaaaafaaaafaaaafaaaafaaaafaaaafaaaafaaaafaaaafaaaafaaaafaaaafaaaafaaaafaaaafaaaafaaaafaaaafaaaafaaaafaaaafaaaafaaaafaaaafaaaafaaaafaaaafaaaafaaaafaaaafaaaafaaaafaaaafaaaafaaaafaaaafaaaafaaaafaaaafaaaafaaaafaaaafaaaafaaaafaaaafaaaafaaaafaaaafaaaafaaaafaaaafaaaafaaaafaaaafaaaafaaaafaaaafaaaafaaaafaaaafaaaafaaaafaaaafaaaafaaaafaaaafaaaafaaaafaaaafaaaafaaaafaaaafaaaafaaaafaaaafaaaafaaaafaaaafaaaafaaaafaaaafaaaafaaaafaaaafaaaafaaaafaaaafaaaafaaaafaaaafaaaafaaaafaaaafaaaafaaaafaaaafaaaafaaaafaaaafaaaafaaaafaaaafaaaafaaaafaaaafaaaafaaaafaaaafaaaafaaaafaaaafaaaafaaaafaaaafaaaafaaaafaaaafaaaafaaaafaaaafaaaafaaaafaaaafaaaafaaaafaaaafaaaafaaaafaaaafaaaafaaaafaaaafaaaafaaaafaaaafaaaafaaaafaaaafaaaafaaaafaaaafaaaafaaaafaaaafaaaafaaaafaaaafaaaafaaaafaaaafaaaafaaaafaaaafaaaafaaaafaaaafaaaafaaaafaaaafaaaafaaaafaaaafaaaafaaaafaaaafaaaafaaaafaaaafaaaafaaaafaaaafaaaafaaaafaaaafaaaafaaaafaaaafaaaafaaaafaaaafaaaafaaaafaaaafaaaafaaaafaaaafaaaafaaaafaaaafaaaafaaaafaaaafaaaafaaaafaaaafaaaafaaaafaaaafaaaafaaaafaaaafaaaafaaaafaaaafaaaafaaaafaaaafaaaafaaaafaaaafaaaafaaaafaaaafaaaafaaaafaaaafaaaafaaaafaaaafaaaafaaaafaaaafaaaafaaaafaaaafaaaafaaaafaaaafaaaafaaaafaaaafaaaafaaaafaaaafaaaafaaaafaaaafaaaafaaaafaaaafaaaafaaaafaaaafaaaafaaaafaaaafaaaafaaaafaaaafaaaafaaaafaaaafaaaafaaaafaaaafaaaafaaaafaaaafaaaafaaaafaaaafaaaafaaaafaaaafaaaafaaaafaaaafaaaafaaaafaaaafaaaafaaaafaaaafaaaafaaaafaaaafaaaafaaaafaaaafaaaafaaaafaaaafaaaafaaaafaaaafaaaafaaaafaaaafaaaafaaaafaaaafaaaafaaaafaaaafaaaafaaaafaaaafaaaafaaaafaaaafaaaafaaaafaaaafaaaafaaaafaaaafaaaafaaaafaaaafaaaafaaaafaaaafaaaafaaaafaaaafaaaafaaaafaaaafaaaafaaaafaaaafaaaafaaaafaaaafaaaafaaaafaaaafaaaafaaaafaaaafaaaafaaaafaaaafaaaafaaaafaaaafaaaafaaaafaaaafaaaafaaaafaaaafaaaafaaaafaaaafaaaafaaaafaaaafaaaafaaaafaaaafaaaafaaaafaaaafaaaafaaaafaaaafaaaafaaaafaaaafaaaafaaaafaaaafaaaafaaaafaaaafaaaafaaaafaaaafaaaafaaaafaaaafaaaafaaaafaaaafaaaafaaaafaaaafaaaafaaaafaaaafaaaafaaaafaaaafaaaafaaaafaaaafaaaafaaaafaaaafaaaafaaaafaaaafaaaafaaaafaaaafaaaafaaaafaaaafaaaafaaaafaaaafaaaafaaaafaaaafaaaafaaaafaaaafaaaafaaaafaaaafaaaafaaaafaaaafaaaafaaaafaaaafaaaafaaaafaaaafaaaafaaaafaaaafaaaafaaaafaaaafaaaafaaaafaaaafaaaafaaaafaaaafaaaafaaaafaaaafaaaafaaaafaaaafaaaafaaaafaaaafaaaafaaaafaaaafaaaafaaaafaaaafaaaafaaaafaaaafaaaafaaaafaaaafaaaafaaaafaaaafaaaafaaaafaaaafaaaafaaaafaaaafaaaafaaaafaaaafaaaafaaaafaaaafaaaafaaaafaaaafaaaafaaaafaaaafaaaafaaaafaaaafaaaafaaaafaaaafaaaafaaaafaaaafaaaafaaaafaaaafaaaafaaaafaaaafaaaafaaaafaaaafaaaafaaaafaaaafaaaafaaaafaaaafaaaafaaaafaaaafaaaafaaaafaaaafaaaafaaaafaaaafaaaafaaaafaaaafaaaafaaaafaaaafaaaafaaaafaaaafaaaafaaaafaaaafaaaafaaaafaaaafaaaafaaaafaaaafaaaafaaaafaaaafaaaafaaaafaaaafaaaafaaaafaaaafaaaafaaaafaaaafaaaafaaaafaaaafaaaafaaaafaaaafaaaafaaaafaaaafaaaafaaaafaaaafaaaafaaaafaaaafaaaafaaaafaaaafaaaafaaaafaaaafaaaafaaaafaaaafaaaafaaaafaaaafaaaafaaaafaaaafaaaafaaaafaaaafaaaafaaaafaaaafaaaafaaaafaaaafaaaafaaaafaaaafaaaafaaaafaaaafaaaafaaaafaaaafaaaafaaaafaaaafaaaafaaaafaaaafaaaafaaaafaaaafaaaafaaaafaaaafaaaafaaaafaaaafaaaafaaaafaaaafaaaafaaaafaaaafaaaafaaaafaaaafaaaafaaaafaaaafaaaafaaaafaaaafaaaafaaaafaaaafaaaafaaaafaaaafaaaafaaaafaaaafaaaafaaaafaaaafaaaafaaaafaaaafaaaafaaaafaaaafaaaafaaaafaaaafaaaafaaaafaaaafaaaafaaaafaaaafaaaafaaaafaaaafaaaafaaaafaaaafaaaafaaaafaaaafaaaafaaaafaaaafaaaafaaaafaaaafaaaafaaaafaaaafaaaafaaaafaaaafaaaafaaaafaaaafaaaafaaaafaaaafaaaafaaaafaaaafaaaafaaaafaaaafaaaafaaaafaaaafaaaafaaaafaaaafaaaafaaaafaaaafaaaafaaaafaaaafaaaafaaaafaaaafaaaafaaaafaaaafaaaafaaaafaaaafaaaafaaaafaaaafaaaafaaaafaaaafaaaafaaaafaaaafaaaafaaaafaaaafaaaafaaaafaaaafaaaafaaaafaaaafaaaafaaaafaaaafaaaafaaaafaaaafaaaafaaaafaaaafaaaafaaaafaaaafaaaafaaaafaaaafaaaafaaaafaaaafaaaafaaaafaaaafaaaafaaaafaaaafaaaafaaaafaaaafaaaafaaaafaaaafaaaafaaaafaaaafaaaafaaaafaaaafaaaafaaaafaaaafaaaafaaaafaaaafaaaafaaaafaaaafaaaafaaaafaaaafaaaafaaaafaaaafaaaafaaaafaaaafaaaafaaaafaaaafaaaafaaaafaaaafaaaafaaaafaaaafaaaafaaaafaaaafaaaafaaaafaaaafaaaafaaaafaaaafaaaafaaaafaaaafaaaafaaaafaaaafaaaafaaaafaaaafaaaafaaaafaaaafaaaafaaaafaaaafaaaafaaaafaaaafaaaafaaaafaaaafaaaafaaaafaaaafaaaafaaaafaaaafaaaafaaaafaaaafaaaafaaaafaaaafaaaafaaaafaaaafaaaafaaaafaaaafaaaafaaaafaaaafaaaafaaaafaaaafaaaafaaaafaaaafaaaafaaaafaaaafaaaafaaaafaaaafaaaafaaaafaaaafaaaafaaaafaaaafaaaafaaaafaaaafaaaafaaaafaaaafaaaafaaaafaaaafaaaafaaaafaaaafaaaafaaaafaaaafaaaafaaaafaaaafaaaafaaaafaaaafaaaafaaaafaaaafaaaafaaaafaaaafaaaafaaaafaaaafaaaafaaaafaaaafaaaafaaaafaaaafaaaafaaaafaaaafaaaafaaaafaaaafaaaafaaaafaaaafaaaafaaaafaaaafaaaafaaaafaaaafaaaafaaaafaaaafaaaafaaaafaaaafaaaafaaaafaaaafaaaafaaaafaaaafaaaafaaaafaaaafaaaafaaaafaaaafaaaafaaaafaaaafaaaafaaaafaaaafaaaafaaaafaaaafaaaafaaaafaaaafaaaafaaaafaaaafaaaafaaaafaaaafaaaafaaaafaaaafaaaafaaaafaaaafaaaafaaaafaaaafaaaafaaaafaaaafaaaafaaaafaaaafaaaafaaaafaaaafaaaafaaaafaaaafaaaafaaaafaaaafaaaafaaaafaaaafaaaafaaaafaaaafaaaafaaaafaaaafaaaafaaaafaaaafaaaafaaaafaaaafaaaafaaaafaaaafaaaafaaaafaaaafaaaafaaaafaaaafaaaafaaaafaaaafaaaafaaaafaaaafaaaafaaaafaaaafaaaafaaaafaaaafaaaafaaaafaaaafaaaafaaaafaaaafaaaafaaaafaaaafaaaafaaaafaaaafaaaafaaaafaaaafaaaafaaaafaaaafaaaafaaaafaaaafaaaafaaaafaaaafaaaafaaaafaaaafaaaafaaaafaaaafaaaafaaaafaaaafaaaafaaaafaaaafaaaafaaaafaaaafaaaafaaaafaaaafaaaafaaaafaaaafaaaafaaaafaaaafaaaafaaaafaaaafaaaafaaaafaaaafaaaafaaaafaaaafaaaafaaaafaaaafaaaafaaaafaaaafaaaafaaaafaaaafaaaafaaaafaaaafaaaafaaaafaaaafaaaafaaaafaaaafaaaafaaaafaaaafaaaafaaaafaaaafaaaafaaaafaaaafaaaafaaaafaaaafaaaafaaaafaaaafaaaafaaaafaaaafaaaafaaaafaaaafaaaafaaaafaaaafaaaafaaaafaaaafaaaafaaaafaaaafaaaafaaaafaaaafaaaafaaaafaaaafaaaafaaaafaaaafaaaafaaaafaaaafaaaafaaaafaaaafaaaafaaaafaaaafaaaafaaaafaaaafaaaafaaaafaaaafaaaafaaaafaaaafaaaafaaaafaaaafaaaafaaaafaaaafaaaafaaaafaaaafaaaafaaaafaaaafaaaafaaaafaaaafaaaafaaaafaaaafaaaafaaaafaaaafaaaafaaaafaaaafaaaafaaaafaaaafaaaafaaaafaaaafaaaafaaaafaaaafaaaafaaaafaaaafaaaafaaaafaaaafaaaafaaaafaaaafaaaafaaaafaaaafaaaafaaaafaaaafaaaafaaaafaaaafaaaafaaaafaaaafaaaafaaaafaaaafaaaafaaaafaaaafaaaafaaaafaaaafaaaafaaaafaaaafaaaafaaaafaadcfaadcfaadcfaadcfaadcfaadcfaadcfaadcfaadcfaadcfaadcfaadcfaadcfaadcfaadcfaadcfaadcfaadcfaadcfaadcfaadcfaadcfaadcfaadcfaadcfaadcfaadcfaadcfaadcfaadcfaadcfaadcfaaaafaaaafaaaafaaaafaaaafaaaafaaaafaaaafaaaafaaaafaaaafaaaafaaaafaaaafaaaafaaaafaaaafaaaafaaaafaaaafaaaafaaaafaaaafaaaafaaaafaaaafaaaafaaaafaaaafaaaafaaaafaaaafaaaafaaaafaaaafaaaafaaaafaaaafaaaafaaaafaaaafaaaafaaaafaaaafaaaafaaaafaaaafaaaafaaaafaaaafaaaafaaaafaaaafaaaafaaaafaaaafaaaafaaaafaaaafaaaafaaaafaaaafaaaafaaaafaaaafaaaafaaaafaaaafaaaafaaaafaaaafaaaafaaaafaaaafaaaafaaaafaaaafaaaafaaaafaaaafaaaafaaaafaaaafaaaafaaaafaaaafaaaafaaaafaaaafaaaafaaaafaaaafaaaafaaaafaaaafaaaafaaaafaaaafaaaafaaaafaaaafaaaafaaaafaaaafaaaafaaaafaaaafaaaafaaaafaaaafaaaafaaaafaaaafaaaafaaaafaaaafaaaafaaaafaaaafaaaafaaaafaaaafaaaafaaaafaaaafaaaafaaaafaaaafaaaafaaaafaaaafaaaafaaaafaaaafaaaafaaaafaaaafaaaafaaaafaaaafaaaafaaaafaaaafaaaafaaaafaaaafaaaafaaaafaaaafaaaafaaaafaaaafaaaafaaaafaaaafaaaafaaaafaaaafaaaafaaaafaaaafaaaafaaaafaaaafaaaafaaaafaaaafaaaafaaaafaaaafaaaafaaaafaaaafaaaafaaaafaaaafaaaafaaaafaaaafaaaafaaaafaaaafaaaafaaaafaaaafaaaafaaaafaaaafaaaafaaaafaaaafaaaafaaaafaaaafaaaafaaaafaaaafaaaafaaaafaaaafaaaafaaaafaaaafaaaafaaaafaaaafaaaafaaaafaaaafaaaafaaaafaaaafaaaafaaaafaaaafaaaafaaaafaaaafaaaafaaaafaaaafaaaafaaaafaaaafaaaafaaaafaaaafaaaafaaaafaaaafaaaafaaaafaaaafaaaafaaaafaaaafaaaafaaaafaaaafaaaafaaaafaaaafaaaafaaaafaaaafaaaafaaaafaaaafaaaafaaaafaaaafaaaafaaaafaaaafaaaafaaaafaaaafaaaafaaaafaaaafaaaafaaaafaaaafaaaafaaaafaaaafaaaafaaaafaaaafaaaafaaaafaaaafaaaafaaaafaaaafaaaafaaaafaaaafaaaafaaaafaaaafaaaafaaaafaaaafaaaafaaaafaaaafaaaafaaaafaaaafaaaafaaaafaaaafaaaafaaaafaaaafaaaafaaaafaaaafaaaafaaaafaaaafaaaafaaaafaaaafaaaafaaaafaaaafaaaafaaaafaaaafaaaafaaaafaaaafaaaafaaaafaaaafaaaafaaaafaaaafaaaafaaaafaaaafaaaafaaaafaaaafaaaafaaaafaaaafaaaafaaaafaaaafaaaafaaaafaaaafaaaafaaaafaaaafaaaafaaaafaaaafaaaafaaaafaaaafaaaafaaaafaaaafaaaafaaaafaaaafaaaafaaaafaaaafaaaafaaaafaaaafaaaafaaaafaaaafaaaafaaaafaaaafaaaafaaaafaaaafaaaafaaaafaaaafaaaafaaaafaaaafaaaafaaaafaaaafaaaafaaaafaaaafaaaafaaaafaaaafaaaafaaaafaaaafaaaafaaaafaaaafaaaafaaaafaaaafaaaafaaaafaaaafaaaafaaaafaaaafaaaafaaaafaaaafaaaafaaaafaaaafaaaafaaaafaaaafaaaafaaaafaaaafaaaafaaaafaaaafaaaafaaaafaaaafaaaafaaaafaaaafaaaafaaaafaaaafaaaafaaaafaaaafaaaafaaaafaaaafaaaafaaaafaaaafaaaafaaaafaaaafaaaafaaaafaaaafaaaafaaaafaaaafaaaafaaaafaaaafaaaafaaaafaaaafaaaafaaaafaaaafaaaafaaaafaaaafaaaafaaaafaaaafaaaafaaaafaaaafaaaafaaaafaaaafaaaafaaaafaaaafaaaafaaaafaaaafaaaafaaaafaaaafaaaafaaaafaaaafaaaafaaaafaaaafaaaafaaaafaaaafaaaafaaaafaaaafaaaafaaaafaaaafaaaafaaaafaaaafaaaafaaaafaaaafaaaafaaaafaaaafaaaafaaaafaaaafaaaafaaaafaaaafaaaafaaaafaaaafaaaafaaaafaaaafaaaafaaaafaaaafaaaafaaaafaaaafaaaafaaaafaaaafaaaafaaaafaaaafaaaafaaaafaaaafaaaafaaaafaaaafaaaafaaaafaaaafaaaafaaaafaaaafaaaafaaaafaaaafaaaafaaaafaaaafaaaafaaaafaaaafaaaafaaaafaaaafaaaafaaaafaaaafaaaafaaaafaaaafaaaafaaaafaaaafaaaafaaaafaaaafaaaafaaaafaaaafaaaafaaaafaaaafaaaafaaaafaaaafaaaafaaaafaaaafaaaafaaaafaaaafaaaafaaaafaaaafaaaafaaaafaaaafaaaafaaaafaaaafaaaafaaaafaaaafaaaafaaaafaaaafaaaafaaaafaaaafaaaafaaaafaaaafaaaafaaaafaaaafaaaafaaaafaaaafaaaafaaaafaaaafaaaafaaaafaaaafaaaafaaaafaaaafaaaafaaaafaaaafaaaafaaaafaaaafaaaafaaaafaaaafaaaafaaaafaaaafaaaafaaaafaaaafaaaafaaaafaaaafaaaafaaaafaaaafaaaafaaaafaaaafaaaafaaaafaaaafaaaafaaaafaaaafaaaafaaaafaaaafaaaafaaaafaaaafaaaafaaaafaaaafaaaafaaaafaaaafaaaafaaaafaaaafaaaafaaaafaaaafaaaafaaaafaaaafaaaafaaaafaaaafaaaafaaaafaaaafaaaafaaaafaaaafaaaafaaaafaaaafaaaafaaaafaaaafaaaafaaaafaaaafaaaafaaaafaaaafaaaafaaaafaaaafaaaafaaaafaaaafaaaafaaaafaaaafaaaafaaaafaaaafaaaafaaaafaaaafaaaafaaaafaaaafaaaafaaaafaaaafaaaafaaaafaaaafaaaafaaaafaaaafaaaafaaaafaaaafaaaafaaaafaaaafaaaafaaaafaaaafaaaafaaaafaaaafaaaafaaaafaaaafaaaafaaaafaaaafaaaafaaaafaaaafaaaafaaaafaaaafaaaafaaaafaaaafaaaafaaaafaaaafaaaafaaaafaaaafaaaafaaaafaaaafaaaafaaaafaaaafaaaafaaaafaaaafaaaafaaaafaaaafaaaafaaaafaaaafaaaafaaaafaaaafaaaafaaaafaaaafaaaafaaaafaaaafaaaafaaaafaaaafaaaafaaaafaaaafaaaafaaaafaaaafaaaafaaaafaaaafaaaafaaaafaaaafaaaafaaaafaaaafaaaafaaaafaaaafaaaafaaaafaaaafaaaafaaaafaaaafaaaafaaaafaaaafaaaafaaaafaaaafaaaafaaaafaaaafaaaafaaaafaaaafaaaafaaaafaaaafaaaafaaaafaaaafaaaafaaaafaaaafaaaafaaaafaaaafaaaafaaaafaaaafaaaafaaaafaaaafaaaafaaaafaaaafaaaafaaaafaaaafaaaafaaaafaaaafaaaafaaaafaaaafaaaafaaaafaaaafaaaafaaaafaaaafaaaafaaaafaaaafaaaafaaaafaaaafaaaafaaaafaaaafaaaafaaaafaaaafaaaafaaaafaaaafaaaafaaaafaaaafaaaafaaaafaaaafaaaafaaaafaaaafaaaafaaaafaaaafaaaafaaaafaaaafaaaafaaaafaaaafaaaafaaaafaaaafaaaafaaaafaaaafaaaafaaaafaaaafaaaafaaaafaaaafaaaafaaaafaaaafaaaafaaaafaaaafaaaafaaaafaaaafaaaafaaaafaaaafaaaafaaaafaaaafaaaafaaaafaaaafaaaafaaaafaaaafaaaafaaaafaaaafaaaafaaaafaaaafaaaafaaaafaaaafaaaafaaaafaaaafaaaafaaaafaaaafaaaafaaaafaaaafaaaafaaaafaaaafaaaafaaaafaaaafaaaafaaaafaaaafaaaafaaaafaaaafaaaafaaaafaaaafaaaafaaaafaaaafaaaafaaaafaaaafaaaafaaaafaaaafaaaafaaaafaaaafaaaafaaaafaaaafaaaafaaaafaaaafaaaafaaaafaaaafaaaafaaaafaaaafaaaafaaaafaaaafaaaafaaaafaaaafaaaafaaaafaaaafaaaafaaaafaaaafaaaafaaaafaaaafaaaafaaaafaaaafaaaafaaaafaaaafaaaafaaaafaaaafaaaafaaaafaaaafaaaafaaaafaaaafaaaafaaaafaaaafaaaafaaaafaaaafaaaafaaaafaaaafaaaafaaaafaaaafaaaafaaaafaaaafaaaafaaaafaaaafaaaafaaaafaaaafaaaafaaaafaaaafaaaafaaaafaaaafaaaafaaaafaaaafaaaafaaaafaaaafaaaafaaaafaaaafaaaafaaaafaaaafaaaafaaaafaaaafaaaafaaaafaaaafaaaafaaaafaaaafaaaafaaaafaaaafaaaafaaaafaaaafaaaafaaaafaaaafaaaafaaaafaaaafaaaafaaaafaaaafaaaafaaaafaaaafaaaafaaaafaaaafaaaafaaaafaaaafaaaafaaaafaaaafaaaafaaaafaaaafaaaafaaaafaaaafaaaafaaaafaaaafaaaafaaaafaaaafaaaafaaaafaaaafaaaafaaaafaaaafaaaafaaaafaaaafaaaafaaaafaaaafaaaafaaaafaaaafaaaafaaaafaaaafaaaafaaaafaaaafaaaafaaaafaaaafaaaafaaaafaaaafaaaafaaaafaaaafaaaafaaaafaaaafaaaafaaaafaaaafaaaafaaaafaaaafaaaafaaaafaaaafaaaafaaaafaaaafaaaafaaaafaaaafaaaafaaaafaaaafaaaafaaaafaaaafaaaafaaaafaaaafaaaafaaaafaaaafaaaafaaaafaaaafaaaafaaaafaaaafaaaafaaaafaaaafaaaafaaaafaaaafaaaafaaaafaaaafaaaafaaaafaaaafaaaafaaaafaaaafaaaafaaaafaaaafaaaafaaaafaaaafaaaafaaaafaaaafaaaafaaaafaaaafaaaafaaaafaaaafaaaafaaaafaaaafaaaafaaaafaaaafaaaafaaaafaaaafaaaafaaaafaaaafaaaafaaaafaaaafaaaafaaaafaaaafaaaafaaaafaaaafaaaafaaaafaaaafaaaafaaaafaaaafaaaafaaaafaaaafaaaafaaaafaaaafaaaafaaaafaaaafaaaafaaaafaaaafaaaafaaaafaaaafaaaafaaaafaaaafaaaafaaaafaaaafaaaafaaaafaaaafaaaafaaaafaaaafaaaafaaaafaaaafaaaafaaaafaaaafaaaafaaaafaaaafaaaafaaaafaaaafaaaafaaaafaaaafaaaafaaaafaaaafaaaafaaaafaaaafaaaafaaaafaaaafaaaafaaaafaaaafaaaafaaaafaaaafaaaafaaaafaaaafaaaafaaaafaaaafaaaafaaaafaaaafaaaafaaaafaaaafaaaafaaaafaaaafaaaafaaaafaaaafaaaafaaaafaaaafaaaafaaaafaaaafaaaafaaaafaaaafaaaafaaaafaaaafaaaafaaaafaaaafaaaafaaaafaaaafaaaafaaaafaaaafaaaafaaaafaaaafaaaafaaaafaaaafaaaafaaaafaaaafaaaafaaaafaaaafaaaafaaaafaaaafaaaafaaaafaaaafaaaafaaaafaaaafaaaafaaaafaaaafaaaafaaaafaaaafaaaafaaaafaaaafaaaafaaaafaaaafaaaafaaaafaaaafaaaafaaaafaaaafaaaafaaaafaaaafaaaafaaaafaaaafaaaafaaaafaaaafaaaafaaaafaaaafaaaafaaaafaaaafaaaafaaaafaaaafaaaafaaaafaaaafaaaafaaaafaaaafaaaafaaaafaaaafaaaafaaaafaaaafaaaafaaaafaaaafaaaafaaaafaaaafaaaafaaaafaaaafaaaafaaaafaaaafaaaafaaaafaaaafaaaafaaaafaaaafaaaafaaaafaaaafaaaafaaaafaaaafaaaafaaaafaaaafaaaafaaaafaaaafaaaafaaaafaaaafaaaafaaaafaaaafaaaafaaaafaaaafaaaafaaaafaaaafaaaafaaaafaaaafaaaafaaaafaaaafaaaafaaaafaaaafaaaafaaaafaaaafaaaafaaaafaaaafaaaafaaaafaaaafaaaafaaaafaaaafaaaafaaaafaaaafaaaafaaaafaaaafaaaafaaaafaaaafaaaafaaaafaaaafaaaafaaaafaaaafaaaafaaaafaaaafaaaafaaaafaaaafaaaafaaaafaaaafaaaafaaaafaaaafaaaafaaaafaaaafaaaafaaaafaaaafaaaafaaaafaaaafaaaafaaaafaaaafaaaafaaaafaaaafaaaafaaaafaaaafaaaafaaaafaaaafaaaafaaaafaaaafaaaafaaaafaaaafaaaafaaaafaaaafaaaafaaaafaaaafaaaafaaaafaaaafaaaafaaaafaaaafaaaafaaaafaaaafaaaafaaaafaaaafaaaafaaaafaaaafaaaafaaaafaaaafaaaafaaaafaaaafaaaafaaaafaaaafaaaafaaaafaaaafaaaafaaaafaaaafaaaafaaaafaaaafaaaafaaaafaaaafaaaafaaaafaaaafaaaafaaaafaaaafaaaafaaaafaaaafaaaafaaaafaaaafaaaafaaaafaaaafaaaafaaaafaaaafaaaafaaaafaaaafaaaafaaaafaaaafaaaafaaaafaaaafaaaafaaaafaaaafaaaafaaaafaaaafaaaafaaaafaaaafaaaafaaaafaaaafaaaafaaaafaaaafaaaafaaaafaaaafaaaafaaaafaaaafaaaafaaaafaaaafaaaafaaaafaaaafaaaafaaaafaaaafaaaafaaaafaaaafaaaafaaaafaaaafaaaafaaaafaaaafaaaafaaaafaaaafaaaafaaaafaaaafaaaafaaaafaaaafaaaafaaaafaaaafaaaafaaaafaaaafaaaafaaaafaaaafaaaafaaaafaaaafaaaafaaaafaaaafaaaafaaaafaaaafaaaafaaaafaaaafaaaafaaaafaaaafaaaafaaaafaaaafaaaafaaaafaaaafaaaafaaaafaaaafaaaafaaaafaaaafaaaafaaaafaaaafaaaafaaaafaaaafaaaafaaaafaaaafaaaafaaaafaaaafaaaafaaaafaaaafaaaafaaaafaaaafaaaafaaaafaaaafaaaafaaaafaaaafaaaafaaaafaaaafaaaafaaaafaaaafaaaafaaaafaaaafaaaafaaaafaaaafaaaafaaaafaaaafaaaafaaaafaaaafaaaafaaaafaaaafaaaafaaaafaaaafaaaafaaaafaaaafaaaafaaaafaaaafaaaafaaaafaaaafaaaafaaaafaaaafaaaafaaaafaaaafaaaafaaaafaaaafaaaafaaaafaaaafaaaafaaaafaaaafaaaafaaaafaaaafaaaafaaaafaaaafaaaafaaaafaaaafaaaafaaaafaaaafaaaafaaaafaaaafaaaafaaaafaaaafaaaafaaaafaaaafaaaafaaaafaaaafaaaafaaaafaaaafaaaafaaaafaaaafaaaafaaaafaaaafaaaafaaaafaaaafaaaafaaaafaaaafaaaafaaaafaaaafaaaafaaaafaaaafaaaafaaaafaaaafaaaafaaaafaaaafaaaafaaaafaaaafaaaafaaaafaaaafaaaafaaaafaaaafaaaafaaaafaaaafaaaafaaaafaaaafaaaafaaaafaaaafaaaafaaaafaaaafaaaafaaaafaaaafaaaafaaaafaaaafaaaafaaaafaaaafaaaafaaaafaaaafaaaafaaaafaaaafaaaafaaaafaaaafaaaafaaaafaaaafaaaafaaaafaaaafaaaafaaaafaaaafaaaafaaaafaaaafaaaafaaaafaaaafaaaafaaaafaaaafaaaafaaaafaaaafaaaafaaaafaaaafaaaafaaaafaaaafaaaafaaaafaaaafaaaafaaaafaaaafaaaafaaaafaaaafaaaafaaaafaaaafaaaafaaaafaaaafaaaafaaaafaaaafaaaafaaaafaaaafaaaafaaaafaaaafaaaafaaaafaaaafaaaafaaaafaaaafaaaafaaaafaaaafaaaafaaaafaaaafaaaafaaaafaaaafaaaafaaaafaaaafaaaafaaaafaaaafaaaafaaaafaaaafaaaafaaaafaaaafaaaafaaaafaaaafaaaafaaaafaaaafaaaafaaaafaaaafaaaafaaaafaaaafaaaafaaaafaaaafaaaafaaaafaaaafaaaafaaaafaaaafaaaafaaaafaaaafaaaafaaaafaaaafaaaafaaaafaaaafaaaafaaaafaaaafaaaafaaaafaaaafaaaafaaaafaaaafaaaafaaaafaaaafaaaafaaaafaaaafaaaafaaaafaaaafaaaafaaaafaaaafaaaafaaaafaaaafaaaafaaaafaaaafaaaafaaaafaaaafaaaafaaaafaaaafaaaafaaaafaaaafaaaafaaaafaaaafaaaafaaaafaaaafaaaafaaaafaaaafaaaafaaaafaaaafaaaafaaaafaaaafaaaafaaaafaaaafaaaafaaaafaaaafaaaafaaaafaaaafaaaafaaaafaaaafaaaafaaaafaaaafaaaafaaaafaaaafaaaafaaaafaaaafaaaafaaaafaaaafaaaafaaaafaaaafaaaafaaaafaaaafaaaafaaaafaaaafaaaafaaaafaaaafaaaafaaaafaaaafaaaafaaaafaaaafaaaafaaaafaaaafaaaafaaaafaaaafaaaafaaaafaaaafaaaafaaaafaaaafaaaafaaaafaaaafaaaafaaaafaaaafaaaafaaaafaaaafaaaafaaaafaaaafaaaafaaaafaaaafaaaafaaaafaaaafaaaafaaaafaaaafaaaafaaaafaaaafaaaafaaaafaaaafaaaafaaaafaaaafaaaafaaaafaaaafaaaafaaaafaaaafaaaafaaaafaaaafaaaafaaaafaaaafaaaafaaaafaaaafaaaafaaaafaaaafaaaafaaaafaaaafaaaafaaaafaaaafaaaafaaaafaaaafaaaafaaaafaaaafaaaafaaaafaaaafaaaafaaaafaaaafaaaafaaaafaaaafaaaafaaaafaaaafaaaafaaaafaaaafaaaafaaaafaaaafaaaafaaaafaaaafaaaafaaaafaaaafaaaafaaaafaaaafaaaafaaaafaaaafaaaafaaaafaaaafaaaafaaaafaaaafaaaafaaaafaaaafaaaafaaaafaaaafaaaafaaaafaaaafaaaafaaaafaaaafaaaafaaaafaaaafaaaafaaaafaaaafaaaafaaaafaaaafaaaafaaaafaaaafaaaafaaaafaaaafaaaafaaaafaaaafaaaafaaaafaaaafaaaafaaaafaaaafaaaafaaaafaaaafaaaafaaaafaaaafaaaafaaaafaaaafaaaafaaaafaaaafaaaafaaaafaaaafaaaafaaaafaaaafaaaafaaaafaaaafaaaafaaaafaaaafaaaafaaaafaaaafaaaafaaaafaaaafaaaafaaaafaaaafaaaafaaaafaaaafaaaafaaaafaaaafaaaafaaaafaaaafaaaafaaaafaaaafaaaafaaaafaaaafaaaafaaaafaaaafaaaafaaaafaaaafaaaafaaaafaaaafaaaafaaaafaaaafaaaafaaaafaaaafaaaafaaaafaaaafaaaafaaaafaaaafaaaafaaaafaaaafaaaafaaaafaaaafaaaafaaaafaaaafaaaafaaaafaaaafaaaafaaaafaaaafaaaafaaaafaaaafaaaafaaaafaaaafaaaafaaaafaaaafaaaafaaaafaaaafaaaafaaaafaaaafaaaafaaaafaaaafaaaafaaaafaaaafaaaafaaaafaaaafaaaafaaaafaaaafaaaafaaaafaaaafaaaafaaaafaaaafaaaafaaaafaaaafaaaafaaaafaaaafaaaafaaaafaaaafaaaafaaaafaaaafaaaafaaaafaaaafaaaafaaaafaaaafaaaafaaaafaaaafaaaafaaaafaaaafaaaafaaaafaaaafaaaafaaaafaaaafaaaafaaaafaaaafaaaafaaaafaaaafaaaafaaaafaaaafaaaafaaaafaaaafaaaafaaaafaaaafaaaafaaaafaaaafaaaafaaaafaaaafaaaafaaaafaaaafaaaafaaaafaaaafaaaafaaaafaaaafaaaafaaaafaaaafaaaafaaaafaaaafaaaafaaaafaaaafaaaafaaaafaaaafaaaafaaaafaaaafaaaafaaaafaaaafaaaafaaaafaaaafaaaafaaaafaaaafaaaafaaaafaaaafaaaafaaaafaaaafaaaafaaaafaaaafaaaafaaaafaaaafaaaafaaaafaaaafaaaafaaaafaaaafaaaafaaaafaaaafaaaafaaaafaaaafaaaafaaaafaaaafaaaafaaaafaaaafaaaafaaaafaaaafaaaafaaaafaaaafaaaafaaaafaaaafaaaafaaaafaaaafaaaafaaaafaaaafaaaafaaaafaaaafaaaafaaaafaaaafaaaafaaaafaaaafaaaafaaaafaaaafaaaafaaaafaaaafaaaafaaaafaaaafaaaafaaaafaaaafaaaafaaaafaaaafaaaafaaaafaaaafaaaafaaaafaaaafaaaafaaaafaaaafaaaafaaaafaaaafaaaafaaaafaaaafaaaafaaaafaaaafaaaafaaaafaaaafaaaafaaaafaaaafaaaafaaaafaaaafaaaafaaaafaaaafaaaafaaaafaaaafaaaafaaaafaaaafaaaafaaaafaaaafaaaafaaaafaaaafaaaafaaaafaaaafaaaafaaaafaaaafaaaafaaaafaaaafaaaafaaaafaaaafaaaafaaaafaaaafaaaafaaaafaaaafaaaafaaaafaaaafaaaafaaaafaaaafaaaafaaaafaaaafaaaafaaaafaaaafaaaafaaaafaaaafaaaafaaaafaaaafaaaafaaaafaaaafaaaafaaaafaaaafaaaafaaaafaaaafaaaafaaaafaaaafaaaafaaaafaaaafaaaafaaaafaaaafaaaafaaaafaaaafaaaafaaaafaaaafaaaafaaaafaaaafaaaafaaaafaaaafaaaafaaaafaaaafaaaafaaaafaaaafaaaafaaaafaaaafaaaafaaaafaaaafaaaafaaaafaaaafaaaafaaaafaaaafaaaafaaaafaaaafaaaafaaaafaaaafaaaafaaaafaaaafaaaafaaaafaaaafaaaafaaaafaaaafaaaafaaaafaaaafaaaafaaaafaaaafaaaafaaaafaaaafaaaafaaaafaaaafaaaafaaaafaaaafaaaafaaaafaaaafaaaafaaaafaaaafaaaafaaaafaaaafaaaafaaaafaaaafaaaafaaaafaaaafaaaafaaaafaaaafaaaafaaaafaaaafaaaafaaaafaaaafaaaafaaaafaaaafaaaafaaaafaaaafaaaafaaaafaaaafaaaafaaaafaaaafaaaafaaaafaaaafaaaafaaaafaaaafaaaafaaaafaaaafaaaafaaaafaaaafaaaafaaaafaaaafaaaafaaaafaaaafaaaafaaaafaaaafaaaafaaaafaaaafaaaafaaaafaaaafaaaafaaaafaaaafaaaafaaaafaaaafaaaafaaaafaaaafaaaafaaaafaaaafaaaafaaaafaaaafaaaafaaaafaaaafaaaafaaaafaaaafaaaafaaaafaaaafaaaafaaaafaaaafaaaafaaaafaaaafaaaafaaaafaaaafaaaafaaaafaaaafaaaafaaaafaaaafaaaafaaaafaaaafaaaafaaaafaaaafaaaafaaaafaaaafaaaafaaaafaaaafaaaafaaaafaaaafaaaafaaaafaaaafaaaafaaaafaaaafaaaafaaaafaaaafaaaafaaaafaaaafaaaafaaaafaaaafaaaafaaaafaaaafaaaafaaaafaaaafaaaafaaaafaaaafaaaafaaaafaaaafaaaafaaaafaaaafaaaafaaaafaaaafaaaafaaaafaaaafaaaafaaaafaaaafaaaafaaaafaaaafaaaafaaaafaaaafaaaafaaaafaaaafaaaafaaaafaaaafaaaafaaaafaaaafaaaafaaaafaaaafaaaafaaaafaaaafaaaafaaaafaaaafaaaafaaaafaaaafaaaafaaaafaaaafaaaafaaaafaaaafaaaafaaaafaaaafaaaafaaaafaaaafaaaafaaaafaaaafaaaafaaaafaaaafaaaafaaaafaaaafaaaafaaaafaaaafaaaafaaaafaaaafaaaafaaaafaaaafaaaafaaaafaaaafaaaafaaaafaaaafaaaafaaaafaaaafaaaafaaaafaaaafaaaafaaaafaaaafaaaafaaaafaaaafaaaafaaaafaaaafaaaafaaaafaaaafaaaafaaaafaaaafaaaafaaaafaaaafaaaafaaaafaaaafaaaafaaaafaaaafaaaafaaaafaaaafaaaafaaaafaaaafaaaafaaaafaaaafaaaafaaaafaaaafaaaafaaaafaaaafaaaafaaaafaaaafaaaafaaaafaaaafaaaafaaaafaaaafaaaafaaaafaaaafaaaafaaaafaaaafaaaafaaaafaaaafaaaafaaaafaaaafaaaafaaaafaaaafaaaafaaaafaaaafaaaafaaaafaaaafaaaafaaaafaaaafaaaafaaaafaaaafaaaafaaaafaaaafaaaafaaaafaaaafaaaafaaaafaaaafaaaafaaaafaaaafaaaafaaaafaaaafaaaafaaaafaaaafaaaafaaaafaaaafaaaafaaaafaaaafaaaafaaaafaaaafaaaafaaaafaaaafaaaafaaaafaaaafaaaafaaaafaaaafaaaafaaaafaaaafaaaafaaaafaaaafaaaafaaaafaaaafaaaafaaaafaaaafaaaafaaaafaaaafaaaafaaaafaaaafaaaafaaaafaaaafaaaafaaaafaaaafaaaafaaaafaaaafaaaafaaaafaaaafaaaafaaaafaaaafaaaafaaaafaaaafaaaafaaaafaaaafaaaafaaaafaaaafaaaafaaaafaaaafaaaafaaaafaaaafaaaafaaaafaaaafaaaafaaaafaaaafaaaafaaaafaaaafaaaafaaaafaaaafaaaafaaaafaaaafaaaafaaaafaaaafaaaafaaaafaaaafaaaafaaaafaaaafaaaafaaaafaaaafaaaafaaaafaaaafaaaafaaaafaaaafaaaafaaaafaaaafaaaafaaaafaaaafaaaafaaaafaaaafaaaafaaaafaaaafaaaafaaaafaaaafaaaafaaaafaaaafaaaafaaaafaaaafaaaafaaaafaaaafaaaafaaaafaaaafaaaafaaaafaaaafaaaafaaaafaaaafaaaafaaaafaaaafaaaafaaaafaaaafaaaafaaaafaaaafaaaafaaaafaaaafaaaafaaaafaaaafaaaafaaaafaaaafaaaafaaaafaaaafaaaafaaaafaaaafaaaafaaaafaaaafaaaafaaaafaaaafaaaafaaaafaaaafaaaafaaaafaaaafaaaafaaaafaaaafaaaafaaaafaaaafaaaafaaaafaaaafaaaafaaaafaaaafaaaafaaaafaaaafaaaafaaaafaaaafaaaafaaaafaaaafaaaafaaaafaaaafaaaafaaaafaaaafaaaafaaaafaaaafaaaafaaaafaaaafaaaafaaaafaaaafaaaafaaaafaaaafaaaafaaaafaaaafaaaafaaaafaaaafaaaafaaaafaaaafaaaafaaaafaaaafaaaafaaaafaaaafaaaafaaaafaaaafaaaafaaaafaaaafaaaafaaaafaaaafaaaafaaaafaaaafaaaafaaaafaaaafaaaafaaaafaaaafaaaafaaaafaaaafaaaafaaaafaaaafaaaafaaaafaaaafaaaafaaaafaaaafaaaafaaaafaaaafaaaafaaaafaaaafaaaafaaaafaaaafaaaafaaaafaaaafaaaafaaaafaaaafaaaafaaaafaaaafaaaafaaaafaaaafaaaafaaaafaaaafaaaafaaaafaaaafaaaafaaaafaaaafaaaafaaaafaaaafaaaafaaaafaaaafaaaafaaaafaaaafaaaafaaaafaaaafaaaafaaaafaaaafaaaafaaaafaaaafaaaafaaaafaaaafaaaafaaaafaaaafaaaafaaaafaaaafaaaafaaaafaaaafaaaafaaaafaaaafaaaafaaaafaaaafaaaafaaaafaaaafaaaafaaaafaaaafaaaafaaaafaaaafaaaafaaaafaaaafaaaafaaaafaaaafaaaafaaaafaaaafaaaafaaaafaaaafaaaafaaaafaaaafaaaafaaaafaaaafaaaafaaaafaaaafaaaafaaaafaaaafaaaafaaaafaaaafaaaafaaaafaaaafaaaafaaaafaaaafaaaafaaaafaaaafaaaafaaaafaaaafaaaafaaaafaaaafaaaafaaaafaaaafaaaafaaaafaaaafaaaafaaaafaaaafaaaafaaaafaaaafaaaafaaaafaaaafaaaafaaaafaaaafaaaafaaaafaaaafaaaafaaaafaaaafaaaafaaaafaaaafaaaafaaaafaaaafaaaafaaaafaaaafaaaafaaaafaaaafaaaafaaaafaaaafaaaafaaaafaaaafaaaafaaaafaaaafaaaafaaaafaaaafaaaafaaaafaaaafaaaafaaaafaaaafaaaafaaaafaaaafaaaafaaaafaaaafaaaafaaaafaaaafaaaafaaaafaaaafaaaafaaaafaaaafaaaafaaaafaaaafaaaafaaaafaaaafaaaafaaaafaaaafaaaafaaaafaaaafaaaafaaaafaaaafaaaafaaaafaaaafaaaafaaaafaaaafaaaafaaaafaaaafaaaafaaaafaaaafaaaafaaaafaaaafaaaafaaaafaaaafaaaafaaaafaaaafaaaafaaaafaaaafaaaafaaaafaaaafaaaafaaaafaaaafaaaafaaaafaaaafaaaafaaaafaaaafaaaafaaaafaaaafaaaafaaaafaaaafaaaafaaaafaaaafaaaafaaaafaaaafaaaafaaaafaaaafaaaafaaaafaaaafaaaafaaaafaaaafaaaafaaaafaaaafaaaafaaaafaaaafaaaafaaaafaaaafaaaafaaaafaaaafaaaafaaaafaaaafaaaafaaaafaaaafaaaafaaaafaaaafaaaafaaaafaaaafaaaafaaaafaaaafaaaafaaaafaaaafaaaafaaaafaaaafaaaafaaaafaaaafaaaafaaaafaaaafaaaafaaaafaaaafaaaafaaaafaaaafaaaafaaaafaaaafaaaafaaaafaaaafaaaafaaaafaaaafaaaafaaaafaaaafaaaafaaaafaaaafaaaafaaaafaaaafaaaafaaaafaaaafaaaafaaaafaaaafaaaafaaaafaaaafaaaafaaaafaaaafaaaafaaaafaaaafaaaafaaaafaaaafaaaafaaaafaaaafaaaafaaaafaaaafaaaafaaaafaaaafaaaafaaaafaaaafaaaafaaaafaaaafaaaafaaaafaaaafaaaafaaaafaaaafaaaafaaaafaaaafaaaafaaaafaaaafaaaafaaaafaaaafaaaafaaaafaaaafaaaafaaaafaaaafaaaafaaaafaaaafaaaafaaaafaaaafaaaafaaaafaaaafaaaafaaaafaaaafaaaafaaaafaaaafaaaafaaaafaaaafaaaafaaaafaaaafaaaafaaaafaaaafaaaafaaaafaaaafaaaafaaaafaaaafaaaafaaaafaaaafaaaafaaaafaaaafaaaafaaaafaaaafaaaafaaaafaaaafaaaafaaaafaaaafaaaafaaaafaaaafaaaafaaaafaaaafaaaafaaaafaaaafaaaafaaaafaaaafaaaafaaaafaaaafaaaafaaaafaaaafaaaafaaaafaaaafaaaafaaaafaaaafaaaafaaaafaaaafaaaafaaaafaaaafaaaafaaaafaaaafaaaafaaaafaaaafaaaafaaaafaaaafaaaafaaaafaaaafaaaafaaaafaaaafaaaafaaaafaaaafaaaafaaaafaaaafaaaafaaaafaaaafaaaafaaaafaaaafaaaafaaaafaaaafaaaafaaaafaaaafaaaafaaaafaaaafaaaafaaaafaaaafaaaafaaaafaaaafaaaafaaaafaaaafaaaafaaaafaaaafaaaafaaaafaaaafaaaafaaaafaaaafaaaafaaaafaaaafaaaafaaaafaaaafaaaafaaaafaaaafaaaafaaaafaaaafaaaafaaaafaaaafaaaafaaaafaaaafaaaafaaaafaaaafaaaafaaaafaaaafaaaafaaaafaaaafaaaafaaaafaaaafaaaafaaaafaaaafaaaafaaaafaaaafaaaafaaaafaaaafaaaafaaaafaaaafaaaafaaaafaaaafaaaafaaaafaaaafaaaafaaaafaaaafaaaafaaaafaaaafaaaafaaaafaaaafaaaafaaaafaaaafaaaafaaaafaaaafaaaafaaaafaaaafaaaafaaaafaaaafaaaafaaaafaaaafaaaafaaaafaaaafaaaafaaaafaaaafaaaafaaaafaaaafaaaafaaaafaaaafaaaafaaaafaaaafaaaafaaaafaaaafaaaafaaaafaaaafaaaafaaaafaaaafaaaafaaaafaaaafaaaafaaaafaaaafaaaafaaaafaaaafaaaafaaaafaaaafaaaafaaaafaaaafaaaafaaaafaaaafaaaafaaaafaaaafaaaafaaaafaaaafaaaafaaaafaaaafaaaafaaaafaaaafaaaafaaaafaaaafaaaafaaaafaaaafaaaafaaaafaaaafaaaafaaaafaaaafaaaafaaaafaaaafaaaafaaaafaaaafaaaafaaaafaaaafaaaafaaaafaaaafaaaafaaaafaaaafaaaafaaaafaaaafaaaafaaaafaaaafaaaafaaaafaaaafaaaafaaaafaaaafaaaafaaaafaaaafaaaafaaaafaaaafaaaafaaaafaaaafaaaafaaaafaaaafaaaafaaaafaaaafaaaafaaaafaaaafaaaafaaaafaaaafaaaafaaaafaaaafaaaafaaaafaaaafaaaafaaaafaaaafaaaafaaaafaaaafaaaafaaaafaaaafaaaafaaaafaaaafaaaafaaaafaaaafaaaafaaaafaaaafaaaafaaaafaaaafaaaafaaaafaaaafaaaafaaaafaaaafaaaafaaaafaaaafaaaafaaaafaaaafaaaafaaaafaaaafaaaafaaaafaaaafaaaafaaaafaaaafaaaafaaaafaaaafaaaafaaaafaaaafaaaafaaaafaaaafaaaafaaaafaaaafaaaafaaaafaaaafaaaafaaaafaaaafaaaafaaaafaaaafaaaafaaaafaaaafaaaafaaaafaaaafaaaafaaaafaaaafaaaafaaaafaaaafaaaafaaaafaaaafaaaafaaaafaaaafaaaafaaaafaaaafaaaafaaaafaaaafaaaafaaaafaaaafaaaafaaaafaaaafaaaafaaaafaaaafaaaafaaaafaaaafaaaafaaaafaaaafaaaafaaaafaaaafaaaafaaaafaaaafaaaafaaaafaaaafaaaafaaaafaaaafaaaafaaaafaaaafaaaafaaaafaaaafaaaafaaaafaaaafaaaafaaaafaaaafaaaafaaaafaaaafaaaafaaaafaaaafaaaafaaaafaaaafaaaafaaaafaaaafaaaafaaaafaaaafaaaafaaaafaaaafaaaafaaaafaaaafaaaafaaaafaaaafaaaafaaaafaaaafaaaafaaaafaaaafaaaafaaaafaaaafaaaafaaaafaaaafaaaafaaaafaaaafaaaafaaaafaaaafaaaafaaaafaaaafaaaafaaaafaaaafaaaafaaaafaaaafaaaafaaaafaaaafaaaafaaaafaaaafaaaafaaaafaaaafaaaafaaaafaaaafaaaafaaaafaaaafaaaafaaaafaaaafaaaafaaaafaaaafaaaafaaaafaaaafaaaafaaaafaaaafaaaafaaaafaaaafaaaafaaaafaaaafaaaafaaaafaaaafaaaafaaaafaaaafaaaafaaaafaaaafaaaafaaaafaaaafaaaafaaaafaaaafaaaafaaaafaaaafaaaafaaaafaaaafaaaafaaaafaaaafaaaafaaaafaaaafaaaafaaaafaaaafaaaafaaaafaaaafaaaafaaaafaaaafaaaafaaaafaaaafaaaafaaaafaaaafaaaafaaaafaaaafaaaafaaaafaaaafaaaafaaaafaaaafaaaafaaaafaaaafaaaafaaaafaaaafaaaafaaaafaaaafaaaafaaaafaaaafaaaafaaaafaaaafaaaafaaaafaaaafaaaafaaaafaaaafaaaafaaaafaaaafaaaafaaaafaaaafaaaafaaaafaaaafaaaafaaaafaaaafaaaafaaaafaaaafaaaafaaaafaaaafaaaafaaaafaaaafaaaafaaaafaaaafaaaafaaaafaaaafaaaafaaaafaaaafaaaafaaaafaaaafaaaafaaaafaaaafaaaafaaaafaaaafaaaafaaaafaaaafaaaafaaaafaaaafaaaafaaaafaaaafaaaafaaaafaaaafaaaafaaaafaaaafaaaafaaaafaaaafaaaafaaaafaaaafaaaafaaaafaaaafaaaafaaaafaaaafaaaafaaaafaaaafaaaafaaaafaaaafaaaafaaaafaaaafaaaafaaaafaaaafaaaafaaaafaaaafaaaafaaaafaaaafaaaafaaaafaaaafaaaafaaaafaaaafaaaafaaaafaaaafaaaafaaaafaaaafaaaafaaaafaaaafaaaafaaaafaaaafaaaafaaaafaaaafaaaafaaaafaaaafaaaafaaaafaaaafaaaafaaaafaaaafaaaafaaaafaaaafaaaafaaaafaaaafaaaafaaaafaaaafaaaafaaaafaaaafaaaafaaaafaaaafaaaafaaaafaaaafaaaafaaaafaaaafaaaafaaaafaaaafaaaafaaaafaaaafaaaafaaaafaaaafaaaafaaaafaaaafaaaafaaaafaaaafaaaafaaaafaaaafaaaafaaaafaaaafaaaafaaaafaaaafaaaafaaaafaaaafaaaafaaaafaaaafaaaafaaaafaaaafaaaafaaaafaaaafaaaafaaaafaaaafaaaafaaaafaaaafaaaafaaaafaaaafaaaafaaaafaaaafaaaafaaaafaaaafaaaafaaaafaaaafaaaafaaaafaaaafaaaafaaaafaaaafaaaafaaaafaaaafaaaafaaaafaaaafaaaafaaaafaaaafaaaafaaaafaaaafaaaafaaaafaaaafaaaafaaaafaaaafaaaafaaaafaaaafaaaafaaaafaaaafaaaafaaaafaaaafaaaafaaaafaaaafaaaafaaaafaaaafaaaafaaaafaaaafaaaafaaaafaaaafaaaafaaaafaaaafaaaafaaaafaaaafaaaafaaaafaaaafaaaafaaaafaaaafaaaafaaaafaaaafaaaafaaaafaaaafaaaafaaaafaaaafaaaafaaaafaaaafaaaafaaaafaaaafaaaafaaaafaaaafaaaafaaaafaaaafaaaafaaaafaaaafaaaafaaaafaaaafaaaafaaaafaaaafaaaafaaaafaaaafaaaafaaaafaaaafaaaafaaaafaaaafaaaafaaaafaaaafaaaafaaaafaaaafaaaafaaaafaaaafaaaafaaaafaaaafaaaafaaaafaaaafaaaafaaaafaaaafaaaafaaaafaaaafaaaafaaaafaaaafaaaafaaaafaaaafaaaafaaaafaaaafaaaafaaaafaaaafaaaafaaaafaaaafaaaafaaaafaaaafaaaafaaaafaaaafaaaafaaaafaaaafaaaafaaaafaaaafaaaafaaaafaaaafaaaafaaaafaaaafaaaafaaaafaaaafaaaafaaaafaaaafaaaafaaaafaaaafaaaafaaaafaaaafaaaafaaaafaaaafaaaafaaaafaaaafaaaafaaaafaaaafaaaafaaaafaaaafaaaafaaaafaaaafaaaafaaaafaaaafaaaafaaaafaaaafaaaafaaaafaaaafaaaafaaaafaaaafaaaafaaaafaaaafaaaafaaaafaaaafaaaafaaaafaaaafaaaafaaaafaaaafaaaafaaaafaaaafaaaafaaaafaaaafaaaafaaaafaaaafaaaafaaaafaaaafaaaafaaaafaaaafaaaafaaaafaaaafaaaafaaaafaaaafaaaafaaaafaaaafaaaafaaaafaaaafaaaafaaaafaaaafaaaafaaaafaaaafaaaafaaaafaaaafaaaafaaaafaaaafaaaafaaaafaaaafaaaafaaaafaaaafaaaafaaaafaaaafaaaafaaaafaaaafaaaafaaaafaaaafaaaafaaaafaaaafaaaafaaaafaaaafaaaafaaaafaaaafaaaafaaaafaaaafaaaafaaaafaaaafaaaafaaaafaaaafaaaafaaaafaaaafaaaafaaaafaaaafaaaafaaaafaaaafaaaafaaaafaaaafaaaafaaaafaaaafaaaafaaaafaaaafaaaafaaaafaaaafaaaafaaaafaaaafaaaafaaaafaaaafaaaafaaaafaaaafaaaafaaaafaaaafaaaafaaaafaaaafaaaafaaaafaaaafaaaafaaaafaaaafaaaafaaaafaaaafaaaafaaaafaaaafaaaafaaaafaaaafaaaafaaaafaaaafaaaafaaaafaaaafaaaafaaaafaaaafaaaafaaaafaaaafaaaafaaaafaaaafaaaafaaaafaaaafaaaafaaaafaaaafaaaafaaaafaaaafaaaafaaaafaaaafaaaafaaaafaaaafaaaafaaaafaaaafaaaafaaaafaaaafaaaafaaaafaaaafaaaafaaaafaaaafaaaafaaaafaaaafaaaafaaaafaaaafaaaafaaaafaaaafaaaafaaaafaaaafaaaafaaaafaaaafaaaafaaaafaaaafaaaafaaaafaaaafaaaafaaaafaaaafaaaafaaaafaaaafaaaafaaaafaaaafaaaafaaaafaaaafaaaafaaaafaaaafaaaafaaaafaaaafaaaafaaaafaaaafaaaafaaaafaaaafaaaafaaaafaaaafaaaafaaaafaaaafaaaafaaaafaaaafaaaafaaaafaaaafaaaafaaaafaaaafaaaafaaaafaaaafaaaafaaaafaaaafaaaafaaaafaaaafaaaafaaaafaaaafaaaafaaaafaaaafaaaafaaaafaaaafaaaafaaaafaaaafaaaafaaaafaaaafaaaafaaaafaaaafaaaafaaaafaaaafaaaafaaaafaaaafaaaafaaaafaaaafaaaafaaaafaaaafaaaafaaaafaaaafaaaafaaaafaaaafaaaafaaaafaaaafaaaafaaaafaaaafaaaafaaaafaaaafaaaafaaaafaaaafaaaafaaaafaaaafaaaafaaaafaaaafaaaafaaaafaaaafaaaafaaaafaaaafaaaafaaaafaaaafaaaafaaaafaaaafaaaafaaaafaaaafaaaafaaaafaaaafaaaafaaaafaaaafaaaafaaaafaaaafaaaafaaaafaaaafaaaafaaaafaaaafaaaafaaaafaaaafaaaafaaaafaaaafaaaafaaaafaaaafaaaafaaaafaaaafaaaafaaaafaaaafaaaafaaaafaaaafaaaafaaaafaaaafaaaafaaaafaaaafaaaafaaaafaaaafaaaafaaaafaaaafaaaafaaaafaaaafaaaafaaaafaaaafaaaafaaaafaaaafaaaafaaaafaaaafaaaafaaaafaaaafaaaafaaaafaaaafaaaafaaaafaaaafaaaafaaaafaaaafaaaafaaaafaaaafaaaafaaaafaaaafaaaafaaaafaaaafaaaafaaaafaaaafaaaafaaaafaaaafaaaafaaaafaaaafaaaafaaaafaaaafaaaafaaaafaaaafaaaafaaaafaaaafaaaafaaaafaaaafaaaafaaaafaaaafaaaafaaaafaaaafaaaafaaaafaaaafaaaafaaaafaaaafaaaafaaaafaaaafaaaafaaaafaaaafaaaafaaaafaaaafaaaafaaaafaaaafaaaafaaaafaaaafaaaafaaaafaaaafaaaafaaaafaaaafaaaafaaaafaaaafaaaafaaaafaaaafaaaafaaaafaaaafaaaafaaaafaaaafaaaafaaaafaaaafaaaafaaaafaaaafaaaafaaaafaaaafaaaafaaaafaaaafaaaafaaaafaaaafaaaafaaaafaaaafaaaafaaaafaaaafaaaafaaaafaaaafaaaafaaaafaaaafaaaafaaaafaaaafaaaafaaaafaaaafaaaafaaaafaaaafaaaafaaaafaaaafaaaafaaaafaaaafaaaafaaaafaaaafaaaafaaaafaaaafaaaafaaaafaaaafaaaafaaaafaaaafaaaafaaaafaaaafaaaafaaaafaaaafaaaafaaaafaaaafaaaafaaaafaaaafaaaafaaaafaaaafaaaafaaaafaaaafaaaafaaaafaaaafaaaafaaaafaaaafaaaafaaaafaaaafaaaafaaaafaaaafaaaafaaaafaaaafaaaafaaaafaaaafaaaafaaaafaaaafaaaafaaaafaaaafaaaafaaaafaaaafaaaafaaaafaaaafaaaafaaaafaaaafaaaafaaaafaaaafaaaafaaaafaaaafaaaafaaaafaaaafaaaafaaaafaaaafaaaafaaaafaaaafaaaafaaaafaaaafaaaafaaaafaaaafaaaafaaaafaaaafaaaafaaaafaaaafaaaafaaaafaaaafaaaafaaaafaaaafaaaafaaaafaaaafaaaafaaaafaaaafaaaafaaaafaaaafaaaafaaaafaaaafaaaafaaaafaaaafaaaafaaaafaaaafaaaafaaaafaaaafaaaafaaaafaaaafaaaafaaaafaaaafaaaafaaaafaaaafaaaafaaaafaaaafaaaafaaaafaaaafaaaafaaaafaaaafaaaafaaaafaaaafaaaafaaaafaaaafaaaafaaaafaaaafaaaafaaaafaaaafaaaafaaaafaaaafaaaafaaaafaaaafaaaafaaaafaaaafaaaafaaaafaaaafaaaafaaaafaaaafaaaafaaaafaaaafaaaafaaaafaaaafaaaafaaaafaaaafaaaafaaaafaaaafaaaafaaaafaaaafaaaafaaaafaaaafaaaafaaaafaaaafaaaafaaaafaaaafaaaafaaaafaaaafaaaafaaaafaaaafaaaafaaaafaaaafaaaafaaaafaaaafaaaafaaaafaaaafaaaafaaaafaaaafaaaafaaaafaaaafaaaafaaaafaaaafaaaafaaaafaaaafaaaafaaaafaaaafaaaafaaaafaaaafaaaafaaaafaaaafaaaafaaaafaaaafaaaafaaaafaaaafaaaafaaaafaaaafaaaafaaaafaaaafaaaafaaaafaaaafaaaafaaaafaaaafaaaafaaaafaaaafaaaafaaaafaaaafaaaafaaaafaaaafaaaafaaaafaaaafaaaafaaaafaaaafaaaafaaaafaaaafaaaafaaaafaaaafaaaafaaaafaaaafaaaafaaaafaaaafaaaafaaaafaaaafaaaafaaaafaaaafaaaafaaaafaaaafaaaafaaaafaaaafaaaafaaaafaaaafaaaafaaaafaaaafaaaafaaaafaaaafaaaafaaaafaaaafaaaafaaaafaaaafaaaafaaaafaaaafaaaafaaaafaaaafaaaafaaaafaaaafaaaafaaaafaaaafaaaafaaaafaaaafaaaafaaaafaaaafaaaafaaaafaaaafaaaafaaaafaaaafaaaafaaaafaaaafaaaafaaaafaaaafaaaafaaaafaaaafaaaafaaaafaaaafaaaafaaaafaaaafaaaafaaaafaaaafaaaafaaaafaaaafaaaafaaaafaaaafaaaafaaaafaaaafaaaafaaaafaaaafaaaafaaaafaaaafaaaafaaaafaaaafaaaafaaaafaaaafaaaafaaaafaaaafaaaafaaaafaaaafaaaafaaaafaaaafaaaafaaaafaaaafaaaafaaaafaaaafaaaafaaaafaaaafaaaafaaaafaaaafaaaafaaaafaaaafaaaafaaaafaaaafaaaafaaaafaaaafaaaafaaaafaaaafaaaafaaaafaaaafaaaafaaaafaaaafaaaafaaaafaaaafaaaafaaaafaaaafaaaafaaaafaaaafaaaafaaaafaaaafaaaafaaaafaaaafaaaafaaaafaaaafaaaafaaaafaaaafaaaafaaaafaaaafaaaafaaaafaaaafaaaafaaaafaaaafaaaafaaaafaaaafaaaafaaaafaaaafaaaafaaaafaaaafaaaafaaaafaaaafaaaafaaaafaaaafaaaafaaaafaaaafaaaafaaaafaaaafaaaafaaaafaaaafaaaafaaaafaaaafaaaafaaaafaaaafaaaafaaaafaaaafaaaafaaaafaaaafaaaafaaaafaaaafaaaafaaaafaaaafaaaafaaaafaaaafaaaafaaaafaaaafaaaafaaaafaaaafaaaafaaaafaaaafaaaafaaaafaaaafaaaafaaaafaaaafaaaafaaaafaaaafaaaafaaaafaaaafaaaafaaaafaaaafaaaafaaaafaaaafaaaafaaaafaaaafaaaafaaaafaaaafaaaafaaaafaaaafaaaafaaaafaaaafaaaafaaaafaaaafaaaafaaaafaaaafaaaafaaaafaaaafaaaafaaaafaaaafaaaafaaaafaaaafaaaafaaaafaaaafaaaafaaaafaaaafaaaafaaaafaaaafaaaafaaaafaaaafaaaafaaaafaaaafaaaafaaaafaaaafaaaafaaaafaaaafaaaafaaaafaaaafaaaafaaaafaaaafaaaafaaaafaaaafaaaafaaaafaaaafaaaafaaaafaaaafaaaafaaaafaaaafaaaafaaaafaaaafaaaafaaaafaaaafaaaafaaaafaaaafaaaafaaaafaaaafaaaafaaaafaaaafaaaafaaaafaaaafaaaafaaaafaaaafaaaafaaaafaaaafaaaafaaaafaaaafaaaafaaaafaaaafaaaafaaaafaaaafaaaafaaaafaaaafaaaafaaaafaaaafaaaafaaaafaaaafaaaafaaaafaaaafaaaafaaaafaaaafaaaafaaaafaaaafaaaafaaaafaaaafaaaafaaaafaaaafaaaafaaaafaaaafaaaafaaaafaaaafaaaafaaaafaaaafaaaafaaaafaaaafaaaafaaaafaaaafaaaafaaaafaaaafaaaafaaaafaaaafaaaafaaaafaaaafaaaafaaaafaaaafaaaafaaaafaaaafaaaafaaaafaaaafaaaafaaaafaaaafaaaafaaaafaaaafaaaafaaaafaaaafaaaafaaaafaaaafaaaafaaaafaaaafaaaafaaaafaaaafaaaafaaaafaaaafaaaafaaaafaaaafaaaafaaaafaaaafaaaafaaaafaaaafaaaafaaaafaaaafaaaafaaaafaaaafaaaafaaaafaaaafaaaafaaaafaaaafaaaafaaaafaaaafaaaafaaaafaaaafaaaafaaaafaaaafaaaafaaaafaaaafaaaafaaaafaaaafaaaafaaaafaaaafaaaafaaaafaaaafaaaafaaaafaaaafaaaafaaaafaaaafaaaafaaaafaaaafaaaafaaaafaaaafaaaafaaaafaaaafaaaafaaaafaaaafaaaafaaaafaaaafaaaafaaaafaaaafaaaafaaaafaaaafaaaafaaaafaaaafaaaafaaaafaaaafaaaafaaaafaaaafaaaafaaaafaaaafaaaafaaaafaaaafaaaafaaaafaaaafaaaafaaaafaaaafaaaafaaaafaaaafaaaafaaaafaaaafaaaafaaaafaaaafaaaafaaaafaaaafaaaafaaaafaaaafaaaafaaaafaaaafaaaafaaaafaaaafaaaafaaaafaaaafaaaafaaaafaaaafaaaafaaaafaaaafaaaafaaaafaaaafaaaafaaaafaaaafaaaafaaaafaaaafaaaafaaaafaaaafaaaafaaaafaaaafaaaafaaaafaaaafaaaafaaaafaaaafaaaafaaaafaaaafaaaafaaaafaaaafaaaafaaaafaaaafaaaafaaaafaaaafaaaafaaaafaaaafaaaafaaaafaaaafaaaafaaaafaaaafaaaafaaaafaaaafaaaafaaaafaaaafaaaafaaaafaaaafaaaafaaaafaaaafaaaafaaaafaaaafaaaafaaaafaaaafaaaafaaaafaaaafaaaafaaaafaaaafaaaafaaaafaaaafaaaafaaaafaaaafaaaafaaaafaaaafaaaafaaaafaaaafaaaafaaaafaaaafaaaafaaaafaaaafaaaafaaaafaaaafaaaafaaaafaaaafaaaafaaaafaaaafaaaafaaaafaaaafaaaafaaaafaaaafaaaafaaaafaaaafaaaafaaaafaaaafaaaafaaaafaaaafaaaafaaaafaaaafaaaafaaaafaaaafaaaafaaaafaaaafaaaafaaaafaaaafaaaafaaaafaaaafaaaafaaaafaaaafaaaafaaaafaaaafaaaafaaaafaaaafaaaafaaaafaaaafaaaafaaaafaaaafaaaafaaaafaaaafaaaafaaaafaaaafaaaafaaaafaaaafaaaafaaaafaaaafaaaafaaaafaaaafaaaafaaaafaaaafaaaafaaaafaaaafaaaafaaaafaaaafaaaafaaaafaaaafaaaafaaaafaaaafaaaafaaaafaaaafaaaafaaaafaaaafaaaafaaaafaaaafaaaafaaaafaaaafaaaafaaaafaaaafaaaafaaaafaaaafaaaafaaaafaaaafaaaafaaaafaaaafaaaafaaaafaaaafaaaafaaaafaaaafaaaafaaaafaaaafaaaafaaaafaaaafaaaafaaaafaaaafaaaafaaaafaaaafaaaafaaaafaaaafaaaafaaaafaaaafaaaafaaaafaaaafaaaafaaaafaaaafaaaafaaaafaaaafaaaafaaaafaaaafaaaafaaaafaaaafaaaafaaaafaaaafaaaafaaaafaaaafaaaafaaaafaaaafaaaafaaaafaaaafaaaafaaaafaaaafaaaafaaaafaaaafaaaafaaaafaaaafaaaafaaaafaaaafaaaafaaaafaaaafaaaafaaaafaaaafaaaafaaaafaaaafaaaafaaaafaaaafaaaafaaaafaaaafaaaafaaaafaaaafaaaafaaaafaaaafaaaafaaaafaaaafaaaafaaaafaaaafaaaafaaaafaaaafaaaafaaaafaaaafaaaafaaaafaaaafaaaafaaaafaaaafaaaafaaaafaaaafaaaafaaaafaaaafaaaafaaaafaaaafaaaafaaaafaaaafaaaafaaaafaaaafaaaafaaaafaaaafaaaafaaaafaaaafaaaafaaaafaaaafaaaafaaaafaaaafaaaafaaaafaaaafaaaafaaaafaaaafaaaafaaaafaaaafaaaafaaaafaaaafaaaafaaaafaaaafaaaafaaaafaaaafaaaafaaaafaaaafaaaafaaaafaaaafaaaafaaaafaaaafaaaafaaaafaaaafaaaafaaaafaaaafaaaafaaaafaaaafaaaafaaaafaaaafaaaafaaaafaaaafaaaafaaaafaaaafaaaafaaaafaaaafaaaafaaaafaaaafaaaafaaaafaaaafaaaafaaaafaaaafaaaafaaaafaaaafaaaafaaaafaaaafaaaafaaaafaaaafaaaafaaaafaaaafaaaafaaaafaaaafaaaafaaaafaaaafaaaafaaaafaaaafaaaafaaaafaaaafaaaafaaaafaaaafaaaafaaaafaaaafaaaafaaaafaaaafaaaafaaaafaaaafaaaafaaaafaaaafaaaafaaaafaaaafaaaafaaaafaaaafaaaafaaaafaaaafaaaafaaaafaaaafaaaafaaaafaaaafaaaafaaaafaaaafaaaafaaaafaaaafaaaafaaaafaaaafaaaafaaaafaaaafaaaafaaaafaaaafaaaafaaaafaaaafaaaafaaaafaaaafaaaafaaaafaaaafaaaafaaaafaaaafaaaafaaaafaaaafaaaafaaaafaaaafaaaafaaaafaaaafaaaafaaaafaaaafaaaafaaaafaaaafaaaafaaaafaaaafaaaafaaaafaaaafaaaafaaaafaaaafaaaafaaaafaaaafaaaafaaaafaaaafaaaafaaaafaaaafaaaafaaaafaaaafaaaafaaaafaaaafaaaafaaaafaaaafaaaafaaaafaaaafaaaafaaaafaaaafaaaafaaaafaaaafaaaafaaaafaaaafaaaafaaaafaaaafaaaafaaaafaaaafaaaafaaaafaaaafaaaafaaaafaaaafaaaafaaaafaaaafaaaafaaaafaaaafaaaafaaaafaaaafaaaafaaaafaaaafaaaafaaaafaaaafaaaafaaaafaaaafaaaafaaaafaaaafaaaafaaaafaaaafaaaafaaaafaaaafaaaafaaaafaaaafaaaafaaaafaaaafaaaafaaaafaaaafaaaafaaaafaaaafaaaafaaaafaaaafaaaafaaaafaaaafaaaafaaaafaaaafaaaafaaaafaaaafaaaafaaaafaaaafaaaafaaaafaaaafaaaafaaaafaaaafaaaafaaaafaaaafaaaafaaaafaaaafaaaafaaaafaaaafaaaafaaaafaaaafaaaafaaaafaaaafaaaafaaaafaaaafaaaafaaaafaaaafaaaafaaaafaaaafaaaafaaaafaaaafaaaafaaaafaaaafaaaafaaaafaaaafaaaafaaaafaaaafaaaafaaaafaaaafaaaafaaaafaaaafaaaafaaaafaaaafaaaafaaaafaaaafaaaafaaaafaaaafaaaafaaaafaaaafaaaafaaaafaaaafaaaafaaaafaaaafaaaafaaaafaaaafaaaafaaaafaaaafaaaafaaaafaaaafaaaafaaaafaaaafaaaafaaaafaaaafaaaafaaaafaaaafaaaafaaaafaaaafaaaafaaaafaaaafaaaafaaaafaaaafaaaafaaaafaaaafaaaafaaaafaaaafaaaafaaaafaaaafaaaafaaaafaaaafaaaafaaaafaaaafaaaafaaaafaaaafaaaafaaaafaaaafaaaafaaaafaaaafaaaafaaaafaaaafaaaafaaaafaaaafaaaafaaaafaaaafaaaafaaaafaaaafaaaafaaaafaaaafaaaafaaaafaaaafaaaafaaaafaaaafaaaafaaaafaaaafaaaafaaaafaaaafaaaafaaaafaaaafaaaafaaaafaaaafaaaafaaaafaaaafaaaafaaaafaaaafaaaafaaaafaaaafaaaafaaaafaaaafaaaafaaaafaaaafaaaafaaaafaaaafaaaafaaaafaaaafaaaafaaaafaaaafaaaafaaaafaaaafaaaafaaaafaaaafaaaafaaaafaaaafaaaafaaaafaaaafaaaafaaaafaaaafaaaafaaaafaaaafaaaafaaaafaaaafaaaafaaaafaaaafaaaafaaaafaaaafaaaafaaaafaaaafaaaafaaaafaaaafaaaafaaaafaaaafaaaafaaaafaaaafaaaafaaaafaaaafaaaafaaaafaaaafaaaafaaaafaaaafaaaafaaaafaaaafaaaafaaaafaaaafaaaafaaaafaaaafaaaafaaaafaaaafaaaafaaaafaaaafaaaafaaaafaaaafaaaafaaaafaaaafaaaafaaaafaaaafaaaafaaaafaaaafaaaafaaaafaaaafaaaafaaaafaaaafaaaafaaaafaaaafaaaafaaaafaaaafaaaafaaaafaaaafaaaafaaaafaaaafaaaafaaaafaaaafaaaafaaaafaaaafaaaafaaaafaaaafaaaafaaaafaaaafaaaafaaaafaaaafaaaafaaaafaaaafaaaafaaaafaaaafaaaafaaaafaaaafaaaafaaaafaaaafaaaafaaaafaaaafaaaafaaaafaaaafaaaafaaaafaaaafaaaafaaaafaaaafaaaafaaaafaaaafaaaafaaaafaaaafaaaafaaaafaaaafaaaafaaaafaaaafaaaafaaaafaaaafaaaafaaaafaaaafaaaafaaaafaaaafaaaafaaaafaaaafaaaafaaaafaaaafaaaafaaaafaaaafaaaafaaaafaaaafaaaafaaaafaaaafaaaafaaaafaaaafaaaafaaaafaaaafaaaafaaaafaaaafaaaafaaaafaaaafaaaafaaaafaaaafaaaafaaaafaaaafaaaafaaaafaaaafaaaafaaaafaaaafaaaafaaaafaaaafaaaafaaaafaaaafaaaafaaaafaaaafaaaafaaaafaaaafaaaafaaaafaaaafaaaafaaaafaaaafaaaafaaaafaaaafaaaafaaaafaaaafaaaafaaaafaaaafaaaafaaaafaaaafaaaafaaaafaaaafaaaafaaaafaaaafaaaafaaaafaaaafaaaafaaaafaaaafaaaafaaaafaaaafaaaafaaaafaaaafaaaafaaaafaaaafaaaafaaaafaaaafaaaafaaaafaaaafaaaafaaaafaaaafaaaafaaaafaaaafaaaafaaaafaaaafaaaafaaaafaaaafaaaafaaaafaaaafaaaafaaaafaaaafaaaafaaaafaaaafaaaafaaaafaaaafaaaafaaaafaaaafaaaafaaaafaaaafaaaafaaaafaaaafaaaafaaaafaaaafaaaafaaaafaaaafaaaafaaaafaaaafaaaafaaaafaaaafaaaafaaaafaaaafaaaafaaaafaaaafaaaafaaaafaaaafaaaafaaaafaaaafaaaafaaaafaaaafaaaafaaaafaaaafaaaafaaaafaaaafaaaafaaaafaaaafaaaafaaaafaaaafaaaafaaaafaaaafaaaafaaaafaaaafaaaafaaaafaaaafaaaafaaaafaaaafaaaafaaaafaaaafaaaafaaaafaaaafaaaafaaaafaaaafaaaafaaaafaaaafaaaafaaaafaaaafaaaafaaaafaaaafaaaafaaaafaaaafaaaafaaaafaaaafaaaafaaaafaaaafaaaafaaaafaaaafaaaafaaaafaaaafaaaafaaaafaaaafaaaafaaaafaaaafaaaafaaaafaaaafaaaafaaaafaaaafaaaafaaaafaaaafaaaafaaaafaaaafaaaafaaaafaaaafaaaafaaaafaaaafaaaafaaaafaaaafaaaafaaaafaaaafaaaafaaaafaaaafaaaafaaaafaaaafaaaafaaaafaaaafaaaafaaaafaaaafaaaafaaaafaaaafaaaafaaaafaaaafaaaafaaaafaaaafaaaafaaaafaaaafaaaafaaaafaaaafaaaafaaaafaaaafaaaafaaaafaaaafaaaafaaaafaaaafaaaafaaaafaaaafaaaafaaaafaaaafaaaafaaaafaaaafaaaafaaaafaaaafaaaafaaaafaaaafaaaafaaaafaaaafaaaafaaaafaaaafaaaafaaaafaaaafaaaafaaaafaaaafaaaafaaaafaaaafaaaafaaaafaaaafaaaafaaaafaaaafaaaafaaaafaaaafaaaafaaaafaaaafaaaafaaaafaaaafaaaafaaaafaaaafaaaafaaaafaaaafaaaafaaaafaaaafaaaafaaaafaaaafaaaafaaaafaaaafaaaafaaaafaaaafaaaafaaaafaaaafaaaafaaaafaaaafaaaafaaaafaaaafaaaafaaaafaaaafaaaafaaaafaaaafaaaafaaaafaaaafaaaafaaaafaaaafaaaafaaaafaaaafaaaafaaaafaaaafaaaafaaaafaaaafaaaafaaaafaaaafaaaafaaaafaaaafaaaafaaaafaaaafaaaafaaaafaaaafaaaafaaaafaaaafaaaafaaaafaaaafaaaafaaaafaaaafaaaafaaaafaaaafaaaafaaaafaaaafaaaafaaaafaaaafaaaafaaaafaaaafaaaafaaaafaaaafaaaafaaaafaaaafaaaafaaaafaaaafaaaafaaaafaaaafaaaafaaaafaaaafaaaafaaaafaaaafaaaafaaaafaaaafaaaafaaaafaaaafaaaafaaaafaaaafaaaafaaaafaaaafaaaafaaaafaaaafaaaafaaaafaaaafaaaafaaaafaaaafaaaafaaaafaaaafaaaafaaaafaaaafaaaafaaaafaaaafaaaafaaaafaaaafaaaafaaaafaaaafaaaafaaaafaaaafaaaafaaaafaaaafaaaafaaaafaaaafaaaafaaaafaaaafaaaafaaaafaaaafaaaafaaaafaaaafaaaafaaaafaaaafaaaafaaaafaaaafaaaafaaaafaaaafaaaafaaaafaaaafaaaafaaaafaaaafaaaafaaaafaaaafaaaafaaaafaaaafaaaafaaaafaaaafaaaafaaaafaaaafaaaafaaaafaaaafaaaafaaaafaaaafaaaafaaaafaaaafaaaafaaaafaaaafaaaafaaaafaaaafaaaafaaaafaaaafaaaafaaaafaaaafaaaafaaaafaaaafaaaafaaaafaaaafaaaafaaaafaaaafaaaafaaaafaaaafaaaafaaaafaaaafaaaafaaaafaaaafaaaafaaaafaaaafaaaafaaaafaaaafaaaafaaaafaaaafaaaafaaaafaaaafaaaafaaaafaaaafaaaafaaaafaaaafaaaafaaaafaaaafaaaafaaaafaaaafaaaafaaaafaaaafaaaafaaaafaaaafaaaafaaaafaaaafaaaafaaaafaaaafaaaafaaaafaaaafaaaafaaaafaaaafaaaafaaaafaaaafaaaafaaaafaaaafaaaafaaaafaaaafaaaafaaaafaaaafaaaafaaaafaaaafaaaafaaaafaaaafaaaafaaaafaaaafaaaafaaaafaaaafaaaafaaaafaaaafaaaafaaaafaaaafaaaafaaaafaaaafaaaafaaaafaaaafaaaafaaaafaaaafaaaafaaaafaaaafaaaafaaaafaaaafaaaafaaaafaaaafaaaafaaaafaaaafaaaafaaaafaaaafaaaafaaaafaaaafaaaafaaaafaaaafaaaafaaaafaaaafaaaafaaaafaaaafaaaafaaaafaaaafaaaafaaaafaaaafaaaafaaaafaaaafaaaafaaaafaaaafaaaafaaaafaaaafaaaafaaaafaaaafaaaafaaaafaaaafaaaafaaaafaaaafaaaafaaaafaaaafaaaafaaaafaaaafaaaafaaaafaaaafaaaafaaaafaaaafaaaafaaaafaaaafaaaafaaaafaaaafaaaafaaaafaaaafaaaafaaaafaaaafaaaafaaaafaaaafaaaafaaaafaaaafaaaafaaaafaaaafaaaafaaaafaaaafaaaafaaaafaaaafaaaafaaaafaaaafaaaafaaaafaaaafaaaafaaaafaaaafaaaafaaaafaaaafaaaafaaaafaaaafaaaafaaaafaaaafaaaafaaaafaaaafaaaafaaaafaaaafaaaafaaaafaaaafaaaafaaaafaaaafaaaafaaaafaaaafaaaafaaaafaaaafaaaafaaaafaaaafaaaafaaaafaaaafaaaafaaaafaaaafaaaafaaaafaaaafaaaafaaaafaaaafaaaafaaaafaaaafaaaafaaaafaaaafaaaafaaaafaaaafaaaafaaaafaaaafaaaafaaaafaaaafaaaafaaaafaaaafaaaafaaaafaaaafaaaafaaaafaaaafaaaafaaaafaaaafaaaafaaaafaaaafaaaafaaaafaaaafaaaafaaaafaaaafaaaafaaaafaaaafaaaafaaaafaaaafaaaafaaaafaaaafaaaafaaaafaaaafaaaafaaaafaaaafaaaafaaaafaaaafaaaafaaaafaaaafaaaafaaaafaaaafaaaafaaaafaaaafaaaafaaaafaaaafaaaafaaaafaaaafaaaafaaaafaaaafaaaafaaaafaaaafaaaafaaaafaaaafaaaafaaaafaaaafaaaafaaaafaaaafaaaafaaaafaaaafaaaafaaaafaaaafaaaafaaaafaaaafaaaafaaaafaaaafaaaafaaaafaaaafaaaafaaaafaaaafaaaafaaaafaaaafaaaafaaaafaaaafaaaafaaaafaaaafaaaafaaaafaaaafaaaafaaaafaaaafaaaafaaaafaaaafaaaafaaaafaaaafaaaafaaaafaaaafaaaafaaaafaaaafaaaafaaaafaaaafaaaafaaaafaaaafaaaafaaaafaaaafaaaafaaaafaaaafaaaafaaaafaaaafaaaafaaaafaaaafaaaafaaaafaaaafaaaafaaaafaaaafaaaafaaaafaaaafaaaafaaaafaaaafaaaafaaaafaaaafaaaafaaaafaaaafaaaafaaaafaaaafaaaafaaaafaaaafaaaafaaaafaaaafaaaafaaaafaaaafaaaafaaaafaaaafaaaafaaaafaaaafaaaafaaaafaaaafaaaafaaaafaaaafaaaafaaaafaaaafaaaafaaaafaaaafaaaafaaaafaaaafaaaafaaaafaaaafaaaafaaaafaaaafaaaafaaaafaaaafaaaafaaaafaaaafaaaafaaaafaaaafaaaafaaaafaaaafaaaafaaaafaaaafaaaafaaaafaaaafaaaafaaaafaaaafaaaafaaaafaaaafaaaafaaaafaaaafaaaafaaaafaaaafaaaafaaaafaaaafaaaafaaaafaaaafaaaafaaaafaaaafaaaafaaaafaaaafaaaafaaaafaaaafaaaafaaaafaaaafaaaafaaaafaaaafaaaafaaaafaaaafaaaafaaaafaaaafaaaafaaaafaaaafaaaafaaaafaaaafaaaafaaaafaaaafaaaafaaaafaaaafaaaafaaaafaaaafaaaafaaaafaaaafaaaafaaaafaaaafaaaafaaaafaaaafaaaafaaaafaaaafaaaafaaaafaaaafaaaafaaaafaaaafaaaafaaaafaaaafaaaafaaaafaaaafaaaafaaaafaaaafaaaafaaaafaaaafaaaafaaaafaaaafaaaafaaaafaaaafaaaafaaaafaaaafaaaafaaaafaaaafaaaafaaaafaaaafaaaafaaaafaaaafaaaafaaaafaaaafaaaafaaaafaaaafaaaafaaaafaaaafaaaafaaaafaaaafaaaafaaaafaaaafaaaafaaaafaaaafaaaafaaaafaaaafaaaafaaaafaaaafaaaafaaaafaaaafaaaafaaaafaaaafaaaafaaaafaaaafaaaafaaaafaaaafaaaafaaaafaaaafaaaafaaaafaaaafaaaafaaaafaaaafaaaafaaaafaaaafaaaafaaaafaaaafaaaafaaaafaaaafaaaafaaaafaaaafaaaafaaaafaaaafaaaafaaaafaaaafaaaafaaaafaaaafaaaafaaaafaaaafaaaafaaaafaaaafaaaafaaaafaaaafaaaafaaaafaaaafaaaafaaaafaaaafaaaafaaaafaaaafaaaafaaaafaaaafaaaafaaaafaaaafaaaafaaaafaaaafaaaafaaaafaaaafaaaafaaaafaaaafaaaafaaaafaaaafaaaafaaaafaaaafaaaafaaaafaaaafaaaafaaaafaaaafaaaafaaaafaaaafaaaafaaaafaaaafaaaafaaaafaaaafaaaafaaaafaaaafaaaafaaaafaaaafaaaafaaaafaaaafaaaafaaaafaaaafaaaafaaaafaaaafaaaafaaaafaaaafaaaafaaaafaaaafaaaafaaaafaaaafaaaafaaaafaaaafaaaafaaaafaaaafaaaafaaaafaaaafaaaafaaaafaaaafaaaafaaaafaaaafaaaafaaaafaaaafaaaafaaaafaaaafaaaafaaaafaaaafaaaafaaaafaaaafaaaafaaaafaaaafaaaafaaaafaaaafaaaafaaaafaaaafaaaafaaaafaaaafaaaafaaaafaaaafaaaafaaaafaaaafaaaafaaaafaaaafaaaafaaaafaaaafaaaafaaaafaaaafaaaafaaaafaaaafaaaafaaaafaaaafaaaafaaaafaaaafaaaafaaaafaaaafaaaafaaaafaaaafaaaafaaaafaaaafaaaafaaaafaaaafaaaafaaaafaaaafaaaafaaaafaaaafaaaafaaaafaaaafaaaafaaaafaaaafaaaafaaaafaaaafaaaafaaaafaaaafaaaafaaaafaaaafaaaafaaaafaaaafaaaafaaaafaaaafaaaafaaaafaaaafaaaafaaaafaaaafaaaafaaaafaaaafaaaafaaaafaaaafaaaafaaaafaaaafaaaafaaaafaaaafaaaafaaaafaaaafaaaafaaaafaaaafaaaafaaaafaaaafaaaafaaaafaaaafaaaafaaaafaaaafaaaafaaaafaaaafaaaafaaaafaaaafaaaafaaaafaaaafaaaafaaaafaaaafaaaafaaaafaaaafaaaafaaaafaaaafaaaafaaaafaaaafaaaafaaaafaaaafaaaafaaaafaaaafaaaafaaaafaaaafaaaafaaaafaaaafaaaafaaaafaaaafaaaafaaaafaaaafaaaafaaaafaaaafaaaafaaaafaaaafaaaafaaaafaaaafaaaafaaaafaaaafaaaafaaaafaaaafaaaafaaaafaaaafaaaafaaaafaaaafaaaafaaaafaaaafaaaafaaaafaaaafaaaafaaaafaaaafaaaafaaaafaaaafaaaafaaaafaaaafaaaafaaaafaaaafaaaafaaaafaaaafaaaafaaaafaaaafaaaafaaaafaaaafaaaafaaaafaaaafaaaafaaaafaaaafaaaafaaaafaaaafaaaafaaaafaaaafaaaafaaaafaaaafaaaafaaaafaaaafaaaafaaaafaaaafaaaafaaaafaaaafaaaafaaaafaaaafaaaafaaaafaaaafaaaafaaaafaaaafaaaafaaaafaaaafaaaafaaaafaaaafaaaafaaaafaaaafaaaafaaaafaaaafaaaafaaaafaaaafaaaafaaaafaaaafaaaafaaaafaaaafaaaafaaaafaaaafaaaafaaaafaaaafaaaafaaaafaaaafaaaafaaaafaaaafaaaafaaaafaaaafaaaafaaaafaaaafaaaafaaaafaaaafaaaafaaaafaaaafaaaafaaaafaaaafaaaafaaaafaaaafaaaafaaaafaaaafaaaafaaaafaaaafaaaafaaaafaaaafaaaafaaaafaaaafaaaafaaaafaaaafaaaafaaaafaaaafaaaafaaaafaaaafaaaafaaaafaaaafaaaafaaaafaaaafaaaafaaaafaaaafaaaafaaaafaaaafaaaafaaaafaaaafaaaafaaaafaaaafaaaafaaaafaaaafaaaafaaaafaaaafaaaafaaaafaaaafaaaafaaaafaaaafaaaafaaaafaaaafaaaafaaaafaaaafaaaafaaaafaaaafaaaafaaaafaaaafaaaafaaaafaaaafaaaafaaaafaaaafaaaafaaaafaaaafaaaafaaaafaaaafaaaafaaaafaaaafaaaafaaaafaaaafaaaafaaaafaaaafaaaafaaaafaaaafaaaafaaaafaaaafaaaafaaaafaaaafaaaafaaaafaaaafaaaafaaaafaaaafaaaafaaaafaaaafaaaafaaaafaaaafaaaafaaaafaaaafaaaafaaaafaaaafaaaafaaaafaaaafaaaafaaaafaaaafaaaafaaaafaaaafaaaafaaaafaaaafaaaafaaaafaaaafaaaafaaaafaaaafaaaafaaaafaaaafaaaafaaaafaaaafaaaafaaaafaaaafaaaafaaaafaaaafaaaafaaaafaaaafaaaafaaaafaaaafaaaafaaaafaaaafaaaafaaaafaaaafaaaafaaaafaaaafaaaafaaaafaaaafaaaafaaaafaaaafaaaafaaaafaaaafaaaafaaaafaaaafaaaafaaaafaaaafaaaafaaaafaaaafaaaafaaaafaaaafaaaafaaaafaaaafaaaafaaaafaaaafaaaafaaaafaaaafaaaafaaaafaaaafaaaafaaaafaaaafaaaafaaaafaaaafaaaafaaaafaaaafaaaafaaaafaaaafaaaafaaaafaaaafaaaafaaaafaaaafaaaafaaaafaaaafaaaafaaaafaaaafaaaafaaaafaaaafaaaafaaaafaaaafaaaafaaaafaaaafaaaafaaaafaaaafaaaafaaaafaaaafaaaafaaaafaaaafaaaafaaaafaaaafaaaafaaaafaaaafaaaafaaaafaaaafaaaafaaaafaaaafaaaafaaaafaaaafaaaafaaaafaaaafaaaafaaaafaaaafaaaafaaaafaaaafaaaafaaaafaaaafaaaafaaaafaaaafaaaafaaaafaaaafaaaafaaaafaaaafaaaafaaaafaaaafaaaafaaaafaaaafaaaafaaaafaaaafaaaafaaaafaaaafaaaafaaaafaaaafaaaafaaaafaaaafaaaafaaaafaaaafaaaafaaaafaaaafaaaafaaaafaaaafaaaafaaaafaaaafaaaafaaaafaaaafaaaafaaaafaaaafaaaafaaaafaaaafaaaafaaaafaaaafaaaafaaaafaaaafaaaafaaaafaaaafaaaafaaaafaaaafaaaafaaaafaaaafaaaafaaaafaaaafaaaafaaaafaaaafaaaafaaaafaaaafaaaafaaaafaaaafaaaafaaaafaaaafaaaafaaaafaaaafaaaafaaaafaaaafaaaafaaaafaaaafaaaafaaaafaaaafaaaafaaaafaaaafaaaafaaaafaaaafaaaafaaaafaaaafaaaafaaaafaaaafaaaafaaaafaaaafaaaafaaaafaaaafaaaafaaaafaaaafaaaafaaaafaaaafaaaafaaaafaaaafaaaafaaaafaaaafaaaafaaaafaaaafaaaafaaaafaaaafaaaafaaaafaaaafaaaafaaaafaaaafaaaafaaaafaaaafaaaafaaaafaaaafaaaafaaaafaaaafaaaafaaaafaaaafaaaafaaaafaaaafaaaafaaaafaaaafaaaafaaaafaaaafaaaafaaaafaaaafaaaafaaaafaaaafaaaafaaaafaaaafaaaafaaaafaaaafaaaafaaaafaaaafaaaafaaaafaaaafaaaafaaaafaaaafaaaafaaaafaaaafaaaafaaaafaaaafaaaafaaaafaaaafaaaafaaaafaaaafaaaafaaaafaaaafaaaafaaaafaaaafaaaafaaaafaaaafaaaafaaaafaaaafaaaafaaaafaaaafaaaafaaaafaaaafaaaafaaaafaaaafaaaafaaaafaaaafaaaafaaaafaaaafaaaafaaaafaaaafaaaafaaaafaaaafaaaafaaaafaaaafaaaafaaaafaaaafaaaafaaaafaaaafaaaafaaaafaaaafaaaafaaaafaaaafaaaafaaaafaaaafaaaafaaaafaaaafaaaafaaaafaaaafaaaafaaaafaaaafaaaafaaaafaaaafaaaafaaaafaaaafaaaafaaaafaaaafaaaafaaaafaaaafaaaafaaaafaaaafaaaafaaaafaaaafaaaafaaaafaaaafaaaafaaaafaaaafaaaafaaaafaaaafaaaafaaaafaaaafaaaafaaaafaaaafaaaafaaaafaaaafaaaafaaaafaaaafaaaafaaaafaaaafaaaafaaaafaaaafaaaafaaaafaaaafaaaafaaaafaaaafaaaafaaaafaaaafaaaafaaaafaaaafaaaafaaaafaaaafaaaafaaaafaaaafaaaafaaaafaaaafaaaafaaaafaaaafaaaafaaaafaaaafaaaafaaaafaaaafaaaafaaaafaaaafaaaafaaaafaaaafaaaafaaaafaaaafaaaafaaaafaaaafaaaafaaaafaaaafaaaafaaaafaaaafaaaafaaaafaaaafaaaafaaaafaaaafaaaafaaaafaaaafaaaafaaaafaaaafaaaafaaaafaaaafaaaafaaaafaaaafaaaafaaaafaaaafaaaafaaaafaaaafaaaafaaaafaaaafaaaafaaaafaaaafaaaafaaaafaaaafaaaafaaaafaaaafaaaafaaaafaaaafaaaafaaaafaaaafaaaafaaaafaaaafaaaafaaaafaaaafaaaafaaaafaaaafaaaafaaaafaaaafaaaafaaaafaaaafaaaafaaaafaaaafaaaafaaaafaaaafaaaafaaaafaaaafaaaafaaaafaaaafaaaafaaaafaaaafaaaafaaaafaaaafaaaafaaaafaaaafaaaafaaaafaaaafaaaafaaaafaaaafaaaafaaaafaaaafaaaafaaaafaaaafaaaafaaaafaaaafaaaafaaaafaaaafaaaafaaaafaaaafaaaafaaaafaaaafaaaafaaaafaaaafaaaafaaaafaaaafaaaafaaaafaaaafaaaafaaaafaaaafaaaafaaaafaaaafaaaafaaaafaaaafaaaafaaaafaaaafaaaafaaaafaaaafaaaafaaaafaaaafaaaafaaaafaaaafaaaafaaaafaaaafaaaafaaaafaaaafaaaafaaaafaaaafaaaafaaaafaaaafaaaafaaaafaaaafaaaafaaaafaaaafaaaafaaaafaaaafaaaafaaaafaaaafaaaafaaaafaaaafaaaafaaaafaaaafaaaafaaaafaaaafaaaafaaaafaaaafaaaafaaaafaaaafaaaafaaaafaaaafaaaafaaaafaaaafaaaafaaaafaaaafaaaafaaaafaaaafaaaafaaaafaaaafaaaafaaaafaaaafaaaafaaaafaaaafaaaafaaaafaaaafaaaafaaaafaaaafaaaafaaaafaaaafaaaafaaaafaaaafaaaafaaaafaaaafaaaafaaaafaaaafaaaafaaaafaaaafaaaafaaaafaaaafaaaafaaaafaaaafaaaafaaaafaaaafaaaafaaaafaaaafaaaafaaaafaaaafaaaafaaaafaaaafaaaafaaaafaaaafaaaafaaaafaaaafaaaafaaaafaaaafaaaafaaaafaaaafaaaafaaaafaaaafaaaafaaaafaaaafaaaafaaaafaaaafaaaafaaaafaaaafaaaafaaaafaaaafaaaafaaaafaaaafaaaafaaaafaaaafaaaafaaaafaaaafaaaafaaaafaaaafaaaafaaaafaaaafaaaafaaaafaaaafaaaafaaaafaaaafaaaafaaaafaaaafaaaafaaaafaaaafaaaafaaaafaaaafaaaafaaaafaaaafaaaafaaaafaaaafaaaafaaaafaaaafaaaafaaaafaaaafaaaafaaaafaaaafaaaafaaaafaaaafaaaafaaaafaaaafaaaafaaaafaaaafaaaafaaaafaaaafaaaafaaaafaaaafaaaafaaaafaaaafaaaafaaaafaaaafaaaafaaaafaaaafaaaafaaaafaaaafaaaafaaaafaaaafaaaafaaaafaaaafaaaafaaaafaaaafaaaafaaaafaaaafaaaafaaaafaaaafaaaafaaaafaaaafaaaafaaaafaaaafaaaafaaaafaaaafaaaafaaaafaaaafaaaafaaaafaaaafaaaafaaaafaaaafaaaafaaaafaaaafaaaafaaaafaaaafaaaafaaaafaaaafaaaafaaaafaaaafaaaafaaaafaaaafaaaafaaaafaaaafaaaafaaaafaaaafaaaafaaaafaaaafaaaafaaaafaaaafaaaafaaaafaaaafaaaafaaaafaaaafaaaafaaaafaaaafaaaafaaaafaaaafaaaafaaaafaaaafaaaafaaaafaaaafaaaafaaaafaaaafaaaafaaaafaaaafaaaafaaaafaaaafaaaafaaaafaaaafaaaafaaaafaaaafaaaafaaaafaaaafaaaafaaaafaaaafaaaafaaaafaaaafaaaafaaaafaaaafaaaafaaaafaaaafaaaafaaaafaaaafaaaafaaaafaaaafaaaafaaaafaaaafaaaafaaaafaaaafaaaafaaaafaaaafaaaafaaaafaaaafaaaafaaaafaaaafaaaafaaaafaaaafaaaafaaaafaaaafaaaafaaaafaaaafaaaafaaaafaaaafaaaafaaaafaaaafaaaafaaaafaaaafaaaafaaaafaaaafaaaafaaaafaaaafaaaafaaaafaaaafaaaafaaaafaaaafaaaafaaaafaaaafaaaafaaaafaaaafaaaafaaaafaaaafaaaafaaaafaaaafaaaafaaaafaaaafaaaafaaaafaaaafaaaafaaaafaaaafaaaafaaaafaaaafaaaafaaaafaaaafaaaafaaaafaaaafaaaafaaaafaaaafaaaafaaaafaaaafaaaafaaaafaaaafaaaafaaaafaaaafaaaafaaaafaaaafaaaafaaaafaaaafaaaafaaaafaaaafaaaafaaaafaaaafaaaafaaaafaaaafaaaafaaaafaaaafaaaafaaaafaaaafaaaafaaaafaaaafaaaafaaaafaaaafaaaafaaaafaaaafaaaafaaaafaaaafaaaafaaaafaaaafaaaafaaaafaaaafaaaafaaaafaaaafaaaafaaaafaaaafaaaafaaaafaaaafaaaafaaaafaaaafaaaafaaaafaaaafaaaafaaaafaaaafaaaafaaaafaaaafaaaafaaaafaaaafaaaafaaaafaaaafaaaafaaaafaaaafaaaafaaaafaaaafaaaafaaaafaaaafaaaafaaaafaaaafaaaafaaaafaaaafaaaafaaaafaaaafaaaafaaaafaaaafaaaafaaaafaaaafaaaafaaaafaaaafaaaafaaaafaaaafaaaafaaaafaaaafaaaafaaaafaaaafaaaafaaaafaaaafaaaafaaaafaaaafaaaafaaaafaaaafaaaafaaaafaaaafaaaafaaaafaaaafaaaafaaaafaaaafaaaafaaaafaaaafaaaafaaaafaaaafaaaafaaaafaaaafaaaafaaaafaaaafaaaafaaaafaaaafaaaafaaaafaaaafaaaafaaaafaaaafaaaafaaaafaaaafaaaafaaaafaaaafaaaafaaaafaaaafaaaafaaaafaaaafaaaafaaaafaaaafaaaafaaaafaaaafaaaafaaaafaaaafaaaafaaaafaaaafaaaafaaaafaaaafaaaafaaaafaaaafaaaafaaaafaaaafaaaafaaaafaaaafaaaafaaaafaaaafaaaafaaaafaaaafaaaafaaaafaaaafaaaafaaaafaaaafaaaafaaaafaaaafaaaafaaaafaaaafaaaafaaaafaaaafaaaafaaaafaaaafaaaafaaaafaaaafaaaafaaaafaaaafaaaafaaaafaaaafaaaafaaaafaaaafaaaafaaaafaaaafaaaafaaaafaaaafaaaafaaaafaaaafaaaafaaaafaaaafaaaafaaaafaaaafaaaafaaaafaaaafaaaafaaaafaaaafaaaafaaaafaaaafaaaafaaaafaaaafaaaafaaaafaaaafaaaafaaaafaaaafaaaafaaaafaaaafaaaafaaaafaaaafaaaafaaaafaaaafaaaafaaaafaaaafaaaafaaaafaaaafaaaafaaaafaaaafaaaafaaaafaaaafaaaafaaaafaaaafaaaafaaaafaaaafaaaafaaaafaaaafaaaafaaaafaaaafaaaafaaaafaaaafaaaafaaaafaaaafaaaafaaaafaaaafaaaafaaaafaaaafaaaafaaaafaaaafaaaafaaaafaaaafaaaafaaaafaaaafaaaafaaaafaaaafaaaafaaaafaaaafaaaafaaaafaaaafaaaafaaaafaaaafaaaafaaaafaaaafaaaafaaaafaaaafaaaafaaaafaaaafaaaafaaaafaaaafaaaafaaaafaaaafaaaafaaaafaaaafaaaafaaaafaaaafaaaafaaaafaaaafaaaafaaaafaaaafaaaafaaaafaaaafaaaafaaaafaaaafaaaafaaaafaaaafaaaafaaaafaaaafaaaafaaaafaaaafaaaafaaaafaaaafaaaafaaaafaaaafaaaafaaaafaaaafaaaafaaaafaaaafaaaafaaaafaaaafaaaafaaaafaaaafaaaafaaaafaaaafaaaafaaaafaaaafaaaafaaaafaaaafaaaafaaaafaaaafaaaafaaaafaaaafaaaafaaaafaaaafaaaafaaaafaaaafaaaafaaaafaaaafaaaafaaaafaaaafaaaafaaaafaaaafaaaafaaaafaaaafaaaafaaaafaaaafaaaafaaaafaaaafaaaafaaaafaaaafaaaafaaaafaaaafaaaafaaaafaaaafaaaafaaaafaaaafaaaafaaaafaaaafaaaafaaaafaaaafaaaafaaaafaaaafaaaafaaaafaaaafaaaafaaaafaaaafaaaafaaaafaaaafaaaafaaaafaaaafaaaafaaaafaaaafaaaafaaaafaaaafaaaafaaaafaaaafaaaafaaaafaaaafaaaafaaaafaaaafaaaafaaaafaaaafaaaafaaaafaaaafaaaafaaaafaaaafaaaafaaaafaaaafaaaafaaaafaaaafaaaafaaaafaaaafaaaafaaaafaaaafaaaafaaaafaaaafaaaafaaaafaaaafaaaafaaaafaaaafaaaafaaaafaaaafaaaafaaaafaaaafaaaafaaaafaaaafaaaafaaaafaaaafaaaafaaaafaaaafaaaafaaaafaaaafaaaafaaaafaaaafaaaafaaaafaaaafaaaafaaaafaaaafaaaafaaaafaaaafaaaafaaaafaaaafaaaafaaaafaaaafaaaafaaaafaaaafaaaafaaaafaaaafaaaafaaaafaaaafaaaafaaaafaaaafaaaafaaaafaaaafaaaafaaaafaaaafaaaafaaaafaaaafaaaafaaaafaaaafaaaafaaaafaaaafaaaafaaaafaaaafaaaafaaaafaaaafaaaafaaaafaaaafaaaafaaaafaaaafaaaafaaaafaaaafaaaafaaaafaaaafaaaafaaaafaaaafaaaafaaaafaaaafaaaafaaaafaaaafaaaafaaaafaaaafaaaafaaaafaaaafaaaafaaaafaaaafaaaafaaaafaaaafaaaafaaaafaaaafaaaafaaaafaaaafaaaafaaaafaaaafaaaafaaaafaaaafaaaafaaaafaaaafaaaafaaaafaaaafaaaafaaaafaaaafaaaafaaaafaaaafaaaafaaaafaaaafaaaafaaaafaaaafaaaafaaaafaaaafaaaafaaaafaaaafaaaafaaaafaaaafaaaafaaaafaaaafaaaafaaaafaaaafaaaafaaaafaaaafaaaafaaaafaaaafaaaafaaaafaaaafaaaafaaaafaaaafaaaafaaaafaaaafaaaafaaaafaaaafaaaafaaaafaaaafaaaafaaaafaaaafaaaafaaaafaaaafaaaafaaaafaaaafaaaafaaaafaaaafaaaafaaaafaaaafaaaafaaaafaaaafaaaafaaaafaaaafaaaafaaaafaaaafaaaafaaaafaaaafaaaafaaaafaaaafaaaafaaaafaaaafaaaafaaaafaaaafaaaafaaaafaaaafaaaafaaaafaaaafaaaafaaaafaaaafaaaafaaaafaaaafaaaafaaaafaaaafaaaafaaaafaaaafaaaafaaaafaaaafaaaafaaaafaaaafaaaafaaaafaaaafaaaafaaaafaaaafaaaafaaaafaaaafaaaafaaaafaaaafaaaafaaaafaaaafaaaafaaaafaaaafaaaafaaaafaaaafaaaafaaaafaaaafaaaafaaaafaaaafaaaafaaaafaaaafaaaafaaaafaaaafaaaafaaaafaaaafaaaafaaaafaaaafaaaafaaaafaaaafaaaafaaaafaaaafaaaafaaaafaaaafaaaafaaaafaaaafaaaafaaaafaaaafaaaafaaaafaaaafaaaafaaaafaaaafaaaafaaaafaaaafaaaafaaaafaaaafaaaafaaaafaaaafaaaafaaaafaaaafaaaafaaaafaaaafaaaafaaaafaaaafaaaafaaaafaaaafaaaafaaaafaaaafaaaafaaaafaaaafaaaafaaaafaaaafaaaafaaaafaaaafaaaafaaaafaaaafaaaafaaaafaaaafaaaafaaaafaaaafaaaafaaaafaaaafaaaafaaaafaaaafaaaafaaaafaaaafaaaafaaaafaaaafaaaafaaaafaaaafaaaafaaaafaaaafaaaafaaaafaaaafaaaafaaaafaaaafaaaafaaaafaaaafaaaafaaaafaaaafaaaafaaaafaaaafaaaafaaaafaaaafaaaafaaaafaaaafaaaafaaaafaaaafaaaafaaaafaaaafaaaafaaaafaaaafaaaafaaaafaaaafaaaafaaaafaaaafaaaafaaaafaaaafaaaafaaaafaaaafaaaafaaaafaaaafaaaafaaaafaaaafaaaafaaaafaaaafaaaafaaaafaaaafaaaafaaaafaaaafaaaafaaaafaaaafaaaafaaaafaaaafaaaafaaaafaaaafaaaafaaaafaaaafaaaafaaaafaaaafaaaafaaaafaaaafaaaafaaaafaaaafaaaafaaaafaaaafaaaafaaaafaaaafaaaafaaaafaaaafaaaafaaaafaaaafaaaafaaaafaaaafaaaafaaaafaaaafaaaafaaaafaaaafaaaafaaaafaaaafaaaafaaaafaaaafaaaafaaaafaaaafaaaafaaaafaaaafaaaafaaaafaaaafaaaafaaaafaaaafaaaafaaaafaaaafaaaafaaaafaaaafaaaafaaaafaaaafaaaafaaaafaaaafaaaafaaaafaaaafaaaafaaaafaaaafaaaafaaaafaaaafaaaafaaaafaaaafaaaafaaaafaaaafaaaafaaaafaaaafaaaafaaaafaaaafaaaafaaaafaaaafaaaafaaaafaaaafaaaafaaaafaaaafaaaafaaaafaaaafaaaafaaaafaaaafaaaafaaaafaaaafaaaafaaaafaaaafaaaafaaaafaaaafaaaafaaaafaaaafaaaafaaaafaaaafaaaafaaaafaaaafaaaafaaaafaaaafaaaafaaaafaaaafaaaafaaaafaaaafaaaafaaaafaaaafaaaafaaaafaaaafaaaafaaaafaaaafaaaafaaaafaaaafaaaafaaaafaaaafaaaafaaaafaaaafaaaafaaaafaaaafaaaafaaaafaaaafaaaafaaaafaaaafaaaafaaaafaaaafaaaafaaaafaaaafaaaafaaaafaaaafaaaafaaaafaaaafaaaafaaaafaaaafaaaafaaaafaaaafaaaafaaaafaaaafaaaafaaaafaaaafaaaafaaaafaaaafaaaafaaaafaaaafaaaafaaaafaaaafaaaafaaaafaaaafaaaafaaaafaaaafaaaafaaaafaaaafaaaafaaaafaaaafaaaafaaaafaaaafaaaafaaaafaaaafaaaafaaaafaaaafaaaafaaaafaaaafaaaafaaaafaaaafaaaafaaaafaaaafaaaafaaaafaaaafaaaafaaaafaaaafaaaafaaaafaaaafaaaafaaaafaaaafaaaafaaaafaaaafaaaafaaaafaaaafaaaafaaaafaaaafaaaafaaaafaaaafaaaafaaaafaaaafaaaafaaaafaaaafaaaafaaaafaaaafaaaafaaaafaaaafaaaafaaaafaaaafaaaafaaaafaaaafaaaafaaaafaaaafaaaafaaaafaaaafaaaafaaaafaaaafaaaafaaaafaaaafaaaafaaaafaaaafaaaafaaaafaaaafaaaafaaaafaaaafaaaafaaaafaaaafaaaafaaaafaaaafaaaafaaaafaaaafaaaafaaaafaaaafaaaafaaaafaaaafaaaafaaaafaaaafaaaafaaaafaaaafaaaafaaaafaaaafaaaafaaaafaaaafaaaafaaaafaaaafaaaafaaaafaaaafaaaafaaaafaaaafaaaafaaaafaaaafaaaafaaaafaaaafaaaafaaaafaaaafaaaafaaaafaaaafaaaafaaaafaaaafaaaafaaaafaaaafaaaafaaaafaaaafaaaafaaaafaaaafaaaafaaaafaaaafaaaafaaaafaaaafaaaafaaaafaaaafaaaafaaaafaaaafaaaafaaaafaaaafaaaafaaaafaaaafaaaafaaaafaaaafaaaafaaaafaaaafaaaafaaaafaaaafaaaafaaaafaaaafaaaafaaaafaaaafaaaafaaaafaaaafaaaafaaaafaaaafaaaafaaaafaaaafaaaafaaaafaaaafaaaafaaaafaaaafaaaafaaaafaaaafaaaafaaaafaaaafaaaafaaaafaaaafaaaafaaaafaaaafaaaafaaaafaaaafaaaafaaaafaaaafaaaafaaaafaaaafaaaafaaaafaaaafaaaafaaaafaaaafaaaafaaaafaaaafaaaafaaaafaaaafaaaafaaaafaaaafaaaafaaaafaaaafaaaafaaaafaaaafaaaafaaaafaaaafaaaafaaaafaaaafaaaafaaaafaaaafaaaafaaaafaaaafaaaafaaaafaaaafaaaafaaaafaaaafaaaafaaaafaaaafaaaafaaaafaaaafaaaafaaaafaaaafaaaafaaaafaaaafaaaafaaaafaaaafaaaafaaaafaaaafaaaafaaaafaaaafaaaafaaaafaaaafaaaafaaaafaaaafaaaafaaaafaaaafaaaafaaaafaaaafaaaafaaaafaaaafaaaafaaaafaaaafaaaafaaaafaaaafaaaafaaaafaaaafaaaafaaaafaaaafaaaafaaaafaaaafaaaafaaaafaaaafaaaafaaaafaaaafaaaafaaaafaaaafaaaafaaaafaaaafaaaafaaaafaaaafaaaafaaaafaaaafaaaafaaaafaaaafaaaafaaaafaaaafaaaafaaaafaaaafaaaafaaaafaaaafaaaafaaaafaaaafaaaafaaaafaaaafaaaafaaaafaaaafaaaafaaaafaaaafaaaafaaaafaaaafaaaafaaaafaaaafaaaafaaaafaaaafaaaafaaaafaaaafaaaafaaaafaaaafaaaafaaaafaaaafaaaafaaaafaaaafaaaafaaaafaaaafaaaafaaaafaaaafaaaafaaaafaaaafaaaafaaaafaaaafaaaafaaaafaaaafaaaafaaaafaaaafaaaafaaaafaaaafaaaafaaaafaaaafaaaafaaaafaaaafaaaafaaaafaaaafaaaafaaaafaaaafaaaafaaaafaaaafaaaafaaaafaaaafaaaafaaaafaaaafaaaafaaaafaaaafaaaafaaaafaaaafaaaafaaaafaaaafaaaafaaaafaaaafaaaafaaaafaaaafaaaafaaaafaaaafaaaafaaaafaaaafaaaafaaaafaaaafaaaafaaaafaaaafaaaafaaaafaaaafaaaafaaaafaaaafaaaafaaaafaaaafaaaafaaaafaaaafaaaafaaaafaaaafaaaafaaaafaaaafaaaafaaaafaaaafaaaafaaaafaaaafaaaafaaaafaaaafaaaafaaaafaaaafaaaafaaaafaaaafaaaafaaaafaaaafaaaafaaaafaaaafaaaafaaaafaaaafaaaafaaaafaaaafaaaafaaaafaaaafaaaafaaaafaaaafaaaafaaaafaaaafaaaafaaaafaaaafaaaafaaaafaaaafaaaafaaaafaaaafaaaafaaaafaaaafaaaafaaaafaaaafaaaafaaaafaaaafaaaafaaaafaaaafaaaafaaaafaaaafaaaafaaaafaaaafaaaafaaaafaaaafaaaafaaaafaaaafaaaafaaaafaaaafaaaafaaaafaaaafaaaafaaaafaaaafaaaafaaaafaaaafaaaafaaaafaaaafaaaafaaaafaaaafaaaafaaaafaaaafaaaafaaaafaaaafaaaafaaaafaaaafaaaafaaaafaaaafaaaafaaaafaaaafaaaafaaaafaaaafaaaafaaaafaaaafaaaafaaaafaaaafaaaafaaaafaaaafaaaafaaaafaaaafaaaafaaaafaaaafaaaafaaaafaaaafaaaafaaaafaaaafaaaafaaaafaaaafaaaafaaaafaaaafaaaafaaaafaaaafaaaafaaaafaaaafaaaafaaaafaaaafaaaafaaaafaaaafaaaafaaaafaaaafaaaafaaaafaaaafaaaafaaaafaaaafaaaafaaaafaaaafaaaafaaaafaaaafaaaafaaaafaaaafaaaafaaaafaaaafaaaafaaaafaaaafaaaafaaaafaaaafaaaafaaaafaaaafaaaafaaaafaaaafaaaafaaaafaaaafaaaafaaaafaaaafaaaafaaaafaaaafaaaafaaaafaaaafaaaafaaaafaaaafaaaafaaaafaaaafaaaafaaaafaaaafaaaafaaaafaaaafaaaafaaaafaaaafaaaafaaaafaaaafaaaafaaaafaaaafaaaafaaaafaaaafaaaafaaaafaaaafaaaafaaaafaaaafaaaafaaaafaaaafaaaafaaaafaaaafaaaafaaaafaaaafaaaafaaaafaaaafaaaafaaaafaaaafaaaafaaaafaaaafaaaafaaaafaaaafaaaafaaaafaaaafaaaafaaaafaaaafaaaafaaaafaaaafaaaafaaaafaaaafaaaafaaaafaaaafaaaafaaaafaaaafaaaafaaaafaaaafaaaafaaaafaaaafaaaafaaaafaaaafaaaafaaaafaaaafaaaafaaaafaaaafaaaafaaaafaaaafaaaafaaaafaaaafaaaafaaaafaaaafaaaafaaaafaaaafaaaafaaaafaaaafaaaafaaaafaaaafaaaafaaaafaaaafaaaafaaaafaaaafaaaafaaaafaaaafaaaafaaaafaaaafaaaafaaaafaaaafaaaafaaaafaaaafaaaafaaaafaaaafaaaafaaaafaaaafaaaafaaaafaaaafaaaafaaaafaaaafaaaafaaaafaaaafaaaafaaaafaaaafaaaafaaaafaaaafaaaafaaaafaaaafaaaafaaaafaaaafaaaafaaaafaaaafaaaafaaaafaaaafaaaafaaaafaaaafaaaafaaaafaaaafaaaafaaaafaaaafaaaafaaaafaaaafaaaafaaaafaaaafaaaafaaaafaaaafaaaafaaaafaaaafaaaafaaaafaaaafaaaafaaaafaaaafaaaafaaaafaaaafaaaafaaaafaaaafaaaafaaaafaaaafaaaafaaaafaaaafaaaafaaaafaaaafaaaafaaaafaaaafaaaafaaaafaaaafaaaafaaaafaaaafaaaafaaaafaaaafaaaafaaaafaaaafaaaafaaaafaaaafaaaafaaaafaaaafaaaafaaaafaaaafaaaafaaaafaaaafaaaafaaaafaaaafaaaafaaaafaaaafaaaafaaaafaaaafaaaafaaaafaaaafaaaafaaaafaaaafaaaafaaaafaaaafaaaafaaaafaaaafaaaafaaaafaaaafaaaafaaaafaaaafaaaafaaaafaaaafaaaafaaaafaaaafaaaafaaaafaaaafaaaafaaaafaaaafaaaafaaaafaaaafaaaafaaaafaaaafaaaafaaaafaaaafaaaafaaaafaaaafaaaafaaaafaaaafaaaafaaaafaaaafaaaafaaaafaaaafaaaafaaaafaaaafaaaafaaaafaaaafaaaafaaaafaaaafaaaafaaaafaaaafaaaafaaaafaaaafaaaafaaaafaaaafaaaafaaaafaaaafaaaafaaaafaaaafaaaafaaaafaaaafaaaafaaaafaaaafaaaafaaaafaaaafaaaafaaaafaaaafaaaafaaaafaaaafaaaafaaaafaaaafaaaafaaaafaaaafaaaafaaaafaaaafaaaafaaaafaaaafaaaafaaaafaaaafaaaafaaaafaaaafaaaafaaaafaaaafaaaafaaaafaaaafaaaafaaaafaaaafaaaafaaaafaaaafaaaafaaaafaaaafaaaafaaaafaaaafaaaafaaaafaaaafaaaafaaaafaaaafaaaafaaaafaaaafaaaafaaaafaaaafaaaafaaaafaaaafaaaafaaaafaaaafaaaafaaaafaaaafaaaafaaaafaaaafaaaafaaaafaaaafaaaafaaaafaaaafaaaafaaaafaaaafaaaafaaaafaaaafaaaafaaaafaaaafaaaafaaaafaaaafaaaafaaaafaaaafaaaafaaaafaaaafaaaafaaaafaaaafaaaafaaaafaaaafaaaafaaaafaaaafaaaafaaaafaaaafaaaafaaaafaaaafaaaafaaaafaaaafaaaafaaaafaaaafaaaafaaaafaaaafaaaafaaaafaaaafaaaafaaaafaaaafaaaafaaaafaaaafaaaafaaaafaaaafaaaafaaaafaaaafaaaafaaaafaaaafaaaafaaaafaaaafaaaafaaaafaaaafaaaafaaaafaaaafaaaafaaaafaaaafaaaafaaaafaaaafaaaafaaaafaaaafaaaafaaaafaaaafaaaafaaaafaaaafaaaafaaaafaaaafaaaafaaaafaaaafaaaafaaaafaaaafaaaafaaaafaaaafaaaafaaaafaaaafaaaafaaaafaaaafaaaafaaaafaaaafaaaafaaaafaaaafaaaafaaaafaaaafaaaafaaaafaaaafaaaafaaaafaaaafaaaafaaaafaaaafaaaafaaaafaaaafaaaafaaaafaaaafaaaafaaaafaaaafaaaafaaaafaaaafaaaafaaaafaaaafaaaafaaaafaaaafaaaafaaaafaaaafaaaafaaaafaaaafaaaafaaaafaaaafaaaafaaaafaaaafaaaafaaaafaaaafaaaafaaaafaaaafaaaafaaaafaaaafaaaafaaaafaaaafaaaafaaaafaaaafaaaafaaaafaaaafaaaafaaaafaaaafaaaafaaaafaaaafaaaafaaaafaaaafaaaafaaaafaaaafaaaafaaaafaaaafaaaafaaaafaaaafaaaafaaaafaaaafaaaafaaaafaaaafaaaafaaaafaaaafaaaafaaaafaaaafaaaafaaaafaaaafaaaafaaaafaaaafaaaafaaaafaaaafaaaafaaaafaaaafaaaafaaaafaaaafaaaafaaaafaaaafaaaafaaaafaaaafaaaafaaaafaaaafaaaafaaaafaaaafaaaafaaaafaaaafaaaafaaaafaaaafaaaafaaaafaaaafaaaafaaaafaaaafaaaafaaaafaaaafaaaafaaaafaaaafaaaafaaaafaaaafaaaafaaaafaaaafaaaafaaaafaaaafaaaafaaaafaaaafaaaafaaaafaaaafaaaafaaaafaaaafaaaafaaaafaaaafaaaafaaaafaaaafaaaafaaaafaaaafaaaafaaaafaaaafaaaafaaaafaaaafaaaafaaaafaaaafaaaafaaaafaaaafaaaafaaaafaaaafaaaafaaaafaaaafaaaafaaaafaaaafaaaafaaaafaaaafaaaafaaaafaaaafaaaafaaaafaaaafaaaafaaaafaaaafaaaafaaaafaaaafaaaafaaaafaaaafaaaafaaaafaaaafaaaafaaaafaaaafaaaafaaaafaaaafaaaafaaaafaaaafaaaafaaaafaaaafaaaafaaaafaaaafaaaafaaaafaaaafaaaafaaaafaaaafaaaafaaaafaaaafaaaafaaaafaaaafaaaafaaaafaaaafaaaafaaaafaaaafaaaafaaaafaaaafaaaafaaaafaaaafaaaafaaaafaaaafaaaafaaaafaaaafaaaafaaaafaaaafaaaafaaaafaaaafaaaafaaaafaaaafaaaafaaaafaaaafaaaafaaaafaaaafaaaafaaaafaaaafaaaafaaaafaaaafaaaafaaaafaaaafaaaafaaaafaaaafaaaafaaaafaaaafaaaafaaaafaaaafaaaafaaaafaaaafaaaafaaaafaaaafaaaafaaaafaaaafaaaafaaaafaaaafaaaafaaaafaaaafaaaafaaaafaaaafaaaafaaaafaaaafaaaafaaaafaaaafaaaafaaaafaaaafaaaafaaaafaaaafaaaafaaaafaaaafaaaafaaaafaaaafaaaafaaaafaaaafaaaafaaaafaaaafaaaafaaaafaaaafaaaafaaaafaaaafaaaafaaaafaaaafaaaafaaaafaaaafaaaafaaaafaaaafaaaafaaaafaaaafaaaafaaaafaaaafaaaafaaaafaaaafaaaafaaaafaaaafaaaafaaaafaaaafaaaafaaaafaaaafaaaafaaaafaaaafaaaafaaaafaaaafaaaafaaaafaaaafaaaafaaaafaaaafaaaafaaaafaaaafaaaafaaaafaaaafaaaafaaaafaaaafaaaafaaaafaaaafaaaafaaaafaaaafaaaafaaaafaaaafaaaafaaaafaaaafaaaafaaaafaaaafaaaafaaaafaaaafaaaafaaaafaaaafaaaafaaaafaaaafaaaafaaaafaaaafaaaafaaaafaaaafaaaafaaaafaaaafaaaafaaaafaaaafaaaafaaaafaaaafaaaafaaaafaaaafaaaafaaaafaaaafaaaafaaaafaaaafaaaafaaaafaaaafaaaafaaaafaaaafaaaafaaaafaaaafaaaafaaaafaaaafaaaafaaaafaaaafaaaafaaaafaaaafaaaafaaaafaaaafaaaafaaaafaaaafaaaafaaaafaaaafaaaafaaaafaaaafaaaafaaaafaaaafaaaafaaaafaaaafaaaafaaaafaaaafaaaafaaaafaaaafaaaafaaaafaaaafaaaafaaaafaaaafaaaafaaaafaaaafaaaafaaaafaaaafaaaafaaaafaaaafaaaafaaaafaaaafaaaafaaaafaaaafaaaafaaaafaaaafaaaafaaaafaaaafaaaafaaaafaaaafaaaafaaaafaaaafaaaafaaaafaaaafaaaafaaaafaaaafaaaafaaaafaaaafaaaafaaaafaaaafaaaafaaaafaaaafaaaafaaaafaaaafaaaafaaaafaaaafaaaafaaaafaaaafaaaafaaaafaaaafaaaafaaaafaaaafaaaafaaaafaaaafaaaafaaaafaaaafaaaafaaaafaaaafaaaafaaaafaaaafaaaafaaaafaaaafaaaafaaaafaaaafaaaafaaaafaaaafaaaafaaaafaaaafaaaafaaaafaaaafaaaafaaaafaaaafaaaafaaaafaaaafaaaafaaaafaaaafaaaafaaaafaaaafaaaafaaaafaaaafaaaafaaaafaaaafaaaafaaaafaaaafaaaafaaaafaaaafaaaafaaaafaaaafaaaafaaaafaaaafaaaafaaaafaaaafaaaafaaaafaaaafaaaafaaaafaaaafaaaafaaaafaaaafaaaafaaaafaaaafaaaafaaaafaaaafaaaafaaaafaaaafaaaafaaaafaaaafaaaafaaaafaaaafaaaafaaaafaaaafaaaafaaaafaaaafaaaafaaaafaaaafaaaafaaaafaaaafaaaafaaaafaaaafaaaafaaaafaaaafaaaafaaaafaaaafaaaafaaaafaaaafaaaafaaaafaaaafaaaafaaaafaaaafaaaafaaaafaaaafaaaafaaaafaaaafaaaafaaaafaaaafaaaafaaaafaaaafaaaafaaaafaaaafaaaafaaaafaaaafaaaafaaaafaaaafaaaafaaaafaaaafaaaafaaaafaaaafaaaafaaaafaaaafaaaafaaaafaaaafaaaafaaaafaaaafaaaafaaaafaaaafaaaafaaaafaaaafaaaafaaaafaaaafaaaafaaaafaaaafaaaafaaaafaaaafaaaafaaaafaaaafaaaafaaaafaaaafaaaafaaaafaaaafaaaafaaaafaaaafaaaafaaaafaaaafaaaafaaaafaaaafaaaafaaaafaaaafaaaafaaaafaaaafaaaafaaaafaaaafaaaafaaaafaaaafaaaafaaaafaaaafaaaafaaaafaaaafaaaafaaaafaaaafaaaafaaaafaaaafaaaafaaaafaaaafaaaafaaaafaaaafaaaafaaaafaaaafaaaafaaaafaaaafaaaafaaaafaaaafaaaafaaaafaaaafaaaafaaaafaaaafaaaafaaaafaaaafaaaafaaaafaaaafaaaafaaaafaaaafaaaafaaaafaaaafaaaafaaaafaaaafaaaafaaaafaaaafaaaafaaaafaaaafaaaafaaaafaaaafaaaafaaaafaaaafaaaafaaaafaaaafaaaafaaaafaaaafaaaafaaaafaaaafaaaafaaaafaaaafaaaafaaaafaaaafaaaafaaaafaaaafaaaafaaaafaaaafaaaafaaaafaaaafaaaafaaaafaaaafaaaafaaaafaaaafaaaafaaaafaaaafaaaafaaaafaaaafaaaafaaaafaaaafaaaafaaaafaaaafaaaafaaaafaaaafaaaafaaaafaaaafaaaafaaaafaaaafaaaafaaaafaaaafaaaafaaaafaaaafaaaafaaaafaaaafaaaafaaaafaaaafaaaafaaaafaaaafaaaafaaaafaaaafaaaafaaaafaaaafaaaafaaaafaaaafaaaafaaaafaaaafaaaafaaaafaaaafaaaafaaaafaaaafaaaafaaaafaaaafaaaafaaaafaaaafaaaafaaaafaaaafaaaafaaaafaaaafaaaafaaaafaaaafaaaafaaaafaaaafaaaafaaaafaaaafaaaafaaaafaaaafaaaafaaaafaaaafaaaafaaaafaaaafaaaafaaaafaaaafaaaafaaaafaaaafaaaafaaaafaaaafaaaafaaaafaaaafaaaafaaaafaaaafaaaafaaaafaaaafaaaafaaaafaaaafaaaafaaaafaaaafaaaafaaaafaaaafaaaafaaaafaaaafaaaafaaaafaaaafaaaafaaaafaaaafaaaafaaaafaaaafaaaafaaaafaaaafaaaafaaaafaaaafaaaafaaaafaaaafaaaafaaaafaaaafaaaafaaaafaaaafaaaafaaaafaaaafaaaafaaaafaaaafaaaafaaaafaaaafaaaafaaaafaaaafaaaafaaaafaaaafaaaafaaaafaaaafaaaafaaaafaaaafaaaafaaaafaaaafaaaafaaaafaaaafaaaafaaaafaaaafaaaafaaaafaaaafaaaafaaaafaaaafaaaafaaaafaaaafaaaafaaaafaaaafaaaafaaaafaaaafaaaafaaaafaaaafaaaafaaaafaaaafaaaafaaaafaaaafaaaafaaaafaaaafaaaafaaaafaaaafaaaafaaaafaaaafaaaafaaaafaaaafaaaafaaaafaaaafaaaafaaaafaaaafaaaafaaaafaaaafaaaafaaaafaaaafaaaafaaaafaaaafaaaafaaaafaaaafaaaafaaaafaaaafaaaafaaaafaaaafaaaafaaaafaaaafaaaafaaaafaaaafaaaafaaaafaaaafaaaafaaaafaaaafaaaafaaaafaaaafaaaafaaaafaaaafaaaafaaaafaaaafaaaafaaaafaaaafaaaafaaaafaaaafaaaafaaaafaaaafaaaafaaaafaaaafaaaafaaaafaaaafaaaafaaaafaaaafaaaafaaaafaaaafaaaafaaaafaaaafaaaafaaaafaaaafaaaafaaaafaaaafaaaafaaaafaaaafaaaafaaaafaaaafaaaafaaaafaaaafaaaafaaaafaaaafaaaafaaaafaaaafaaaafaaaafaaaafaaaafaaaafaaaafaaaafaaaafaaaafaaaafaaaafaaaafaaaafaaaafaaaafaaaafaaaafaaaafaaaafaaaafaaaafaaaafaaaafaaaafaaaafaaaafaaaafaaaafaaaafaaaafaaaafaaaafaaaafaaaafaaaafaaaafaaaafaaaafaaaafaaaafaaaafaaaafaaaafaaaafaaaafaaaafaaaafaaaafaaaafaaaafaaaafaaaafaaaafaaaafaaaafaaaafaaaafaaaafaaaafaaaafaaaafaaaafaaaafaaaafaaaafaaaafaaaafaaaafaaaafaaaafaaaafaaaafaaaafaaaafaaaafaaaafaaaafaaaafaaaafaaaafaaaafaaaafaaaafaaaafaaaafaaaafaaaafaaaafaaaafaaaafaaaafaaaafaaaafaaaafaaaafaaaafaaaafaaaafaaaafaaaafaaaafaaaafaaaafaaaafaaaafaaaafaaaafaaaafaaaafaaaafaaaafaaaafaaaafaaaafaaaafaaaafaaaafaaaafaaaafaaaafaaaafaaaafaaaafaaaafaaaafaaaafaaaafaaaafaaaafaaaafaaaafaaaafaaaafaaaafaaaafaaaafaaaafaaaafaaaafaaaafaaaafaaaafaaaafaaaafaaaafaaaafaaaafaaaafaaaafaaaafaaaafaaaafaaaafaaaafaaaafaaaafaaaafaaaafaaaafaaaafaaaafaaaafaaaafaaaafaaaafaaaafaaaafaaaafaaaafaaaafaaaafaaaafaaaafaaaafaaaafaaaafaaaafaaaafaaaafaaaafaaaafaaaafaaaafaaaafaaaafaaaafaaaafaaaafaaaafaaaafaaaafaaaafaaaafaaaafaaaafaaaafaaaafaaaafaaaafaaaafaaaafaaaafaaaafaaaafaaaafaaaafaaaafaaaafaaaafaaaafaaaafaaaafaaaafaaaafaaaafaaaafaaaafaaaafaaaafaaaafaaaafaaaafaaaafaaaafaaaafaaaafaaaafaaaafaaaafaaaafaaaafaaaafaaaafaaaafaaaafaaaafaaaafaaaafaaaafaaaafaaaafaaaafaaaafaaaafaaaafaaaafaaaafaaaafaaaafaaaafaaaafaaaafaaaafaaaafaaaafaaaafaaaafaaaafaaaafaaaafaaaafaaaafaaaafaaaafaaaafaaaafaaaafaaaafaaaafaaaafaaaafaaaafaaaafaaaafaaaafaaaafaaaafaaaafaaaafaaaafaaaafaaaafaaaafaaaafaaaafaaaafaaaafaaaafaaaafaaaafaaaafaaaafaaaafaaaafaaaafaaaafaaaafaaaafaaaafaaaafaaaafaaaafaaaafaaaafaaaafaaaafaaaafaaaafaaaafaaaafaaaafaaaafaaaafaaaafaaaafaaaafaaaafaaaafaaaafaaaafaaaafaaaafaaaafaaaafaaaafaaaafaaaafaaaafaaaafaaaafaaaafaaaafaaaafaaaafaaaafaaaafaaaafaaaafaaaafaaaafaaaafaaaafaaaafaaaafaaaafaaaafaaaafaaaafaaaafaaaafaaaafaaaafaaaafaaaafaaaafaaaafaaaafaaaafaaaafaaaafaaaafaaaafaaaafaaaafaaaafaaaafaaaafaaaafaaaafaaaafaaaafaaaafaaaafaaaafaaaafaaaafaaaafaaaafaaaafaaaafaaaafaaaafaaaafaaaafaaaafaaaafaaaafaaaafaaaafaaaafaaaafaaaafaaaafaaaafaaaafaaaafaaaafaaaafaaaafaaaafaaaafaaaafaaaafaaaafaaaafaaaafaaaafaaaafaaaafaaaafaaaafaaaafaaaafaaaafaaaafaaaafaaaafaaaafaaaafaaaafaaaafaaaafaaaafaaaafaaaafaaaafaaaafaaaafaaaafaaaafaaaafaaaafaaaafaaaafaaaafaaaafaaaafaaaafaaaafaaaafaaaafaaaafaaaafaaaafaaaafaaaafaaaafaaaafaaaafaaaafaaaafaaaafaaaafaaaafaaaafaaaafaaaafaaaafaaaafaaaafaaaafaaaafaaaafaaaafaaaafaaaafaaaafaaaafaaaafaaaafaaaafaaaafaaaafaaaafaaaafaaaafaaaafaaaafaaaafaaaafaaaafaaaafaaaafaaaafaaaafaaaafaaaafaaaafaaaafaaaafaaaafaaaafaaaafaaaafaaaafaaaafaaaafaaaafaaaafaaaafaaaafaaaafaaaafaaaafaaaafaaaafaaaafaaaafaaaafaaaafaaaafaaaafaaaafaaaafaaaafaaaafaaaafaaaafaaaafaaaafaaaafaaaafaaaafaaaafaaaafaaaafaaaafaaaafaaaafaaaafaaaafaaaafaaaafaaaafaaaafaaaafaaaafaaaafaaaafaaaafaaaafaaaafaaaafaaaafaaaafaaaafaaaafaaaafaaaafaaaafaaaafaaaafaaaafaaaafaaaafaaaafaaaafaaaafaaaafaaaafaaaafaaaafaaaafaaaafaaaafaaaafaaaafaaaafaaaafaaaafaaaafaaaafaaaafaaaafaaaafaaaafaaaafaaaafaaaafaaaafaaaafaaaafaaaafaaaafaaaafaaaafaaaafaaaafaaaafaaaafaaaafaaaafaaaafaaaafaaaafaaaafaaaafaaaafaaaafaaaafaaaafaaaafaaaafaaaafaaaafaaaafaaaafaaaafaaaafaaaafaaaafaaaafaaaafaaaafaaaafaaaafaaaafaaaafaaaafaaaafaaaafaaaafaaaafaaaafaaaafaaaafaaaafaaaafaaaafaaaafaaaafaaaafaaaafaaaafaaaafaaaafaaaafaaaafaaaafaaaafaaaafaaaafaaaafaaaafaaaafaaaafaaaafaaaafaaaafaaaafaaaafaaaafaaaafaaaafaaaafaaaafaaaafaaaafaaaafaaaafaaaafaaaafaaaafaaaafaaaafaaaafaaaafaaaafaaaafaaaafaaaafaaaafaaaafaaaafaaaafaaaafaaaafaaaafaaaafaaaafaaaafaaaafaaaafaaaafaaaafaaaafaaaafaaaafaaaafaaaafaaaafaaaafaaaafaaaafaaaafaaaafaaaafaaaafaaaafaaaafaaaafaaaafaaaafaaaafaaaafaaaafaaaafaaaafaaaafaaaafaaaafaaaafaaaafaaaafaaaafaaaafaaaafaaaafaaaafaaaafaaaafaaaafaaaafaaaafaaaafaaaafaaaafaaaafaaaafaaaafaaaafaaaafaaaafaaaafaaaafaaaafaaaafaaaafaaaafaaaafaaaafaaaafaaaafaaaafaaaafaaaafaaaafaaaafaaaafaaaafaaaafaaaafaaaafaaaafaaaafaaaafaaaafaaaafaaaafaaaafaaaafaaaafaaaafaaaafaaaafaaaafaaaafaaaafaaaafaaaafaaaafaaaafaaaafaaaafaaaafaaaafaaaafaaaafaaaafaaaafaaaafaaaafaaaafaaaafaaaafaaaafaaaafaaaafaaaafaaaafaaaafaaaafaaaafaaaafaaaafaaaafaaaafaaaafaaaafaaaafaaaafaaaafaaaafaaaafaaaafaaaafaaaafaaaafaaaafaaaafaaaafaaaafaaaafaaaafaaaafaaaafaaaafaaaafaaaafaaaafaaaafaaaafaaaafaaaafaaaafaaaafaaaafaaaafaaaafaaaafaaaafaaaafaaaafaaaafaaaafaaaafaaaafaaaafaaaafaaaafaaaafaaaafaaaafaaaafaaaafaaaafaaaafaaaafaaaafaaaafaaaafaaaafaaaafaaaafaaaafaaaafaaaafaaaafaaaafaaaafaaaafaaaafaaaafaaaafaaaafaaaafaaaafaaaafaaaafaaaafaaaafaaaafaaaafaaaafaaaafaaaafaaaafaaaafaaaafaaaafaaaafaaaafaaaafaaaafaaaafaaaafaaaafaaaafaaaafaaaafaaaafaaaafaaaafaaaafaaaafaaaafaaaafaaaafaaaafaaaafaaaafaaaafaaaafaaaafaaaafaaaafaaaafaaaafaaaafaaaafaaaafaaaafaaaafaaaafaaaafaaaafaaaafaaaafaaaafaaaafaaaafaaaafaaaafaaaafaaaafaaaafaaaafaaaafaaaafaaaafaaaafaaaafaaaafaaaafaaaafaaaafaaaafaaaafaaaafaaaafaaaafaaaafaaaafaaaafaaaafaaaafaaaafaaaafaaaafaaaafaaaafaaaafaaaafaaaafaaaafaaaafaaaafaaaafaaaafaaaafaaaafaaaafaaaafaaaafaaaafaaaafaaaafaaaafaaaafaaaafaaaafaaaafaaaafaaaafaaaafaaaafaaaafaaaafaaaafaaaafaaaafaaaafaaaafaaaafaaaafaaaafaaaafaaaafaaaafaaaafaaaafaaaafaaaafaaaafaaaafaaaafaaaafaaaafaaaafaaaafaaaafaaaafaaaafaaaafaaaafaaaafaaaafaaaafaaaafaaaafaaaafaaaafaaaafaaaafaaaafaaaafaaaafaaaafaaaafaaaafaaaafaaaafaaaafaaaafaaaafaaaafaaaafaaaafaaaafaaaafaaaafaaaafaaaafaaaafaaaafaaaafaaaafaaaafaaaafaaaafaaaafaaaafaaaafaaaafaaaafaaaafaaaafaaaafaaaafaaaafaaaafaaaafaaaafaaaafaaaafaaaafaaaafaaaafaaaafaaaafaaaafaaaafaaaafaaaafaaaafaaaafaaaafaaaafaaaafaaaafaaaafaaaafaaaafaaaafaaaafaaaafaaaafaaaafaaaafaaaafaaaafaaaafaaaafaaaafaaaafaaaafaaaafaaaafaaaafaaaafaaaafaaaafaaaafaaaafaaaafaaaafaaaafaaaafaaaafaaaafaaaafaaaafaaaafaaaafaaaafaaaafaaaafaaaafaaaafaaaafaaaafaaaafaaaafaaaafaaaafaaaafaaaafaaaafaaaafaaaafaaaafaaaafaaaafaaaafaaaafaaaafaaaafaaaafaaaafaaaafaaaafaaaafaaaafaaaafaaaafaaaafaaaafaaaafaaaafaaaafaaaafaaaafaaaafaaaafaaaafaaaafaaaafaaaafaaaafaaaafaaaafaaaafaaaafaaaafaaaafaaaafaaaafaaaafaaaafaaaafaaaafaaaafaaaafaaaafaaaafaaaafaaaafaaaafaaaafaaaafaaaafaaaafaaaafaaaafaaaafaaaafaaaafaaaafaaaafaaaafaaaafaaaafaaaafaaaafaaaafaaaafaaaafaaaafaaaafaaaafaaaafaaaafaaaafaaaafaaaafaaaafaaaafaaaafaaaafaaaafaaaafaaaafaaaafaaaafaaaafaaaafaaaafaaaafaaaafaaaafaaaafaaaafaaaafaaaafaaaafaaaafaaaafaaaafaaaafaaaafaaaafaaaafaaaafaaaafaaaafaaaafaaaafaaaafaaaafaaaafaaaafaaaafaaaafaaaafaaaafaaaafaaaafaaaafaaaafaaaafaaaafaaaafaaaafaaaafaaaafaaaafaaaafaaaafaaaafaaaafaaaafaaaafaaaafaaaafaaaafaaaafaaaafaaaafaaaafaaaafaaaafaaaafaaaafaaaafaaaafaaaafaaaafaaaafaaaafaaaafaaaafaaaafaaaafaaaafaaaafaaaafaaaafaaaafaaaafaaaafaaaafaaaafaaaafaaaafaaaafaaaafaaaafaaaafaaaafaaaafaaaafaaaafaaaafaaaafaaaafaaaafaaaafaaaafaaaafaaaafaaaafaaaafaaaafaaaafaaaafaaaafaaaafaaaafaaaafaaaafaaaafaaaafaaaafaaaafaaaafaaaafaaaafaaaafaaaafaaaafaaaafaaaafaaaafaaaafaaaafaaaafaaaafaaaafaaaafaaaafaaaafaaaafaaaafaaaafaaaafaaaafaaaafaaaafaaaafaaaafaaaafaaaafaaaafaaaafaaaafaaaafaaaafaaaafaaaafaaaafaaaafaaaafaaaafaaaafaaaafaaaafaaaafaaaafaaaafaaaafaaaafaaaafaaaafaaaafaaaafaaaafaaaafaaaafaaaafaaaafaaaafaaaafaaaafaaaafaaaafaaaafaaaafaaaafaaaafaaaafaaaafaaaafaaaafaaaafaaaafaaaafaaaafaaaafaaaafaaaafaaaafaaaafaaaafaaaafaaaafaaaafaaaafaaaafaaaafaaaafaaaafaaaafaaaafaaaafaaaafaaaafaaaafaaaafaaaafaaaafaaaafaaaafaaaafaaaafaaaafaaaafaaaafaaaafaaaafaaaafaaaafaaaafaaaafaaaafaaaafaaaafaaaafaaaafaaaafaaaafaaaafaaaafaaaafaaaafaaaafaaaafaaaafaaaafaaaafaaaafaaaafaaaafaaaafaaaafaaaafaaaafaaaafaaaafaaaafaaaafaaaafaaaafaaaafaaaafaaaafaaaafaaaafaaaafaaaafaaaafaaaafaaaafaaaafaaaafaaaafaaaafaaaafaaaafaaaafaaaafaaaafaaaafaaaafaaaafaaaafaaaafaaaafaaaafaaaafaaaafaaaafaaaafaaaafaaaafaaaafaaaafaaaafaaaafaaaafaaaafaaaafaaaafaaaafaaaafaaaafaaaafaaaafaaaafaaaafaaaafaaaafaaaafaaaafaaaafaaaafaaaafaaaafaaaafaaaafaaaafaaaafaaaafaaaafaaaafaaaafaaaafaaaafaaaafaaaafaaaafaaaafaaaafaaaafaaaafaaaafaaaafaaaafaaaafaaaafaaaafaaaafaaaafaaaafaaaafaaaafaaaafaaaafaaaafaaaafaaaafaaaafaaaafaaaafaaaafaaaafaaaafaaaafaaaafaaaafaaaafaaaafaaaafaaaafaaaafaaaafaaaafaaaafaaaafaaaafaaaafaaaafaaaafaaaafaaaafaaaafaaaafaaaafaaaafaaaafaaaafaaaafaaaafaaaafaaaafaaaafaaaafaaaafaaaafaaaafaaaafaaaafaaaafaaaafaaaafaaaafaaaafaaaafaaaafaaaafaaaafaaaafaaaafaaaafaaaafaaaafaaaafaaaafaaaafaaaafaaaafaaaafaaaafaaaafaaaafaaaafaaaafaaaafaaaafaaaafaaaafaaaafaaaafaaaafaaaafaaaafaaaafaaaafaaaafaaaafaaaafaaaafaaaafaaaafaaaafaaaafaaaafaaaafaaaafaaaafaaaafaaaafaaaafaaaafaaaafaaaafaaaafaaaafaaaafaaaafaaaafaaaafaaaafaaaafaaaafaaaafaaaafaaaafaaaafaaaafaaaafaaaafaaaafaaaafaaaafaaaafaaaafaaaafaaaafaaaafaaaafaaaafaaaafaaaafaaaafaaaafaaaafaaaafaaaafaaaafaaaafaaaafaaaafaaaafaaaafaaaafaaaafaaaafaaaafaaaafaaaafaaaafaaaafaaaafaaaafaaaafaaaafaaaafaaaafaaaafaaaafaaaafaaaafaaaafaaaafaaaafaaaafaaaafaaaafaaaafaaaafaaaafaaaafaaaafaaaafaaaafaaaafaaaafaaaafaaaafaaaafaaaafaaaafaaaafaaaafaaaafaaaafaaaafaaaafaaaafaaaafaaaafaaaafaaaafaaaafaaaafaaaafaaaafaaaafaaaafaaaafaaaafaaaafaaaafaaaafaaaafaaaafaaaafaaaafaaaafaaaafaaaafaaaafaaaafaaaafaaaafaaaafaaaafaaaafaaaafaaaafaaaafaaaafaaaafaaaafaaaafaaaafaaaafaaaafaaaafaaaafaaaafaaaafaaaafaaaafaaaafaaaafaaaafaaaafaaaafaaaafaaaafaaaafaaaafaaaafaaaafaaaafaaaafaaaafaaaafaaaafaaaafaaaafaaaafaaaafaaaafaaaafaaaafaaaafaaaafaaaafaaaafaaaafaaaafaaaafaaaafaaaafaaaafaaaafaaaafaaaafaaaafaaaafaaaafaaaafaaaafaaaafaaaafaaaafaaaafaaaafaaaafaaaafaaaafaaaafaaaafaaaafaaaafaaaafaaaafaaaafaaaafaaaafaaaafaaaafaaaafaaaafaaaafaaaafaaaafaaaafaaaafaaaafaaaafaaaafaaaafaaaafaaaafaaaafaaaafaaaafaaaafaaaafaaaafaaaafaaaafaaaafaaaafaaaafaaaafaaaafaaaafaaaafaaaafaaaafaaaafaaaafaaaafaaaafaaaafaaaafaaaafaaaafaaaafaaaafaaaafaaaafaaaafaaaafaaaafaaaafaaaafaaaafaaaafaaaafaaaafaaaafaaaafaaaafaaaafaaaafaaaafaaaafaaaafaaaafaaaafaaaafaaaafaaaafaaaafaaaafaaaafaaaafaaaafaaaafaaaafaaaafaaaafaaaafaaaafaaaafaaaafaaaafaaaafaaaafaaaafaaaafaaaafaaaafaaaafaaaafaaaafaaaafaaaafaaaafaaaafaaaafaaaafaaaafaaaafaaaafaaaafaaaafaaaafaaaafaaaafaaaafaaaafaaaafaaaafaaaafaaaafaaaafaaaafaaaafaaaafaaaafaaaafaaaafaaaafaaaafaaaafaaaafaaaafaaaafaaaafaaaafaaaafaaaafaaaafaaaafaaaafaaaafaaaafaaaafaaaafaaaafaaaafaaaafaaaafaaaafaaaafaaaafaaaafaaaafaaaafaaaafaaaafaaaafaaaafaaaafaaaafaaaafaaaafaaaafaaaafaaaafaaaafaaaafaaaafaaaafaaaafaaaafaaaafaaaafaaaafaaaafaaaafaaaafaaaafaaaafaaaafaaaafaaaafaaaafaaaafaaaafaaaafaaaafaaaafaaaafaaaafaaaafaaaafaaaafaaaafaaaafaaaafaaaafaaaafaaaafaaaafaaaafaaaafaaaafaaaafaaaafaaaafaaaafaaaafaaaafaaaafaaaafaaaafaaaafaaaafaaaafaaaafaaaafaaaafaaaafaaaafaaaafaaaafaaaafaaaafaaaafaaaafaaaafaaaafaaaafaaaafaaaafaaaafaaaafaaaafaaaafaaaafaaaafaaaafaaaafaaaafaaaafaaaafaaaafaaaafaaaafaaaafaaaafaaaafaaaafaaaafaaaafaaaafaaaafaaaafaaaafaaaafaaaafaaaafaaaafaaaafaaaafaaaafaaaafaaaafaaaafaaaafaaaafaaaafaaaafaaaafaaaafaaaafaaaafaaaafaaaafaaaafaaaafaaaafaaaafaaaafaaaafaaaafaaaafaaaafaaaafaaaafaaaafaaaafaaaafaaaafaaaafaaaafaaaafaaaafaaaafaaaafaaaafaaaafaaaafaaaafaaaafaaaafaaaafaaaafaaaafaaaafaaaafaaaafaaaafaaaafaaaafaaaafaaaafaaaafaaaafaaaafaaaafaaaafaaaafaaaafaaaafaaaafaaaafaaaafaaaafaaaafaaaafaaaafaaaafaaaafaaaafaaaafaaaafaaaafaaaafaaaafaaaafaaaafaaaafaaaafaaaafaaaafaaaafaaaafaaaafaaaafaaaafaaaafaaaafaaaafaaaafaaaafaaaafaaaafaaaafaaaafaaaafaaaafaaaafaaaafaaaafaaaafaaaafaaaafaaaafaaaafaaaafaaaafaaaafaaaafaaaafaaaafaaaafaaaafaaaafaaaafaaaafaaaafaaaafaaaafaaaafaaaafaaaafaaaafaaaafaaaafaaaafaaaafaaaafaaaafaaaafaaaafaaaafaaaafaaaafaaaafaaaafaaaafaaaafaaaafaaaafaaaafaaaafaaaafaaaafaaaafaaaafaaaafaaaafaaaafaaaafaaaafaaaafaaaafaaaafaaaafaaaafaaaafaaaafaaaafaaaafaaaafaaaafaaaafaaaafaaaafaaaafaaaafaaaafaaaafaaaafaaaafaaaafaaaafaaaafaaaafaaaafaaaafaaaafaaaafaaaafaaaafaaaafaaaafaaaafaaaafaaaafaaaafaaaafaaaafaaaafaaaafaaaafaaaafaaaafaaaafaaaafaaaafaaaafaaaafaaaafaaaafaaaafaaaafaaaafaaaafaaaafaaaafaaaafaaaafaaaafaaaafaaaafaaaafaaaafaaaafaaaafaaaafaaaafaaaafaaaafaaaafaaaafaaaafaaaafaaaafaaaafaaaafaaaafaaaafaaaafaaaafaaaafaaaafaaaafaaaafaaaafaaaafaaaafaaaafaaaafaaaafaaaafaaaafaaaafaaaafaaaafaaaafaaaafaaaafaaaafaaaafaaaafaaaafaaaafaaaafaaaafaaaafaaaafaaaafaaaafaaaafaaaafaaaafaaaafaaaafaaaafaaaafaaaafaaaafaaaafaaaafaaaafaaaafaaaafaaaafaaaafaaaafaaaafaaaafaaaafaaaafaaaafaaaafaaaafaaaafaaaafaaaafaaaafaaaafaaaafaaaafaaaafaaaafaaaafaaaafaaaafaaaafaaaafaaaafaaaafaaaafaaaafaaaafaaaafaaaafaaaafaaaafaaaafaaaafaaaafaaaafaaaafaaaafaaaafaaaafaaaafaaaafaaaafaaaafaaaafaaaafaaaafaaaafaaaafaaaafaaaafaaaafaaaafaaaafaaaafaaaafaaaafaaaafaaaafaaaafaaaafaaaafaaaafaaaafaaaafaaaafaaaafaaaafaaaafaaaafaaaafaaaafaaaafaaaafaaaafaaaafaaaafaaaafaaaafaaaafaaaafaaaafaaaafaaaafaaaafaaaafaaaafaaaafaaaafaaaafaaaafaaaafaaaafaaaafaaaafaaaafaaaafaaaafaaaafaaaafaaaafaaaafaaaafaaaafaaaafaaaafaaaafaaaafaaaafaaaafaaaafaaaafaaaafaaaafaaaafaaaafaaaafaaaafaaaafaaaafaaaafaaaafaaaafaaaafaaaafaaaafaaaafaaaafaaaafaaaafaaaafaaaafaaaafaaaafaaaafaaaafaaaafaaaafaaaafaaaafaaaafaaaafaaaafaaaafaaaafaaaafaaaafaaaafaaaafaaaafaaaafaaaafaaaafaaaafaaaafaaaafaaaafaaaafaaaafaaaafaaaafaaaafaaaafaaaafaaaafaaaafaaaafaaaafaaaafaaaafaaaafaaaafaaaafaaaafaaaafaaaafaaaafaaaafaaaafaaaafaaaafaaaafaaaafaaaafaaaafaaaafaaaafaaaafaaaafaaaafaaaafaaaafaaaafaaaafaaaafaaaafaaaafaaaafaaaafaaaafaaaafaaaafaaaafaaaafaaaafaaaafaaaafaaaafaaaafaaaafaaaafaaaafaaaafaaaafaaaafaaaafaaaafaaaafaaaafaaaafaaaafaaaafaaaafaaaafaaaafaaaafaaaafaaaafaaaafaaaafaaaafaaaafaaaafaaaafaaaafaaaafaaaafaaaafaaaafaaaafaaaafaaaafaaaafaaaafaaaafaaaafaaaafaaaafaaaafaaaafaaaafaaaafaaaafaaaafaaaafaaaafaaaafaaaafaaaafaaaafaaaafaaaafaaaafaaaafaaaafaaaafaaaafaaaafaaaafaaaafaaaafaaaafaaaafaaaafaaaafaaaafaaaafaaaafaaaafaaaafaaaafaaaafaaaafaaaafaaaafaaaafaaaafaaaafaaaafaaaafaaaafaaaafaaaafaaaafaaaafaaaafaaaafaaaafaaaafaaaafaaaafaaaafaaaafaaaafaaaafaaaafaaaafaaaafaaaafaaaafaaaafaaaafaaaafaaaafaaaafaaaafaaaafaaaafaaaafaaaafaaaafaaaafaaaafaaaafaaaafaaaafaaaafaaaafaaaafaaaafaaaafaaaafaaaafaaaafaaaafaaaafaaaafaaaafaaaafaaaafaaaafaaaafaaaafaaaafaaaafaaaafaaaafaaaafaaaafaaaafaaaafaaaafaaaafaaaafaaaafaaaafaaaafaaaafaaaafaaaafaaaafaaaafaaaafaaaafaaaafaaaafaaaafaaaafaaaafaaaafaaaafaaaafaaaafaaaafaaaafaaaafaaaafaaaafaaaafaaaafaaaafaaaafaaaafaaaafaaaafaaaafaaaafaaaafaaaafaaaafaaaafaaaafaaaafaaaafaaaafaaaafaaaafaaaafaaaafaaaafaaaafaaaafaaaafaaaafaaaafaaaafaaaafaaaafaaaafaaaafaaaafaaaafaaaafaaaafaaaafaaaafaaaafaaaafaaaafaaaafaaaafaaaafaaaafaaaafaaaafaaaafaaaafaaaafaaaafaaaafaaaafaaaafaaaafaaaafaaaafaaaafaaaafaaaafaaaafaaaafaaaafaaaafaaaafaaaafaaaafaaaafaaaafaaaafaaaafaaaafaaaafaaaafaaaafaaaafaaaafaaaafaaaafaaaafaaaafaaaafaaaafaaaafaaaafaaaafaaaafaaaafaaaafaaaafaaaafaaaafaaaafaaaafaaaafaaaafaaaafaaaafaaaafaaaafaaaafaaaafaaaafaaaafaaaafaaaafaaaafaaaafaaaafaaaafaaaafaaaafaaaafaaaafaaaafaaaafaaaafaaaafaaaafaaaafaaaafaaaafaaaafaaaafaaaafaaaafaaaafaaaafaaaafaaaafaaaafaaaafaaaafaaaafaaaafaaaafaaaafaaaafaaaafaaaafaaaafaaaafaaaafaaaafaaaafaaaafaaaafaaaafaaaafaaaafaaaafaaaafaaaafaaaafaaaafaaaafaaaafaaaafaaaafaaaafaaaafaaaafaaaafaaaafaaaafaaaafaaaafaaaafaaaafaaaafaaaafaaaafaaaafaaaafaaaafaaaafaaaafaaaafaaaafaaaafaaaafaaaafaaaafaaaafaaaafaaaafaaaafaaaafaaaafaaaafaaaafaaaafaaaafaaaafaaaafaaaafaaaafaaaafaaaafaaaafaaaafaaaafaaaafaaaafaaaafaaaafaaaafaaaafaaaafaaaafaaaafaaaafaaaafaaaafaaaafaaaafaaaafaaaafaaaafaaaafaaaafaaaafaaaafaaaafaaaafaaaafaaaafaaaafaaaafaaaafaaaafaaaafaaaafaaaafaaaafaaaafaaaafaaaafaaaafaaaafaaaafaaaafaaaafaaaafaaaafaaaafaaaafaaaafaaaafaaaafaaaafaaaafaaaafaaaafaaaafaaaafaaaafaaaafaaaafaaaafaaaafaaaafaaaafaaaafaaaafaaaafaaaafaaaafaaaafaaaafaaaafaaaafaaaafaaaafaaaafaaaafaaaafaaaafaaaafaaaafaaaafaaaafaaaafaaaafaaaafaaaafaaaafaaaafaaaafaaaafaaaafaaaafaaaafaaaafaaaafaaaafaaaafaaaafaaaafaaaafaaaafaaaafaaaafaaaafaaaafaaaafaaaafaaaafaaaafaaaafaaaafaaaafaaaafaaaafaaaafaaaafaaaafaaaafaaaafaaaafaaaafaaaafaaaafaaaafaaaafaaaafaaaafaaaafaaaafaaaafaaaafaaaafaaaafaaaafaaaafaaaafaaaafaaaafaaaafaaaafaaaafaaaafaaaafaaaafaaaafaaaafaaaafaaaafaaaafaaaafaaaafaaaafaaaafaaaafaaaafaaaafaaaafaaaafaaaafaaaafaaaafaaaafaaaafaaaafaaaafaaaafaaaafaaaafaaaafaaaafaaaafaaaafaaaafaaaafaaaafaaaafaaaafaaaafaaaafaaaafaaaafaaaafaaaafaaaafaaaafaaaafaaaafaaaafaaaafaaaafaaaafaaaafaaaafaaaafaaaafaaaafaaaafaaaafaaaafaaaafaaaafaaaafaaaafaaaafaaaafaaaafaaaafaaaafaaaafaaaafaaaafaaaafaaaafaaaafaaaafaaaafaaaafaaaafaaaafaaaafaaaafaaaafaaaafaaaafaaaafaaaafaaaafaaaafaaaafaaaafaaaafaaaafaaaafaaaafaaaafaaaafaaaafaaaafaaaafaaaafaaaafaaaafaaaafaaaafaaaafaaaafaaaafaaaafaaaafaaaafaaaafaaaafaaaafaaaafaaaafaaaafaaaafaaaafaaaafaaaafaaaafaaaafaaaafaaaafaaaafaaaafaaaafaaaafaaaafaaaafaaaafaaaafaaaafaaaafaaaafaaaafaaaafaaaafaaaafaaaafaaaafaaaafaaaafaaaafaaaafaaaafaaaafaaaafaaaafaaaafaaaafaaaafaaaafaaaafaaaafaaaafaaaafaaaafaaaafaaaafaaaafaaaafaaaafaaaafaaaafaaaafaaaafaaaafaaaafaaaafaaaafaaaafaaaafaaaafaaaafaaaafaaaafaaaafaaaafaaaafaaaafaaaafaaaafaaaafaaaafaaaafaaaafaaaafaaaafaaaafaaaafaaaafaaaafaaaafaaaafaaaafaaaafaaaafaaaafaaaafaaaafaaaafaaaafaaaafaaaafaaaafaaaafaaaafaaaafaaaafaaaafaaaafaaaafaaaafaaaafaaaafaaaafaaaafaaaafaaaafaaaafaaaafaaaafaaaafaaaafaaaafaaaafaaaafaaaafaaaafaaaafaaaafaaaafaaaafaaaafaaaafaaaafaaaafaaaafaaaafaaaafaaaafaaaafaaaafaaaafaaaafaaaafaaaafaaaafaaaafaaaafaaaafaaaafaaaafaaaafaaaafaaaafaaaafaaaafaaaafaaaafaaaafaaaafaaaafaaaafaaaafaaaafaaaafaaaafaaaafaaaafaaaafaaaafaaaafaaaafaaaafaaaafaaaafaaaafaaaafaaaafaaaafaaaafaaaafaaaafaaaafaaaafaaaafaaaafaaaafaaaafaaaafaaaafaaaafaaaafaaaafaaaafaaaafaaaafaaaafaaaafaaaafaaaafaaaafaaaafaaaafaaaafaaaafaaaafaaaafaaaafaaaafaaaafaaaafaaaafaaaafaaaafaaaafaaaafaaaafaaaafaaaafaaaafaaaafaaaafaaaafaaaafaaaafaaaafaaaafaaaafaaaafaaaafaaaafaaaafaaaafaaaafaaaafaaaafaaaafaaaafaaaafaaaafaaaafaaaafaaaafaaaafaaaafaaaafaaaafaaaafaaaafaaaafaaaafaaaafaaaafaaaafaaaafaaaafaaaafaaaafaaaafaaaafaaaafaaaafaaaafaaaafaaaafaaaafaaaafaaaafaaaafaaaafaaaafaaaafaaaafaaaafaaaafaaaafaaaafaaaafaaaafaaaafaaaafaaaafaaaafaaaafaaaafaaaafaaaafaaaafaaaafaaaafaaaafaaaafaaaafaaaafaaaafaaaafaaaafaaaafaaaafaaaafaaaafaaaafaaaafaaaafaaaafaaaafaaaafaaaafaaaafaaaafaaaafaaaafaaaafaaaafaaaafaaaafaaaafaaaafaaaafaaaafaaaafaaaafaaaafaaaafaaaafaaaafaaaafaaaafaaaafaaaafaaaafaaaafaaaafaaaafaaaafaaaafaaaafaaaafaaaafaaaafaaaafaaaafaaaafaaaafaaaafaaaafaaaafaaaafaaaafaaaafaaaafaaaafaaaafaaaafaaaafaaaafaaaafaaaafaaaafaaaafaaaafaaaafaaaafaaaafaaaafaaaafaaaafaaaafaaaafaaaafaaaafaaaafaaaafaaaafaaaafaaaafaaaafaaaafaaaafaaaafaaaafaaaafaaaafaaaafaaaafaaaafaaaafaaaafaaaafaaaafaaaafaaaafaaaafaaaafaaaafaaaafaaaafaaaafaaaafaaaafaaaafaaaafaaaafaaaafaaaafaaaafaaaafaaaafaaaafaaaafaaaafaaaafaaaafaaaafaaaafaaaafaaaafaaaafaaaafaaaafaaaafaaaafaaaafaaaafaaaafaaaafaaaafaaaafaaaafaaaafaaaafaaaafaaaafaaaafaaaafaaaafaaaafaaaafaaaafaaaafaaaafaaaafaaaafaaaafaaaafaaaafaaaafaaaafaaaafaaaafaaaafaaaafaaaafaaaafaaaafaaaafaaaafaaaafaaaafaaaafaaaafaaaafaaaafaaaafaaaafaaaafaaaafaaaafaaaafaaaafaaaafaaaafaaaafaaaafaaaafaaaafaaaafaaaafaaaafaaaafaaaafaaaafaaaafaaaafaaaafaaaafaaaafaaaafaaaafaaaafaaaafaaaafaaaafaaaafaaaafaaaafaaaafaaaafaaaafaaaafaaaafaaaafaaaafaaaafaaaafaaaafaaaafaaaafaaaafaaaafaaaafaaaafaaaafaaaafaaaafaaaafaaaafaaaafaaaafaaaafaaaafaaaafaaaafaaaafaaaafaaaafaaaafaaaafaaaafaaaafaaaafaaaafaaaafaaaafaaaafaaaafaaaafaaaafaaaafaaaafaaaafaaaafaaaafaaaafaaaafaaaafaaaafaaaafaaaafaaaafaaaafaaaafaaaafaaaafaaaafaaaafaaaafaaaafaaaafaaaafaaaafaaaafaaaafaaaafaaaafaaaafaaaafaaaafaaaafaaaafaaaafaaaafaaaafaaaafaaaafaaaafaaaafaaaafaaaafaaaafaaaafaaaafaaaafaaaafaaaafaaaafaaaafaaaafaaaafaaaafaaaafaaaafaaaafaaaafaaaafaaaafaaaafaaaafaaaafaaaafaaaafaaaafaaaafaaaafaaaafaaaafaaaafaaaafaaaafaaaafaaaafaaaafaaaafaaaafaaaafaaaafaaaafaaaafaaaafaaaafaaaafaaaafaaaafaaaafaaaafaaaafaaaafaaaafaaaafaaaafaaaafaaaafaaaafaaaafaaaafaaaafaaaafaaaafaaaafaaaafaaaafaaaafaaaafaaaafaaaafaaaafaaaafaaaafaaaafaaaafaaaafaaaafaaaafaaaafaaaafaaaafaaaafaaaafaaaafaaaafaaaafaaaafaaaafaaaafaaaafaaaafaaaafaaaafaaaafaaaafaaaafaaaafaaaafaaaafaaaafaaaafaaaafaaaafaaaafaaaafaaaafaaaafaaaafaaaafaaaafaaaafaaaafaaaafaaaafaaaafaaaafaaaafaaaafaaaafaaaafaaaafaaaafaaaafaaaafaaaafaaaafaaaafaaaafaaaafaaaafaaaafaaaafaaaafaaaafaaaafaaaafaaaafaaaafaaaafaaaafaaaafaaaafaaaafaaaafaaaafaaaafaaaafaaaafaaaafaaaafaaaafaaaafaaaafaaaafaaaafaaaafaaaafaaaafaaaafaaaafaaaafaaaafaaaafaaaafaaaafaaaafaaaafaaaafaaaafaaaafaaaafaaaafaaaafaaaafaaaafaaaafaaaafaaaafaaaafaaaafaaaafaaaafaaaafaaaafaaaafaaaafaaaafaaaafaaaafaaaafaaaafaaaafaaaafaaaafaaaafaaaafaaaafaaaafaaaafaaaafaaaafaaaafaaaafaaaafaaaafaaaafaaaafaaaafaaaafaaaafaaaafaaaafaaaafaaaafaaaafaaaafaaaafaaaafaaaafaaaafaaaafaaaafaaaafaaaafaaaafaaaafaaaafaaaafaaaafaaaafaaaafaaaafaaaafaaaafaaaafaaaafaaaafaaaafaaaafaaaafaaaafaaaafaaaafaaaafaaaafaaaafaaaafaaaafaaaafaaaafaaaafaaaafaaaafaaaafaaaafaaaafaaaafaaaafaaaafaaaafaaaafaaaafaaaafaaaafaaaafaaaafaaaafaaaafaaaafaaaafaaaafaaaafaaaafaaaafaaaafaaaafaaaafaaaafaaaafaaaafaaaafaaaafaaaafaaaafaaaafaaaafaaaafaaaafaaaafaaaafaaaafaaaafaaaafaaaafaaaafaaaafaaaafaaaafaaaafaaaafaaaafaaaafaaaafaaaafaaaafaaaafaaaafaaaafaaaafaaaafaaaafaaaafaaaafaaaafaaaafaaaafaaaafaaaafaaaafaaaafaaaafaaaafaaaafaaaafaaaafaaaafaaaafaaaafaaaafaaaafaaaafaaaafaaaafaaaafaaaafaaaafaaaafaaaafaaaafaaaafaaaafaaaafaaaafaaaafaaaafaaaafaaaafaaaafaaaafaaaafaaaafaaaafaaaafaaaafaaaafaaaafaaaafaaaafaaaafaaaafaaaafaaaafaaaafaaaafaaaafaaaafaaaafaaaafaaaafaaaafaaaafaaaafaaaafaaaafaaaafaaaafaaaafaaaafaaaafaaaafaaaafaaaafaaaafaaaafaaaafaaaafaaaafaaaafaaaafaaaafaaaafaaaafaaaafaaaafaaaafaaaafaaaafaaaafaaaafaaaafaaaafaaaafaaaafaaaafaaaafaaaafaaaafaaaafaaaafaaaafaaaafaaaafaaaafaaaafaaaafaaaafaaaafaaaafaaaafaaaafaaaafaaaafaaaafaaaafaaaafaaaafaaaafaaaafaaaafaaaafaaaafaaaafaaaafaaaafaaaafaaaafaaaafaaaafaaaafaaaafaaaafaaaafaaaafaaaafaaaafaaaafaaaafaaaafaaaafaaaafaaaafaaaafaaaafaaaafaaaafaaaafaaaafaaaafaaaafaaaafaaaafaaaafaaaafaaaafaaaafaaaafaaaafaaaafaaaafaaaafaaaafaaaafaaaafaaaafaaaafaaaafaaaafaaaafaaaafaaaafaaaafaaaafaaaafaaaafaaaafaaaafaaaafaaaafaaaafaaaafaaaafaaaafaaaafaaaafaaaafaaaafaaaafaaaafaaaafaaaafaaaafaaaafaaaafaaaafaaaafaaaafaaaafaaaafaaaafaaaafaaaafaaaafaaaafaaaafaaaafaaaafaaaafaaaafaaaafaaaafaaaafaaaafaaaafaaaafaaaafaaaafaaaafaaaafaaaafaaaafaaaafaaaafaaaafaaaafaaaafaaaafaaaafaaaafaaaafaaaafaaaafaaaafaaaafaaaafaaaafaaaafaaaafaaaafaaaafaaaafaaaafaaaafaaaafaaaafaaaafaaaafaaaafaaaafaaaafaaaafaaaafaaaafaaaafaaaafaaaafaaaafaaaafaaaafaaaafaaaafaaaafaaaafaaaafaaaafaaaafaaaafaaaafaaaafaaaafaaaafaaaafaaaafaaaafaaaafaaaafaaaafaaaafaaaafaaaafaaaafaaaafaaaafaaaafaaaafaaaafaaaafaaaafaaaafaaaafaaaafaaaafaaaafaaaafaaaafaaaafaaaafaaaafaaaafaaaafaaaafaaaafaaaafaaaafaaaafaaaafaaaafaaaafaaaafaaaafaaaafaaaafaaaafaaaafaaaafaaaafaaaafaaaafaaaafaaaafaaaafaaaafaaaafaaaafaaaafaaaafaaaafaaaafaaaafaaaafaaaafaaaafaaaafaaaafaaaafaaaafaaaafaaaafaaaafaaaafaaaafaaaafaaaafaaaafaaaafaaaafaaaafaaaafaaaafaaaafaaaafaaaafaaaafaaaafaaaafaaaafaaaafaaaafaaaafaaaafaaaafaaaafaaaafaaaafaaaafaaaafaaaafaaaafaaaafaaaafaaaafaaaafaaaafaaaafaaaafaaaafaaaafaaaafaaaafaaaafaaaafaaaafaaaafaaaafaaaafaaaafaaaafaaaafaaaafaaaafaaaafaaaafaaaafaaaafaaaafaaaafaaaafaaaafaaaafaaaafaaaafaaaafaaaafaaaafaaaafaaaafaaaafaaaafaaaafaaaafaaaafaaaafaaaafaaaafaaaafaaaafaaaafaaaafaaaafaaaafaaaafaaaafaaaafaaaafaaaafaaaafaaaafaaaafaaaafaaaafaaaafaaaafaaaafaaaafaaaafaaaafaaaafaaaafaaaafaaaafaaaafaaaafaaaafaaaafaaaafaaaafaaaafaaaafaaaafaaaafaaaafaaaafaaaafaaaafaaaafaaaafaaaafaaaafaaaafaaaafaaaafaaaafaaaafaaaafaaaafaaaafaaaafaaaafaaaafaaaafaaaafaaaafaaaafaaaafaaaafaaaafaaaafaaaafaaaafaaaafaaaafaaaafaaaafaaaafaaaafaaaafaaaafaaaafaaaafaaaafaaaafaaaafaaaafaaaafaaaafaaaafaaaafaaaafaaaafaaaafaaaafaaaafaaaafaaaafaaaafaaaafaaaafaaaafaaaafaaaafaaaafaaaafaaaafaaaafaaaafaaaafaaaafaaaafaaaafaaaafaaaafaaaafaaaafaaaafaaaafaaaafaaaafaaaafaaaafaaaafaaaafaaaafaaaafaaaafaaaafaaaafaaaafaaaafaaaafaaaafaaaafaaaafaaaafaaaafaaaafaaaafaaaafaaaafaaaafaaaafaaaafaaaafaaaafaaaafaaaafaaaafaaaafaaaafaaaafaaaafaaaafaaaafaaaafaaaafaaaafaaaafaaaafaaaafaaaafaaaafaaaafaaaafaaaafaaaafaaaafaaaafaaaafaaaafaaaafaaaafaaaafaaaafaaaafaaaafaaaafaaaafaaaafaaaafaaaafaaaafaaaafaaaafaaaafaaaafaaaafaaaafaaaafaaaafaaaafaaaafaaaafaaaafaaaafaaaafaaaafaaaafaaaafaaaafaaaafaaaafaaaafaaaafaaaafaaaafaaaafaaaafaaaafaaaafaaaafaaaafaaaafaaaafaaaafaaaafaaaafaaaafaaaafaaaafaaaafaaaafaaaafaaaafaaaafaaaafaaaafaaaafaaaafaaaafaaaafaaaafaaaafaaaafaaaafaaaafaaaafaaaafaaaafaaaafaaaafaaaafaaaafaaaafaaaafaaaafaaaafaaaafaaaafaaaafaaaafaaaafaaaafaaaafaaaafaaaafaaaafaaaafaaaafaaaafaaaafaaaafaaaafaaaafaaaafaaaafaaaafaaaafaaaafaaaafaaaafaaaafaaaafaaaafaaaafaaaafaaaafaaaafaaaafaaaafaaaafaaaafaaaafaaaafaaaafaaaafaaaafaaaafaaaafaaaafaaaafaaaafaaaafaaaafaaaafaaaafaaaafaaaafaaaafaaaafaaaafaaaafaaaafaaaafaaaafaaaafaaaafaaaafaaaafaaaafaaaafaaaafaaaafaaaafaaaafaaaafaaaafaaaafaaaafaaaafaaaafaaaafaaaafaaaafaaaafaaaafaaaafaaaafaaaafaaaafaaaafaaaafaaaafaaaafaaaafaaaafaaaafaaaafaaaafaaaafaaaafaaaafaaaafaaaafaaaafaaaafaaaafaaaafaaaafaaaafaaaafaaaafaaaafaaaafaaaafaaaafaaaafaaaafaaaafaaaafaaaafaaaafaaaafaaaafaaaafaaaafaaaafaaaafaaaafaaaafaaaafaaaafaaaafaaaafaaaafaaaafaaaafaaaafaaaafaaaafaaaafaaaafaaaafaaaafaaaafaaaafaaaafaaaafaaaafaaaafaaaafaaaafaaaafaaaafaaaafaaaafaaaafaaaafaaaafaaaafaaaafaaaafaaaafaaaafaaaafaaaafaaaafaaaafaaaafaaaafaaaafaaaafaaaafaaaafaaaafaaaafaaaafaaaafaaaafaaaafaaaafaaaafaaaafaaaafaaaafaaaafaaaafaaaafaaaafaaaafaaaafaaaafaaaafaaaafaaaafaaaafaaaafaaaafaaaafaaaafaaaafaaaafaaaafaaaafaaaafaaaafaaaafaaaafaaaafaaaafaaaafaaaafaaaafaaaafaaaafaaaafaaaafaaaafaaaafaaaafaaaafaaaafaaaafaaaafaaaafaaaafaaaafaaaafaaaafaaaafaaaafaaaafaaaafaaaafaaaafaaaafaaaafaaaafaaaafaaaafaaaafaaaafaaaafaaaafaaaafaaaafaaaafaaaafaaaafaaaafaaaafaaaafaaaafaaaafaaaafaaaafaaaafaaaafaaaafaaaafaaaafaaaafaaaafaaaafaaaafaaaafaaaafaaaafaaaafaaaafaaaafaaaafaaaafaaaafaaaafaaaafaaaafaaaafaaaafaaaafaaaafaaaafaaaafaaaafaaaafaaaafaaaafaaaafaaaafaaaafaaaafaaaafaaaafaaaafaaaafaaaafaaaafaaaafaaaafaaaafaaaafaaaafaaaafaaaafaaaafaaaafaaaafaaaafaaaafaaaafaaaafaaaafaaaafaaaafaaaafaaaafaaaafaaaafaaaafaaaafaaaafaaaafaaaafaaaafaaaafaaaafaaaafaaaafaaaafaaaafaaaafaaaafaaaafaaaafaaaafaaaafaaaafaaaafaaaafaaaafaaaafaaaafaaaafaaaafaaaafaaaafaaaafaaaafaaaafaaaafaaaafaaaafaaaafaaaafaaaafaaaafaaaafaaaafaaaafaaaafaaaafaaaafaaaafaaaafaaaafaaaafaaaafaaaafaaaafaaaafaaaafaaaafaaaafaaaafaaaafaaaafaaaafaaaafaaaafaaaafaaaafaaaafaaaafaaaafaaaafaaaafaaaafaaaafaaaafaaaafaaaafaaaafaaaafaaaafaaaafaaaafaaaafaaaafaaaafaaaafaaaafaaaafaaaafaaaafaaaafaaaafaaaafaaaafaaaafaaaafaaaafaaaafaaaafaaaafaaaafaaaafaaaafaaaafaaaafaaaafaaaafaaaafaaaafaaaafaaaafaaaafaaaafaaaafaaaafaaaafaaaafaaaafaaaafaaaafaaaafaaaafaaaafaaaafaaaafaaaafaaaafaaaafaaaafaaaafaaaafaaaafaaaafaaaafaaaafaaaafaaaafaaaafaaaafaaaafaaaafaaaafaaaafaaaafaaaafaaaafaaaafaaaafaaaafaaaafaaaafaaaafaaaafaaaafaaaafaaaafaaaafaaaafaaaafaaaafaaaafaaaafaaaafaaaafaaaafaaaafaaaafaaaafaaaafaaaafaaaafaaaafaaaafaaaafaaaafaaaafaaaafaaaafaaaafaaaafaaaafaaaafaaaafaaaafaaaafaaaafaaaafaaaafaaaafaaaafaaaafaaaafaaaafaaaafaaaafaaaafaaaafaaaafaaaafaaaafaaaafaaaafaaaafaaaafaaaafaaaafaaaafaaaafaaaafaaaafaaaafaaaafaaaafaaaafaaaafaaaafaaaafaaaafaaaafaaaafaaaafaaaafaaaafaaaafaaaafaaaafaaaafaaaafaaaafaaaafaaaafaaaafaaaafaaaafaaaafaaaafaaaafaaaafaaaafaaaafaaaafaaaafaaaafaaaafaaaafaaaafaaaafaaaafaaaafaaaafaaaafaaaafaaaafaaaafaaaafaaaafaaaafaaaafaaaafaaaafaaaafaaaafaaaafaaaafaaaafaaaafaaaafaaaafaaaafaaaafaaaafaaaafaaaafaaaafaaaafaaaafaaaafaaaafaaaafaaaafaaaafaaaafaaaafaaaafaaaafaaaafaaaafaaaafaaaafaaaafaaaafaaaafaaaafaaaafaaaafaaaafaaaafaaaafaaaafaaaafaaaafaaaafaaaafaaaafaaaafaaaafaaaafaaaafaaaafaaaafaaaafaaaafaaaafaaaafaaaafaaaafaaaafaaaafaaaafaaaafaaaafaaaafaaaafaaaafaaaafaaaafaaaafaaaafaaaafaaaafaaaafaaaafaaaafaaaafaaaafaaaafaaaafaaaafaaaafaaaafaaaafaaaafaaaafaaaafaaaafaaaafaaaafaaaafaaaafaaaafaaaafaaaafaaaafaaaafaaaafaaaafaaaafaaaafaaaafaaaafaaaafaaaafaaaafaaaafaaaafaaaafaaaafaaaafaaaafaaaafaaaafaaaafaaaafaaaafaaaafaaaafaaaafaaaafaaaafaaaafaaaafaaaafaaaafaaaafaaaafaaaafaaaafaaaafaaaafaaaafaaaafaaaafaaaafaaaafaaaafaaaafaaaafaaaafaaaafaaaafaaaafaaaafaaaafaaaafaaaafaaaafaaaafaaaafaaaafaaaafaaaafaaaafaaaafaaaafaaaafaaaafaaaafaaaafaaaafaaaafaaaafaaaafaaaafaaaafaaaafaaaafaaaafaaaafaaaafaaaafaaaafaaaafaaaafaaaafaaaafaaaafaaaafaaaafaaaafaaaafaaaafaaaafaaaafaaaafaaaafaaaafaaaafaaaafaaaafaaaafaaaafaaaafaaaafaaaafaaaafaaaafaaaafaaaafaaaafaaaafaaaafaaaafaaaafaaaafaaaafaaaafaaaafaaaafaaaafaaaafaaaafaaaafaaaafaaaafaaaafaaaafaaaafaaaafaaaafaaaafaaaafaaaafaaaafaaaafaaaafaaaafaaaafaaaafaaaafaaaafaaaafaaaafaaaafaaaafaaaafaaaafaaaafaaaafaaaafaaaafaaaafaaaafaaaafaaaafaaaafaaaafaaaafaaaafaaaafaaaafaaaafaaaafaaaafaaaafaaaafaaaafaaaafaaaafaaaafaaaafaaaafaaaafaaaafaaaafaaaafaaaafaaaafaaaafaaaafaaaafaaaafaaaafaaaafaaaafaaaafaaaafaaaafaaaafaaaafaaaafaaaafaaaafaaaafaaaafaaaafaaaafaaaafaaaafaaaafaaaafaaaafaaaafaaaafaaaafaaaafaaaafaaaafaaaafaaaafaaaafaaaafaaaafaaaafaaaafaaaafaaaafaaaafaaaafaaaafaaaafaaaafaaaafaaaafaaaafaaaafaaaafaaaafaaaafaaaafaaaafaaaafaaaafaaaafaaaafaaaafaaaafaaaafaaaafaaaafaaaafaaaafaaaafaaaafaaaafaaaafaaaafaaaafaaaafaaaafaaaafaaaafaaaafaaaafaaaafaaaafaaaafaaaafaaaafaaaafaaaafaaaafaaaafaaaafaaaafaaaafaaaafaaaafaaaafaaaafaaaafaaaafaaaafaaaafaaaafaaaafaaaafaaaafaaaafaaaafaaaafaaaafaaaafaaaafaaaafaaaafaaaafaaaafaaaafaaaafaaaafaaaafaaaafaaaafaaaafaaaafaaaafaaaafaaaafaaaafaaaafaaaafaaaafaaaafaaaafaaaafaaaafaaaafaaaafaaaafaaaafaaaafaaaafaaaafaaaafaaaafaaaafaaaafaaaafaaaafaaaafaaaafaaaafaaaafaaaafaaaafaaaafaaaafaaaafaaaafaaaafaaaafaaaafaaaafaaaafaaaafaaaafaaaafaaaafaaaafaaaafaaaafaaaafaaaafaaaafaaaafaaaafaaaafaaaafaaaafaaaafaaaafaaaafaaaafaaaafaaaafaaaafaaaafaaaafaaaafaaaafaaaafaaaafaaaafaaaafaaaafaaaafaaaafaaaafaaaafaaaafaaaafaaaafaaaafaaaafaaaafaaaafaaaafaaaafaaaafaaaafaaaafaaaafaaaafaaaafaaaafaaaafaaaafaaaafaaaafaaaafaaaafaaaafaaaafaaaafaaaafaaaafaaaafaaaafaaaafaaaafaaaafaaaafaaaafaaaafaaaafaaaafaaaafaaaafaaaafaaaafaaaafaaaafaaaafaaaafaaaafaaaafaaaafaaaafaaaafaaaafaaaafaaaafaaaafaaaafaaaafaaaafaaaafaaaafaaaafaaaafaaaafaaaafaaaafaaaafaaaafaaaafaaaafaaaafaaaafaaaafaaaafaaaafaaaafaaaafaaaafaaaafaaaafaaaafaaaafaaaafaaaafaaaafaaaafaaaafaaaafaaaafaaaafaaaafaaaafaaaafaaaafaaaafaaaafaaaafaaaafaaaafaaaafaaaafaaaafaaaafaaaafaaaafaaaafaaaafaaaafaaaafaaaafaaaafaaaafaaaafaaaafaaaafaaaafaaaafaaaafaaaafaaaafaaaafaaaafaaaafaaaafaaaafaaaafaaaafaaaafaaaafaaaafaaaafaaaafaaaafaaaafaaaafaaaafaaaafaaaafaaaafaaaafaaaafaaaafaaaafaaaafaaaafaaaafaaaafaaaafaaaafaaaafaaaafaaaafaaaafaaaafaaaafaaaafaaaafaaaafaaaafaaaafaaaafaaaafaaaafaaaafaaaafaaaafaaaafaaaafaaaafaaaafaaaafaaaafaaaafaaaafaaaafaaaafaaaafaaaafaaaafaaaafaaaafaaaafaaaafaaaafaaaafaaaafaaaafaaaafaaaafaaaafaaaafaaaafaaaafaaaafaaaafaaaafaaaafaaaafaaaafaaaafaaaafaaaafaaaafaaaafaaaafaaaafaaaafaaaafaaaafaaaafaaaafaaaafaaaafaaaafaaaafaaaafaaaafaaaafaaaafaaaafaaaafaaaafaaaafaaaafaaaafaaaafaaaafaaaafaaaafaaaafaaaafaaaafaaaafaaaafaaaafaaaafaaaafaaaafaaaafaaaafaaaafaaaafaaaafaaaafaaaafaaaafaaaafaaaafaaaafaaaafaaaafaaaafaaaafaaaafaaaafaaaafaaaafaaaafaaaafaaaafaaaafaaaafaaaafaaaafaaaafaaaafaaaafaaaafaaaafaaaafaaaafaaaafaaaafaaaafaaaafaaaafaaaafaaaafaaaafaaaafaaaafaaaafaaaafaaaafaaaafaaaafaaaafaaaafaaaafaaaafaaaafaaaafaaaafaaaafaaaafaaaafaaaafaaaafaaaafaaaafaaaafaaaafaaaafaaaafaaaafaaaafaaaafaaaafaaaafaaaafaaaafaaaafaaaafaaaafaaaafaaaafaaaafaaaafaaaafaaaafaaaafaaaafaaaafaaaafaaaafaaaafaaaafaaaafaaaafaaaafaaaafaaaafaaaafaaaafaaaafaaaafaaaafaaaafaaaafaaaafaaaafaaaafaaaafaaaafaaaafaaaafaaaafaaaafaaaafaaaafaaaafaaaafaaaafaaaafaaaafaaaafaaaafaaaafaaaafaaaafaaaafaaaafaaaafaaaafaaaafaaaafaaaafaaaafaaaafaaaafaaaafaaaafaaaafaaaafaaaafaaaafaaaafaaaafaaaafaaaafaaaafaaaafaaaafaaaafaaaafaaaafaaaafaaaafaaaafaaaafaaaafaaaafaaaafaaaafaaaafaaaafaaaafaaaafaaaafaaaafaaaafaaaafaaaafaaaafaaaafaaaafaaaafaaaafaaaafaaaafaaaafaaaafaaaafaaaafaaaafaaaafaaaafaaaafaaaafaaaafaaaafaaaafaaaafaaaafaaaafaaaafaaaafaaaafaaaafaaaafaaaafaaaafaaaafaaaafaaaafaaaafaaaafaaaafaaaafaaaafaaaafaaaafaaaafaaaafaaaafaaaafaaaafaaaafaaaafaaaafaaaafaaaafaaaafaaaafaaaafaaaafaaaafaaaafaaaafaaaafaaaafaaaafaaaafaaaafaaaafaaaafaaaafaaaafaaaafaaaafaaaafaaaafaaaafaaaafaaaafaaaafaaaafaaaafaaaafaaaafaaaafaaaafaaaafaaaafaaaafaaaafaaaafaaaafaaaafaaaafaaaafaaaafaaaafaaaafaaaafaaaafaaaafaaaafaaaafaaaafaaaafaaaafaaaafaaaafaaaafaaaafaaaafaaaafaaaafaaaafaaaafaaaafaaaafaaaafaaaafaaaafaaaafaaaafaaaafaaaafaaaafaaaafaaaafaaaafaaaafaaaafaaaafaaaafaaaafaaaafaaaafaaaafaaaafaaaafaaaafaaaafaaaafaaaafaaaafaaaafaaaafaaaafaaaafaaaafaaaafaaaafaaaafaaaafaaaafaaaafaaaafaaaafaaaafaaaafaaaafaaaafaaaafaaaafaaaafaaaafaaaafaaaafaaaafaaaafaaaafaaaafaaaafaaaafaaaafaaaafaaaafaaaafaaaafaaaafaaaafaaaafaaaafaaaafaaaafaaaafaaaafaaaafaaaafaaaafaaaafaaaafaaaafaaaafaaaafaaaafaaaafaaaafaaaafaaaafaaaafaaaafaaaafaaaafaaaafaaaafaaaafaaaafaaaafaaaafaaaafaaaafaaaafaaaafaaaafaaaafaaaafaaaafaaaafaaaafaaaafaaaafaaaafaaaafaaaafaaaafaaaafaaaafaaaafaaaafaaaafaaaafaaaafaaaafaaaafaaaafaaaafaaaafaaaafaaaafaaaafaaaafaaaafaaaafaaaafaaaafaaaafaaaafaaaafaaaafaaaafaaaafaaaafaaaafaaaafaaaafaaaafaaaafaaaafaaaafaaaafaaaafaaaafaaaafaaaafaaaafaaaafaaaafaaaafaaaafaaaafaaaafaaaafaaaafaaaafaaaafaaaafaaaafaaaafaaaafaaaafaaaafaaaafaaaafaaaafaaaafaaaafaaaafaaaafaaaafaaaafaaaafaaaafaaaafaaaafaaaafaaaafaaaafaaaafaaaafaaaafaaaafaaaafaaaafaaaafaaaafaaaafaaaafaaaafaaaafaaaafaaaafaaaafaaaafaaaafaaaafaaaafaaaafaaaafaaaafaaaafaaaafaaaafaaaafaaaafaaaafaaaafaaaafaaaafaaaafaaaafaaaafaaaafaaaafaaaafaaaafaaaafaaaafaaaafaaaafaaaafaaaafaaaafaaaafaaaafaaaafaaaafaaaafaaaafaaaafaaaafaaaafaaaafaaaafaaaafaaaafaaaafaaaafaaaafaaaafaaaafaaaafaaaafaaaafaaaafaaaafaaaafaaaafaaaafaaaafaaaafaaaafaaaafaaaafaaaafaaaafaaaafaaaafaaaafaaaafaaaafaaaafaaaafaaaafaaaafaaaafaaaafaaaafaaaafaaaafaaaafaaaafaaaafaaaafaaaafaaaafaaaafaaaafaaaafaaaafaaaafaaaafaaaafaaaafaaaafaaaafaaaafaaaafaaaafaaaafaaaafaaaafaaaafaaaafaaaafaaaafaaaafaaaafaaaafaaaafaaaafaaaafaaaafaaaafaaaafaaaafaaaafaaaafaaaafaaaafaaaafaaaafaaaafaaaafaaaafaaaafaaaafaaaafaaaafaaaafaaaafaaaafaaaafaaaafaaaafaaaafaaaafaaaafaaaafaaaafaaaafaaaafaaaafaaaafaaaafaaaafaaaafaaaafaaaafaaaafaaaafaaaafaaaafaaaafaaaafaaaafaaaafaaaafaaaafaaaafaaaafaaaafaaaafaaaafaaaafaaaafaaaafaaaafaaaafaaaafaaaafaaaafaaaafaaaafaaaafaaaafaaaafaaaafaaaafaaaafaaaafaaaafaaaafaaaafaaaafaaaafaaaafaaaafaaaafaaaafaaaafaaaafaaaafaaaafaaaafaaaafaaaafaaaafaaaafaaaafaaaafaaaafaaaafaaaafaaaafaaaafaaaafaaaafaaaafaaaafaaaafaaaafaaaafaaaafaaaafaaaafaaaafaaaafaaaafaaaafaaaafaaaafaaaafaaaafaaaafaaaafaaaafaaaafaaaafaaaafaaaafaaaafaaaafaaaafaaaafaaaafaaaafaaaafaaaafaaaafaaaafaaaafaaaafaaaafaaaafaaaafaaaafaaaafaaaafaaaafaaaafaaaafaaaafaaaafaaaafaaaafaaaafaaaafaaaafaaaafaaaafaaaafaaaafaaaafaaaafaaaafaaaafaaaafaaaafaaaafaaaafaaaafaaaafaaaafaaaafaaaafaaaafaaaafaaaafaaaafaaaafaaaafaaaafaaaafaaaafaaaafaaaafaaaafaaaafaaaafaaaafaaaafaaaafaaaafaaaafaaaafaaaafaaaafaaaafaaaafaaaafaaaafaaaafaaaafaaaafaaaafaaaafaaaafaaaafaaaafaaaafaaaafaaaafaaaafaaaafaaaafaaaafaaaafaaaafaaaafaaaafaaaafaaaafaaaafaaaafaaaafaaaafaaaafaaaafaaaafaaaafaaaafaaaafaaaafaaaafaaaafaaaafaaaafaaaafaaaafaaaafaaaafaaaafaaaafaaaafaaaafaaaafaaaafaaaafaaaafaaaafaaaafaaaafaaaafaaaafaaaafaaaafaaaafaaaafaaaafaaaafaaaafaaaafaaaafaaaafaaaafaaaafaaaafaaaafaaaafaaaafaaaafaaaafaaaafaaaafaaaafaaaafaaaafaaaafaaaafaaaafaaaafaaaafaaaafaaaafaaaafaaaafaaaafaaaafaaaafaaaafaaaafaaaafaaaafaaaafaaaafaaaafaaaafaaaafaaaafaaaafaaaafaaaafaaaafaaaafaaaafaaaafaaaafaaaafaaaafaaaafaaaafaaaafaaaafaaaafaaaafaaaafaaaafaaaafaaaafaaaafaaaafaaaafaaaafaaaafaaaafaaaafaaaafaaaafaaaafaaaafaaaafaaaafaaaafaaaafaaaafaaaafaaaafaaaafaaaafaaaafaaaafaaaafaaaafaaaafaaaafaaaafaaaafaaaafaaaafaaaafaaaafaaaafaaaafaaaafaaaafaaaafaaaafaaaafaaaafaaaafaaaafaaaafaaaafaaaafaaaafaaaafaaaafaaaafaaaafaaaafaaaafaaaafaaaafaaaafaaaafaaaafaaaafaaaafaaaafaaaafaaaafaaaafaaaafaaaafaaaafaaaafaaaafaaaafaaaafaaaafaaaafaaaafaaaafaaaafaaaafaaaafaaaafaaaafaaaafaaaafaaaafaaaafaaaafaaaafaaaafaaaafaaaafaaaafaaaafaaaafaaaafaaaafaaaafaaaafaaaafaaaafaaaafaaaafaaaafaaaafaaaafaaaafaaaafaaaafaaaafaaaafaaaafaaaafaaaafaaaafaaaafaaaafaaaafaaaafaaaafaaaafaaaafaaaafaaaafaaaafaaaafaaaafaaaafaaaafaaaafaaaafaaaafaaaafaaaafaaaafaaaafaaaafaaaafaaaafaaaafaaaafaaaafaaaafaaaafaaaafaaaafaaaafaaaafaaaafaaaafaaaafaaaafaaaafaaaafaaaafaaaafaaaafaaaafaaaafaaaafaaaafaaaafaaaafaaaafaaaafaaaafaaaafaaaafaaaafaaaafaaaafaaaafaaaafaaaafaaaafaaaafaaaafaaaafaaaafaaaafaaaafaaaafaaaafaaaafaaaafaaaafaaaafaaaafaaaafaaaafaaaafaaaafaaaafaaaafaaaafaaaafaaaafaaaafaaaafaaaafaaaafaaaafaaaafaaaafaaaafaaaafaaaafaaaafaaaafaaaafaaaafaaaafaaaafaaaafaaaafaaaafaaaafaaaafaaaafaaaafaaaafaaaafaaaafaaaafaaaafaaaafaaaafaaaafaaaafaaaafaaaafaaaafaaaafaaaafaaaafaaaafaaaafaaaafaaaafaaaafaaaafaaaafaaaafaaaafaaaafaaaafaaaafaaaafaaaafaaaafaaaafaaaafaaaafaaaafaaaafaaaafaaaafaaaafaaaafaaaafaaaafaaaafaaaafaaaafaaaafaaaafaaaafaaaafaaaafaaaafaaaafaaaafaaaafaaaafaaaafaaaafaaaafaaaafaaaafaaaafaaaafaaaafaaaafaaaafaaaafaaaafaaaafaaaafaaaafaaaafaaaafaaaafaaaafaaaafaaaafaaaafaaaafaaaafaaaafaaaafaaaafaaaafaaaafaaaafaaaafaaaafaaaafaaaafaaaafaaaafaaaafaaaafaaaafaaaafaaaafaaaafaaaafaaaafaaaafaaaafaaaafaaaafaaaafaaaafaaaafaaaafaaaafaaaafaaaafaaaafaaaafaaaafaaaafaaaafaaaafaaaafaaaafaaaafaaaafaaaafaaaafaaaafaaaafaaaafaaaafaaaafaaaafaaaafaaaafaaaafaaaafaaaafaaaafaaaafaaaafaaaafaaaafaaaafaaaafaaaafaaaafaaaafaaaafaaaafaaaafaaaafaaaafaaaafaaaafaaaafaaaafaaaafaaaafaaaafaaaafaaaafaaaafaaaafaaaafaaaafaaaafaaaafaaaafaaaafaaaafaaaafaaaafaaaafaaaafaaaafaaaafaaaafaaaafaaaafaaaafaaaafaaaafaaaafaaaafaaaafaaaafaaaafaaaafaaaafaaaafaaaafaaaafaaaafaaaafaaaafaaaafaaaafaaaafaaaafaaaafaaaafaaaafaaaafaaaafaaaafaaaafaaaafaaaafaaaafaaaafaaaafaaaafaaaafaaaafaaaafaaaafaaaafaaaafaaaafaaaafaaaafaaaafaaaafaaaafaaaafaaaafaaaafaaaafaaaafaaaafaaaafaaaafaaaafaaaafaaaafaaaafaaaafaaaafaaaafaaaafaaaafaaaafaaaafaaaafaaaafaaaafaaaafaaaafaaaafaaaafaaaafaaaafaaaafaaaafaaaafaaaafaaaafaaaafaaaafaaaafaaaafaaaafaaaafaaaafaaaafaaaafaaaafaaaafaaaafaaaafaaaafaaaafaaaafaaaafaaaafaaaafaaaafaaaafaaaafaaaafaaaafaaaafaaaafaaaafaaaafaaaafaaaafaaaafaaaafaaaafaaaafaaaafaaaafaaaafaaaafaaaafaaaafaaaafaaaafaaaafaaaafaaaafaaaafaaaafaaaafaaaafaaaafaaaafaaaafaaaafaaaafaaaafaaaafaaaafaaaafaaaafaaaafaaaafaaaafaaaafaaaafaaaafaaaafaaaafaaaafaaaafaaaafaaaafaaaafaaaafaaaafaaaafaaaafaaaafaaaafaaaafaaaafaaaafaaaafaaaafaaaafaaaafaaaafaaaafaaaafaaaafaaaafaaaafaaaafaaaafaaaafaaaafaaaafaaaafaaaafaaaafaaaafaaaafaaaafaaaafaaaafaaaafaaaafaaaafaaaafaaaafaaaafaaaafaaaafaaaafaaaafaaaafaaaafaaaafaaaafaaaafaaaafaaaafaaaafaaaafaaaafaaaafaaaafaaaafaaaafaaaafaaaafaaaafaaaafaaaafaaaafaaaafaaaafaaaafaaaafaaaafaaaafaaaafaaaafaaaafaaaafaaaafaaaafaaaafaaaafaaaafaaaafaaaafaaaafaaaafaaaafaaaafaaaafaaaafaaaafaaaafaaaafaaaafaaaafaaaafaaaafaaaafaaaafaaaafaaaafaaaafaaaafaaaafaaaafaaaafaaaafaaaafaaaafaaaafaaaafaaaafaaaafaaaafaaaafaaaafaaaafaaaafaaaafaaaafaaaafaaaafaaaafaaaafaaaafaaaafaaaafaaaafaaaafaaaafaaaafaaaafaaaafaaaafaaaafaaaafaaaafaaaafaaaafaaaafaaaafaaaafaaaafaaaafaaaafaaaafaaaafaaaafaaaafaaaafaaaafaaaafaaaafaaaafaaaafaaaafaaaafaaaafaaaafaaaafaaaafaaaafaaaafaaaafaaaafaaaafaaaafaaaafaaaafaaaafaaaafaaaafaaaafaaaafaaaafaaaafaaaafaaaafaaaafaaaafaaaafaaaafaaaafaaaafaaaafaaaafaaaafaaaafaaaafaaaafaaaafaaaafaaaafaaaafaaaafaaaafaaaafaaaafaaaafaaaafaaaafaaaafaaaafaaaafaaaafaaaafaaaafaaaafaaaafaaaafaaaafaaaafaaaafaaaafaaaafaaaafaaaafaaaafaaaafaaaafaaaafaaaafaaaafaaaafaaaafaaaafaaaafaaaafaaaafaaaafaaaafaaaafaaaafaaaafaaaafaaaafaaaafaaaafaaaafaaaafaaaafaaaafaaaafaaaafaaaafaaaafaaaafaaaafaaaafaaaafaaaafaaaafaaaafaaaafaaaafaaaafaaaafaaaafaaaafaaaafaaaafaaaafaaaafaaaafaaaafaaaafaaaafaaaafaaaafaaaafaaaafaaaafaaaafaaaafaaaafaaaafaaaafaaaafaaaafaaaafaaaafaaaafaaaafaaaafaaaafaaaafaaaafaaaafaaaafaaaafaaaafaaaafaaaafaaaafaaaafaaaafaaaafaaaafaaaafaaaafaaaafaaaafaaaafaaaafaaaafaaaafaaaafaaaafaaaafaaaafaaaafaaaafaaaafaaaafaaaafaaaafaaaafaaaafaaaafaaaafaaaafaaaafaaaafaaaafaaaafaaaafaaaafaaaafaaaafaaaafaaaafaaaafaaaafaaaafaaaafaaaafaaaafaaaafaaaafaaaafaaaafaaaafaaaafaaaafaaaafaaaafaaaafaaaafaaaafaaaafaaaafaaaafaaaafaaaafaaaafaaaafaaaafaaaafaaaafaaaafaaaafaaaafaaaafaaaafaaaafaaaafaaaafaaaafaaaafaaaafaaaafaaaafaaaafaaaafaaaafaaaafaaaafaaaafaaaafaaaafaaaafaaaafaaaafaaaafaaaafaaaafaaaafaaaafaaaafaaaafaaaafaaaafaaaafaaaafaaaafaaaafaaaafaaaafaaaafaaaafaaaafaaaafaaaafaaaafaaaafaaaafaaaafaaaafaaaafaaaafaaaafaaaafaaaafaaaafaaaafaaaafaaaafaaaafaaaafaaaafaaaafaaaafaaaafaaaafaaaafaaaafaaaafaaaafaaaafaaaafaaaafaaaafaaaafaaaafaaaafaaaafaaaafaaaafaaaafaaaafaaaafaaaafaaaafaaaafaaaafaaaafaaaafaaaafaaaafaaaafaaaafaaaafaaaafaaaafaaaafaaaafaaaafaaaafaaaafaaaafaaaafaaaafaaaafaaaafaaaafaaaafaaaafaaaafaaaafaaaafaaaafaaaafaaaafaaaafaaaafaaaafaaaafaaaafaaaafaaaafaaaafaaaafaaaafaaaafaaaafaaaafaaaafaaaafaaaafaaaafaaaafaaaafaaaafaaaafaaaafaaaafaaaafaaaafaaaafaaaafaaaafaaaafaaaafaaaafaaaafaaaafaaaafaaaafaaaafaaaafaaaafaaaafaaaafaaaafaaaafaaaafaaaafaaaafaaaafaaaafaaaafaaaafaaaafaaaafaaaafaaaafaaaafaaaafaaaafaaaafaaaafaaaafaaaafaaaafaaaafaaaafaaaafaaaafaaaafaaaafaaaafaaaafaaaafaaaafaaaafaaaafaaaafaaaafaaaafaaaafaaaafaaaafaaaafaaaafaaaafaaaafaaaafaaaafaaaafaaaafaaaafaaaafaaaafaaaafaaaafaaaafaaaafaaaafaaaafaaaafaaaafaaaafaaaafaaaafaaaafaaaafaaaafaaaafaaaafaaaafaaaafaaaafaaaafaaaafaaaafaaaafaaaafaaaafaaaafaaaafaaaafaaaafaaaafaaaafaaaafaaaafaaaafaaaafaaaafaaaafaaaafaaaafaaaafaaaafaaaafaaaafaaaafaaaafaaaafaaaafaaaafaaaafaaaafaaaafaaaafaaaafaaaafaaaafaaaafaaaafaaaafaaaafaaaafaaaafaaaafaaaafaaaafaaaafaaaafaaaafaaaafaaaafaaaafaaaafaaaafaaaafaaaafaaaafaaaafaaaafaaaafaaaafaaaafaaaafaaaafaaaafaaaafaaaafaaaafaaaafaaaafaaaafaaaafaaaafaaaafaaaafaaaafaaaafaaaafaaaafaaaafaaaafaaaafaaaafaaaafaaaafaaaafaaaafaaaafaaaafaaaafaaaafaaaafaaaafaaaafaaaafaaaafaaaafaaaafaaaafaaaafaaaafaaaafaaaafaaaafaaaafaaaafaaaafaaaafaaaafaaaafaaaafaaaafaaaafaaaafaaaafaaaafaaaafaaaafaaaafaaaafaaaafaaaafaaaafaaaafaaaafaaaafaaaafaaaafaaaafaaaafaaaafaaaafaaaafaaaafaaaafaaaafaaaafaaaafaaaafaaaafaaaafaaaafaaaafaaaafaaaafaaaafaaaafaaaafaaaafaaaafaaaafaaaafaaaafaaaafaaaafaaaafaaaafaaaafaaaafaaaafaaaafaaaafaaaafaaaafaaaafaaaafaaaafaaaafaaaafaaaafaaaafaaaafaaaafaaaafaaaafaaaafaaaafaaaafaaaafaaaafaaaafaaaafaaaafaaaafaaaafaaaafaaaafaaaafaaaafaaaafaaaafaaaafaaaafaaaafaaaafaaaafaaaafaaaafaaaafaaaafaaaafaaaafaaaafaaaafaaaafaaaafaaaafaaaafaaaafaaaafaaaafaaaafaaaafaaaafaaaafaaaafaaaafaaaafaaaafaaaafaaaafaaaafaaaafaaaafaaaafaaaafaaaafaaaafaaaafaaaafaaaafaaaafaaaafaaaafaaaafaaaafaaaafaaaafaaaafaaaafaaaafaaaafaaaafaaaafaaaafaaaafaaaafaaaafaaaafaaaafaaaafaaaafaaaafaaaafaaaafaaaafaaaafaaaafaaaafaaaafaaaafaaaafaaaafaaaafaaaafaaaafaaaafaaaafaaaafaaaafaaaafaaaafaaaafaaaafaaaafaaaafaaaafaaaafaaaafaaaafaaaafaaaafaaaafaaaafaaaafaaaafaaaafaaaafaaaafaaaafaaaafaaaafaaaafaaaafaaaafaaaafaaaafaaaafaaaafaaaafaaaafaaaafaaaafaaaafaaaafaaaafaaaafaaaafaaaafaaaafaaaafaaaafaaaafaaaafaaaafaaaafaaaafaaaafaaaafaaaafaaaafaaaafaaaafaaaafaaaafaaaafaaaafaaaafaaaafaaaafaaaafaaaafaaaafaaaafaaaafaaaafaaaafaaaafaaaafaaaafaaaafaaaafaaaafaaaafaaaafaaaafaaaafaaaafaaaafaaaafaaaafaaaafaaaafaaaafaaaafaaaafaaaafaaaafaaaafaaaafaaaafaaaafaaaafaaaafaaaafaaaafaaaafaaaafaaaafaaaafaaaafaaaafaaaafaaaafaaaafaaaafaaaafaaaafaaaafaaaafaaaafaaaafaaaafaaaafaaaafaaaafaaaafaaaafaaaafaaaafaaaafaaaafaaaafaaaafaaaafaaaafaaaafaaaafaaaafaaaafaaaafaaaafaaaafaaaafaaaafaaaafaaaafaaaafaaaafaaaafaaaafaaaafaaaafaaaafaaaafaaaafaaaafaaaafaaaafaaaafaaaafaaaafaaaafaaaafaaaafaaaafaaaafaaaafaaaafaaaafaaaafaaaafaaaafaaaafaaaafaaaafaaaafaaaafaaaafaaaafaaaafaaaafaaaafaaaafaaaafaaaafaaaafaaaafaaaafaaaafaaaafaaaafaaaafaaaafaaaafaaaafaaaafaaaafaaaafaaaafaaaafaaaafaaaafaaaafaaaafaaaafaaaafaaaafaaaafaaaafaaaafaaaafaaaafaaaafaaaafaaaafaaaafaaaafaaaafaaaafaaaafaaaafaaaafaaaafaaaafaaaafaaaafaaaafaaaafaaaafaaaafaaaafaaaafaaaafaaaafaaaafaaaafaaaafaaaafaaaafaaaafaaaafaaaafaaaafaaaafaaaafaaaafaaaafaaaafaaaafaaaafaaaafaaaafaaaafaaaafaaaafaaaafaaaafaaaafaaaafaaaafaaaafaaaafaaaafaaaafaaaafaaaafaaaafaaaafaaaafaaaafaaaafaaaafaaaafaaaafaaaafaaaafaaaafaaaafaaaafaaaafaaaafaaaafaaaafaaaafaaaafaaaafaaaafaaaafaaaafaaaafaaaafaaaafaaaafaaaafaaaafaaaafaaaafaaaafaaaafaaaafaaaafaaaafaaaafaaaafaaaafaaaafaaaafaaaafaaaafaaaafaaaafaaaafaaaafaaaafaaaafaaaafaaaafaaaafaaaafaaaafaaaafaaaafaaaafaaaafaaaafaaaafaaaafaaaafaaaafaaaafaaaafaaaafaaaafaaaafaaaafaaaafaaaafaaaafaaaafaaaafaaaafaaaafaaaafaaaafaaaafaaaafaaaafaaaafaaaafaaaafaaaafaaaafaaaafaaaafaaaafaaaafaaaafaaaafaaaafaaaafaaaafaaaafaaaafaaaafaaaafaaaafaaaafaaaafaaaafaaaafaaaafaaaafaaaafaaaafaaaafaaaafaaaafaaaafaaaafaaaafaaaafaaaafaaaafaaaafaaaafaaaafaaaafaaaafaaaafaaaafaaaafaaaafaaaafaaaafaaaafaaaafaaaafaaaafaaaafaaaafaaaafaaaafaaaafaaaafaaaafaaaafaaaafaaaafaaaafaaaafaaaafaaaafaaaafaaaafaaaafaaaafaaaafaaaafaaaafaaaafaaaafaaaafaaaafaaaafaaaafaaaafaaaafaaaafaaaafaaaafaaaafaaaafaaaafaaaafaaaafaaaafaaaafaaaafaaaafaaaafaaaafaaaafaaaafaaaafaaaafaaaafaaaafaaaafaaaafaaaafaaaafaaaafaaaafaaaafaaaafaaaafaaaafaaaafaaaafaaaafaaaafaaaafaaaafaaaafaaaafaaaafaaaafaaaafaaaafaaaafaaaafaaaafaaaafaaaafaaaafaaaafaaaafaaaafaaaafaaaafaaaafaaaafaaaafaaaafaaaafaaaafaaaafaaaafaaaafaaaafaaaafaaaafaaaafaaaafaaaafaaaafaaaafaaaafaaaafaaaafaaaafaaaafaaaafaaaafaaaafaaaafaaaafaaaafaaaafaaaafaaaafaaaafaaaafaaaafaaaafaaaafaaaafaaaafaaaafaaaafaaaafaaaafaaaafaaaafaaaafaaaafaaaafaaaafaaaafaaaafaaaafaaaafaaaafaaaafaaaafaaaafaaaafaaaafaaaafaaaafaaaafaaaafaaaafaaaafaaaafaaaafaaaafaaaafaaaafaaaafaaaafaaaafaaaafaaaafaaaafaaaafaaaafaaaafaaaafaaaafaaaafaaaafaaaafaaaafaaaafaaaafaaaafaaaafaaaafaaaafaaaafaaaafaaaafaaaafaaaafaaaafaaaafaaaafaaaafaaaafaaaafaaaafaaaafaaaafaaaafaaaafaaaafaaaafaaaafaaaafaaaafaaaafaaaafaaaafaaaafaaaafaaaafaaaafaaaafaaaafaaaafaaaafaaaafaaaafaaaafaaaafaaaafaaaafaaaafaaaafaaaafaaaafaaaafaaaafaaaafaaaafaaaafaaaafaaaafaaaafaaaafaaaafaaaafaaaafaaaafaaaafaaaafaaaafaaaafaaaafaaaafaaaafaaaafaaaafaaaafaaaafaaaafaaaafaaaafaaaafaaaafaaaafaaaafaaaafaaaafaaaafaaaafaaaafaaaafaaaafaaaafaaaafaaaafaaaafaaaafaaaafaaaafaaaafaaaafaaaafaaaafaaaafaaaafaaaafaaaafaaaafaaaafaaaafaaaafaaaafaaaafaaaafaaaafaaaafaaaafaaaafaaaafaaaafaaaafaaaafaaaafaaaafaaaafaaaafaaaafaaaafaaaafaaaafaaaafaaaafaaaafaaaafaaaafaaaafaaaafaaaafaaaafaaaafaaaafaaaafaaaafaaaafaaaafaaaafaaaafaaaafaaaafaaaafaaaafaaaafaaaafaaaafaaaafaaaafaaaafaaaafaaaafaaaafaaaafaaaafaaaafaaaafaaaafaaaafaaaafaaaafaaaafaaaafaaaafaaaafaaaafaaaafaaaafaaaafaaaafaaaafaaaafaaaafaaaafaaaafaaaafaaaafaaaafaaaafaaaafaaaafaaaafaaaafaaaafaaaafaaaafaaaafaaaafaaaafaaaafaaaafaaaafaaaafaaaafaaaafaaaafaaaafaaaafaaaafaaaafaaaafaaaafaaaafaaaafaaaafaaaafaaaafaaaafaaaafaaaafaaaafaaaafaaaafaaaafaaaafaaaafaaaafaaaafaaaafaaaafaaaafaaaafaaaafaaaafaaaafaaaafaaaafaaaafaaaafaaaafaaaafaaaafaaaafaaaafaaaafaaaafaaaafaaaafaaaafaaaafaaaafaaaafaaaafaaaafaaaafaaaafaaaafaaaafaaaafaaaafaaaafaaaafaaaafaaaafaaaafaaaafaaaafaaaafaaaafaaaafaaaafaaaafaaaafaaaafaaaafaaaafaaaafaaaafaaaafaaaafaaaafaaaafaaaafaaaafaaaafaaaafaaaafaaaafaaaafaaaafaaaafaaaafaaaafaaaafaaaafaaaafaaaafaaaafaaaafaaaafaaaafaaaafaaaafaaaafaaaafaaaafaaaafaaaafaaaafaaaafaaaafaaaafaaaafaaaafaaaafaaaafaaaafaaaafaaaafaaaafaaaafaaaafaaaafaaaafaaaafaaaafaaaafaaaafaaaafaaaafaaaafaaaafaaaafaaaafaaaafaaaafaaaafaaaafaaaafaaaafaaaafaaaafaaaafaaaafaaaafaaaafaaaafaaaafaaaafaaaafaaaafaaaafaaaafaaaafaaaafaaaafaaaafaaaafaaaafaaaafaaaafaaaafaaaafaaaafaaaafaaaafaaaafaaaafaaaafaaaafaaaafaaaafaaaafaaaafaaaafaaaafaaaafaaaafaaaafaaaafaaaafaaaafaaaafaaaafaaaafaaaafaaaafaaaafaaaafaaaafaaaafaaaafaaaafaaaafaaaafaaaafaaaafaaaafaaaafaaaafaaaafaaaafaaaafaaaafaaaafaaaafaaaafaaaafaaaafaaaafaaaafaaaafaaaafaaaafaaaafaaaafaaaafaaaafaaaafaaaafaaaafaaaafaaaafaaaafaaaafaaaafaaaafaaaafaaaafaaaafaaaafaaaafaaaafaaaafaaaafaaaafaaaafaaaafaaaafaaaafaaaafaaaafaaaafaaaafaaaafaaaafaaaafaaaafaaaafaaaafaaaafaaaafaaaafaaaafaaaafaaaafaaaafaaaafaaaafaaaafaaaafaaaafaaaafaaaafaaaafaaaafaaaafaaaafaaaafaaaafaaaafaaaafaaaafaaaafaaaafaaaafaaaafaaaafaaaafaaaafaaaafaaaafaaaafaaaafaaaafaaaafaaaafaaaafaaaafaaaafaaaafaaaafaaaafaaaafaaaafaaaafaaaafaaaafaaaafaaaafaaaafaaaafaaaafaaaafaaaafaaaafaaaafaaaafaaaafaaaafaaaafaaaafaaaafaaaafaaaafaaaafaaaafaaaafaaaafaaaafaaaafaaaafaaaafaaaafaaaafaaaafaaaafaaaafaaaafaaaafaaaafaaaafaaaafaaaafaaaafaaaafaaaafaaaafaaaafaaaafaaaafaaaafaaaafaaaafaaaafaaaafaaaafaaaafaaaafaaaafaaaafaaaafaaaafaaaafaaaafaaaafaaaafaaaafaaaafaaaafaaaafaaaafaaaafaaaafaaaafaaaafaaaafaaaafaaaafaaaafaaaafaaaafaaaafaaaafaaaafaaaafaaaafaaaafaaaafaaaafaaaafaaaafaaaafaaaafaaaafaaaafaaaafaaaafaaaafaaaafaaaafaaaafaaaafaaaafaaaafaaaafaaaafaaaafaaaafaaaafaaaafaaaafaaaafaaaafaaaafaaaafaaaafaaaafaaaafaaaafaaaafaaaafaaaafaaaafaaaafaaaafaaaafaaaafaaaafaaaafaaaafaaaafaaaafaaaafaaaafaaaafaaaafaaaafaaaafaaaafaaaafaaaafaaaafaaaafaaaafaaaafaaaafaaaafaaaafaaaafaaaafaaaafaaaafaaaafaaaafaaaafaaaafaaaafaaaafaaaafaaaafaaaafaaaafaaaafaaaafaaaafaaaafaaaafaaaafaaaafaaaafaaaafaaaafaaaafaaaafaaaafaaaafaaaafaaaafaaaafaaaafaaaafaaaafaaaafaaaafaaaafaaaafaaaafaaaafaaaafaaaafaaaafaaaafaaaafaaaafaaaafaaaafaaaafaaaafaaaafaaaafaaaafaaaafaaaafaaaafaaaafaaaafaaaafaaaafaaaafaaaafaaaafaaaafaaaafaaaafaaaafaaaafaaaafaaaafaaaafaaaafaaaafaaaafaaaafaaaafaaaafaaaafaaaafaaaafaaaafaaaafaaaafaaaafaaaafaaaafaaaafaaaafaaaafaaaafaaaafaaaafaaaafaaaafaaaafaaaafaaaafaaaafaaaafaaaafaaaafaaaafaaaafaaaafaaaafaaaafaaaafaaaafaaaafaaaafaaaafaaaafaaaafaaaafaaaafaaaafaaaafaaaafaaaafaaaafaaaafaaaafaaaafaaaafaaaafaaaafaaaafaaaafaaaafaaaafaaaafaaaafaaaafaaaafaaaafaaaafaaaafaaaafaaaafaaaafaaaafaaaafaaaafaaaafaaaafaaaafaaaafaaaafaaaafaaaafaaaafaaaafaaaafaaaafaaaafaaaafaaaafaaaafaaaafaaaafaaaafaaaafaaaafaaaafaaaafaaaafaaaafaaaafaaaafaaaafaaaafaaaafaaaafaaaafaaaafaaaafaaaafaaaafaaaafaaaafaaaafaaaafaaaafaaaafaaaafaaaafaaaafaaaafaaaafaaaafaaaafaaaafaaaafaaaafaaaafaaaafaaaafaaaafaaaafaaaafaaaafaaaafaaaafaaaafaaaafaaaafaaaafaaaafaaaafaaaafaaaafaaaafaaaafaaaafaaaafaaaafaaaafaaaafaaaafaaaafaaaafaaaafaaaafaaaafaaaafaaaafaaaafaaaafaaaafaaaafaaaafaaaafaaaafaaaafaaaafaaaafaaaafaaaafaaaafaaaafaaaafaaaafaaaafaaaafaaaafaaaafaaaafaaaafaaaafaaaafaaaafaaaafaaaafaaaafaaaafaaaafaaaafaaaafaaaafaaaafaaaafaaaafaaaafaaaafaaaafaaaafaaaafaaaafaaaafaaaafaaaafaaaafaaaafaaaafaaaafaaaafaaaafaaaafaaaafaaaafaaaafaaaafaaaafaaaafaaaafaaaafaaaafaaaafaaaafaaaafaaaafaaaafaaaafaaaafaaaafaaaafaaaafaaaafaaaafaaaafaaaafaaaafaaaafaaaafaaaafaaaafaaaafaaaafaaaafaaaafaaaafaaaafaaaafaaaafaaaafaaaafaaaafaaaafaaaafaaaafaaaafaaaafaaaafaaaafaaaafaaaafaaaafaaaafaaaafaaaafaaaafaaaafaaaafaaaafaaaafaaaafaaaafaaaafaaaafaaaafaaaafaaaafaaaafaaaafaaaafaaaafaaaafaaaafaaaafaaaafaaaafaaaafaaaafaaaafaaaafaaaafaaaafaaaafaaaafaaaafaaaafaaaafaaaafaaaafaaaafaaaafaaaafaaaafaaaafaaaafaaaafaaaafaaaafaaaafaaaafaaaafaaaafaaaafaaaafaaaafaaaafaaaafaaaafaaaafaaaafaaaafaaaafaaaafaaaafaaaafaaaafaaaafaaaafaaaafaaaafaaaafaaaafaaaafaaaafaaaafaaaafaaaafaaaafaaaafaaaafaaaafaaaafaaaafaaaafaaaafaaaafaaaafaaaafaaaafaaaafaaaafaaaafaaaafaaaafaaaafaaaafaaaafaaaafaaaafaaaafaaaafaaaafaaaafaaaafaaaafaaaafaaaafaaaafaaaafaaaafaaaafaaaafaaaafaaaafaaaafaaaafaaaafaaaafaaaafaaaafaaaafaaaafaaaafaaaafaaaafaaaafaaaafaaaafaaaafaaaafaaaafaaaafaaaafaaaafaaaafaaaafaaaafaaaafaaaafaaaafaaaafaaaafaaaafaaaafaaaafaaaafaaaafaaaafaaaafaaaafaaaafaaaafaaaafaaaafaaaafaaaafaaaafaaaafaaaafaaaafaaaafaaaafaaaafaaaafaaaafaaaafaaaafaaaafaaaafaaaafaaaafaaaafaaaafaaaafaaaafaaaafaaaafaaaafaaaafaaaafaaaafaaaafaaaafaaaafaaaafaaaafaaaafaaaafaaaafaaaafaaaafaaaafaaaafaaaafaaaafaaaafaaaafaaaafaaaafaaaafaaaafaaaafaaaafaaaafaaaafaaaafaaaafaaaafaaaafaaaafaaaafaaaafaaaafaaaafaaaafaaaafaaaafaaaafaaaafaaaafaaaafaaaafaaaafaaaafaaaafaaaafaaaafaaaafaaaafaaaafaaaafaaaafaaaafaaaafaaaafaaaafaaaafaaaafaaaafaaaafaaaafaaaafaaaafaaaafaaaafaaaafaaaafaaaafaaaafaaaafaaaafaaaafaaaafaaaafaaaafaaaafaaaafaaaafaaaafaaaafaaaafaaaafaaaafaaaafaaaafaaaafaaaafaaaafaaaafaaaafaaaafaaaafaaaafaaaafaaaafaaaafaaaafaaaafaaaafaaaafaaaafaaaafaaaafaaaafaaaafaaaafaaaafaaaafaaaafaaaafaaaafaaaafaaaafaaaafaaaafaaaafaaaafaaaafaaaafaaaafaaaafaaaafaaaafaaaafaaaafaaaafaaaafaaaafaaaafaaaafaaaafaaaafaaaafaaaafaaaafaaaafaaaafaaaafaaaafaaaafaaaafaaaafaaaafaaaafaaaafaaaafaaaafaaaafaaaafaaaafaaaafaaaafaaaafaaaafaaaafaaaafaaaafaaaafaaaafaaaafaaaafaaaafaaaafaaaafaaaafaaaafaaaafaaaafaaaafaaaafaaaafaaaafaaaafaaaafaaaafaaaafaaaafaaaafaaaafaaaafaaaafaaaafaaaafaaaafaaaafaaaafaaaafaaaafaaaafaaaafaaaafaaaafaaaafaaaafaaaafaaaafaaaafaaaafaaaafaaaafaaaafaaaafaaaafaaaafaaaafaaaafaaaafaaaafaaaafaaaafaaaafaaaafaaaafaaaafaaaafaaaafaaaafaaaafaaaafaaaafaaaafaaaafaaaafaaaafaaaafaaaafaaaafaaaafaaaafaaaafaaaafaaaafaaaafaaaafaaaafaaaafaaaafaaaafaaaafaaaafaaaafaaaafaaaafaaaafaaaafaaaafaaaafaaaafaaaafaaaafaaaafaaaafaaaafaaaafaaaafaaaafaaaafaaaafaaaafaaaafaaaafaaaafaaaafaaaafaaaafaaaafaaaafaaaafaaaafaaaafaaaafaaaafaaaafaaaafaaaafaaaafaaaafaaaafaaaafaaaafaaaafaaaafaaaafaaaafaaaafaaaafaaaafaaaafaaaafaaaafaaaafaaaafaaaafaaaafaaaafaaaafaaaafaaaafaaaafaaaafaaaafaaaafaaaafaaaafaaaafaaaafaaaafaaaafaaaafaaaafaaaafaaaafaaaafaaaafaaaafaaaafaaaafaaaafaaaafaaaafaaaafaaaafaaaafaaaafaaaafaaaafaaaafaaaafaaaafaaaafaaaafaaaafaaaafaaaafaaaafaaaafaaaafaaaafaaaafaaaafaaaafaaaafaaaafaaaafaaaafaaaafaaaafaaaafaaaafaaaafaaaafaaaafaaaafaaaafaaaafaaaafaaaafaaaafaaaafaaaafaaaafaaaafaaaafaaaafaaaafaaaafaaaafaaaafaaaafaaaafaaaafaaaafaaaafaaaafaaaafaaaafaaaafaaaafaaaafaaaafaaaafaaaafaaaafaaaafaaaafaaaafaaaafaaaafaaaafaaaafaaaafaaaafaaaafaaaafaaaafaaaafaaaafaaaafaaaafaaaafaaaafaaaafaaaafaaaafaaaafaaaafaaaafaaaafaaaafaaaafaaaafaaaafaaaafaaaafaaaafaaaafaaaafaaaafaaaafaaaafaaaafaaaafaaaafaaaafaaaafaaaafaaaafaaaafaaaafaaaafaaaafaaaafaaaafaaaafaaaafaaaafaaaafaaaafaaaafaaaafaaaafaaaafaaaafaaaafaaaafaaaafaaaafaaaafaaaafaaaafaaaafaaaafaaaafaaaafaaaafaaaafaaaafaaaafaaaafaaaafaaaafaaaafaaaafaaaafaaaafaaaafaaaafaaaafaaaafaaaafaaaafaaaafaaaafaaaafaaaafaaaafaaaafaaaafaaaafaaaafaaaafaaaafaaaafaaaafaaaafaaaafaaaafaaaafaaaafaaaafaaaafaaaafaaaafaaaafaaaafaaaafaaaafaaaafaaaafaaaafaaaafaaaafaaaafaaaafaaaafaaaafaaaafaaaafaaaafaaaafaaaafaaaafaaaafaaaafaaaafaaaafaaaafaaaafaaaafaaaafaaaafaaaafaaaafaaaafaaaafaaaafaaaafaaaafaaaafaaaafaaaafaaaafaaaafaaaafaaaafaaaafaaaafaaaafaaaafaaaafaaaafaaaafaaaafaaaafaaaafaaaafaaaafaaaafaaaafaaaafaaaafaaaafaaaafaaaafaaaafaaaafaaaafaaaafaaaafaaaafaaaafaaaafaaaafaaaafaaaafaaaafaaaafaaaafaaaafaaaafaaaafaaaafaaaafaaaafaaaafaaaafaaaafaaaafaaaafaaaafaaaafaaaafaaaafaaaafaaaafaaaafaaaafaaaafaaaafaaaafaaaafaaaafaaaafaaaafaaaafaaaafaaaafaaaafaaaafaaaafaaaafaaaafaaaafaaaafaaaafaaaafaaaafaaaafaaaafaaaafaaaafaaaafaaaafaaaafaaaafaaaafaaaafaaaafaaaafaaaafaaaafaaaafaaaafaaaafaaaafaaaafaaaafaaaafaaaafaaaafaaaafaaaafaaaafaaaafaaaafaaaafaaaafaaaafaaaafaaaafaaaafaaaafaaaafaaaafaaaafaaaafaaaafaaaafaaaafaaaafaaaafaaaafaaaafaaaafaaaafaaaafaaaafaaaafaaaafaaaafaaaafaaaafaaaafaaaafaaaafaaaafaaaafaaaafaaaafaaaafaaaafaaaafaaaafaaaafaaaafaaaafaaaafaaaafaaaafaaaafaaaafaaaafaaaafaaaafaaaafaaaafaaaafaaaafaaaafaaaafaaaafaaaafaaaafaaaafaaaafaaaafaaaafaaaafaaaafaaaafaaaafaaaafaaaafaaaafaaaafaaaafaaaafaaaafaaaafaaaafaaaafaaaafaaaafaaaafaaaafaaaafaaaafaaaafaaaafaaaafaaaafaaaafaaaafaaaafaaaafaaaafaaaafaaaafaaaafaaaafaaaafaaaafaaaafaaaafaaaafaaaafaaaafaaaafaaaafaaaafaaaafaaaafaaaafaaaafaaaafaaaafaaaafaaaafaaaafaaaafaaaafaaaafaaaafaaaafaaaafaaaafaaaafaaaafaaaafaaaafaaaafaaaafaaaafaaaafaaaafaaaafaaaafaaaafaaaafaaaafaaaafaaaafaaaafaaaafaaaafaaaafaaaafaaaafaaaafaaaafaaaafaaaafaaaafaaaafaaaafaaaafaaaafaaaafaaaafaaaafaaaafaaaafaaaafaaaafaaaafaaaafaaaafaaaafaaaafaaaafaaaafaaaafaaaafaaaafaaaafaaaafaaaafaaaafaaaafaaaafaaaafaaaafaaaafaaaafaaaafaaaafaaaafaaaafaaaafaaaafaaaafaaaafaaaafaaaafaaaafaaaafaaaafaaaafaaaafaaaafaaaafaaaafaaaafaaaafaaaafaaaafaaaafaaaafaaaafaaaafaaaafaaaafaaaafaaaafaaaafaaaafaaaafaaaafaaaafaaaafaaaafaaaafaaaafaaaafaaaafaaaafaaaafaaaafaaaafaaaafaaaafaaaafaaaafaaaafaaaafaaaafaaaafaaaafaaaafaaaafaaaafaaaafaaaafaaaafaaaafaaaafaaaafaaaafaaaafaaaafaaaafaaaafaaaafaaaafaaaafaaaafaaaafaaaafaaaafaaaafaaaafaaaafaaaafaaaafaaaafaaaafaaaafaaaafaaaafaaaafaaaafaaaafaaaafaaaafaaaafaaaafaaaafaaaafaaaafaaaafaaaafaaaafaaaafaaaafaaaafaaaafaaaafaaaafaaaafaaaafaaaafaaaafaaaafaaaafaaaafaaaafaaaafaaaafaaaafaaaafaaaafaaaafaaaafaaaafaaaafaaaafaaaafaaaafaaaafaaaafaaaafaaaafaaaafaaaafaaaafaaaafaaaafaaaafaaaafaaaafaaaafaaaafaaaafaaaafaaaafaaaafaaaafaaaafaaaafaaaafaaaafaaaafaaaafaaaafaaaafaaaafaaaafaaaafaaaafaaaafaaaafaaaafaaaafaaaafaaaafaaaafaaaafaaaafaaaafaaaafaaaafaaaafaaaafaaaafaaaafaaaafaaaafaaaafaaaafaaaafaaaafaaaafaaaafaaaafaaaafaaaafaaaafaaaafaaaafaaaafaaaafaaaafaaaafaaaafaaaafaaaafaaaafaaaafaaaafaaaafaaaafaaaafaaaafaaaafaaaafaaaafaaaafaaaafaaaafaaaafaaaafaaaafaaaafaaaafaaaafaaaafaaaafaaaafaaaafaaaafaaaafaaaafaaaafaaaafaaaafaaaafaaaafaaaafaaaafaaaafaaaafaaaafaaaafaaaafaaaafaaaafaaaafaaaafaaaafaaaafaaaafaaaafaaaafaaaafaaaafaaaafaaaafaaaafaaaafaaaafaaaafaaaafaaaafaaaafaaaafaaaafaaaafaaaafaaaafaaaafaaaafaaaafaaaafaaaafaaaafaaaafaaaafaaaafaaaafaaaafaaaafaaaafaaaafaaaafaaaafaaaafaaaafaaaafaaaafaaaafaaaafaaaafaaaafaaaafaaaafaaaafaaaafaaaafaaaafaaaafaaaafaaaafaaaafaaaafaaaafaaaafaaaafaaaafaaaafaaaafaaaafaaaafaaaafaaaafaaaafaaaafaaaafaaaafaaaafaaaafaaaafaaaafaaaafaaaafaaaafaaaafaaaafaaaafaaaafaaaafaaaafaaaafaaaafaaaafaaaafaaaafaaaafaaaafaaaafaaaafaaaafaaaafaaaafaaaafaaaafaaaafaaaafaaaafaaaafaaaafaaaafaaaafaaaafaaaafaaaafaaaafaaaafaaaafaaaafaaaafaaaafaaaafaaaafaaaafaaaafaaaafaaaafaaaafaaaafaaaafaaaafaaaafaaaafaaaafaaaafaaaafaaaafaaaafaaaafaaaafaaaafaaaafaaaafaaaafaaaafaaaafaaaafaaaafaaaafaaaafaaaafaaaafaaaafaaaafaaaafaaaafaaaafaaaafaaaafaaaafaaaafaaaafaaaafaaaafaaaafaaaafaaaafaaaafaaaafaaaafaaaafaaaafaaaafaaaafaaaafaaaafaaaafaaaafaaaafaaaafaaaafaaaafaaaafaaaafaaaafaaaafaaaafaaaafaaaafaaaafaaaafaaaafaaaafaaaafaaaafaaaafaaaafaaaafaaaafaaaafaaaafaaaafaaaafaaaafaaaafaaaafaaaafaaaafaaaafaaaafaaaafaaaafaaaafaaaafaaaafaaaafaaaafaaaafaaaafaaaafaaaafaaaafaaaafaaaafaaaafaaaafaaaafaaaafaaaafaaaafaaaafaaaafaaaafaaaafaaaafaaaafaaaafaaaafaaaafaaaafaaaafaaaafaaaafaaaafaaaafaaaafaaaafaaaafaaaafaaaafaaaafaaaafaaaafaaaafaaaafaaaafaaaafaaaafaaaafaaaafaaaafaaaafaaaafaaaafaaaafaaaafaaaafaaaafaaaafaaaafaaaafaaaafaaaafaaaafaaaafaaaafaaaafaaaafaaaafaaaafaaaafaaaafaaaafaaaafaaaafaaaafaaaafaaaafaaaafaaaafaaaafaaaafaaaafaaaafaaaafaaaafaaaafaaaafaaaafaaaafaaaafaaaafaaaafaaaafaaaafaaaafaaaafaaaafaaaafaaaafaaaafaaaafaaaafaaaafaaaafaaaafaaaafaaaafaaaafaaaafaaaafaaaafaaaafaaaafaaaafaaaafaaaafaaaafaaaafaaaafaaaafaaaafaaaafaaaafaaaafaaaafaaaafaaaafaaaafaaaafaaaafaaaafaaaafaaaafaaaafaaaafaaaafaaaafaaaafaaaafaaaafaaaafaaaafaaaafaaaafaaaafaaaafaaaafaaaafaaaafaaaafaaaafaaaafaaaafaaaafaaaafaaaafaaaafaaaafaaaafaaaafaaaafaaaafaaaafaaaafaaaafaaaafaaaafaaaafaaaafaaaafaaaafaaaafaaaafaaaafaaaafaaaafaaaafaaaafaaaafaaaafaaaafaaaafaaaafaaaafaaaafaaaafaaaafaaaafaaaafaaaafaaaafaaaafaaaafaaaafaaaafaaaafaaaafaaaafaaaafaaaafaaaafaaaafaaaafaaaafaaaafaaaafaaaafaaaafaaaafaaaafaaaafaaaafaaaafaaaafaaaafaaaafaaaafaaaafaaaafaaaafaaaafaaaafaaaafaaaafaaaafaaaafaaaafaaaafaaaafaaaafaaaafaaaafaaaafaaaafaaaafaaaafaaaafaaaafaaaafaaaafaaaafaaaafaaaafaaaafaaaafaaaafaaaafaaaafaaaafaaaafaaaafaaaafaaaafaaaafaaaafaaaafaaaafaaaafaaaafaaaafaaaafaaaafaaaafaaaafaaaafaaaafaaaafaaaafaaaafaaaafaaaafaaaafaaaafaaaafaaaafaaaafaaaafaaaafaaaafaaaafaaaafaaaafaaaafaaaafaaaafaaaafaaaafaaaafaaaafaaaafaaaafaaaafaaaafaaaafaaaafaaaafaaaafaaaafaaaafaaaafaaaafaaaafaaaafaaaafaaaafaaaafaaaafaaaafaaaafaaaafaaaafaaaafaaaafaaaafaaaafaaaafaaaafaaaafaaaafaaaafaaaafaaaafaaaafaaaafaaaafaaaafaaaafaaaafaaaafaaaafaaaafaaaafaaaafaaaafaaaafaaaafaaaafaaaafaaaafaaaafaaaafaaaafaaaafaaaafaaaafaaaafaaaafaaaafaaaafaaaafaaaafaaaafaaaafaaaafaaaafaaaafaaaafaaaafaaaafaaaafaaaafaaaafaaaafaaaafaaaafaaaafaaaafaaaafaaaafaaaafaaaafaaaafaaaafaaaafaaaafaaaafaaaafaaaafaaaafaaaafaaaafaaaafaaaafaaaafaaaafaaaafaaaafaaaafaaaafaaaafaaaafaaaafaaaafaaaafaaaafaaaafaaaafaaaafaaaafaaaafaaaafaaaafaaaafaaaafaaaafaaaafaaaafaaaafaaaafaaaafaaaafaaaafaaaafaaaafaaaafaaaafaaaafaaaafaaaafaaaafaaaafaaaafaaaafaaaafaaaafaaaafaaaafaaaafaaaafaaaafaaaafaaaafaaaafaaaafaaaafaaaafaaaafaaaafaaaafaaaafaaaafaaaafaaaafaaaafaaaafaaaafaaaafaaaafaaaafaaaafaaaafaaaafaaaafaaaafaaaafaaaafaaaafaaaafaaaafaaaafaaaafaaaafaaaafaaaafaaaafaaaafaaaafaaaafaaaafaaaafaaaafaaaafaaaafaaaafaaaafaaaafaaaafaaaafaaaafaaaafaaaafaaaafaaaafaaaafaaaafaaaafaaaafaaaafaaaafaaaafaaaafaaaafaaaafaaaafaaaafaaaafaaaafaaaafaaaafaaaafaaaafaaaafaaaafaaaafaaaafaaaafaaaafaaaafaaaafaaaafaaaafaaaafaaaafaaaafaaaafaaaafaaaafaaaafaaaafaaaafaaaafaaaafaaaafaaaafaaaafaaaafaaaafaaaafaaaafaaaafaaaafaaaafaaaafaaaafaaaafaaaafaaaafaaaafaaaafaaaafaaaafaaaafaaaafaaaafaaaafaaaafaaaafaaaafaaaafaaaafaaaafaaaafaaaafaaaafaaaafaaaafaaaafaaaafaaaafaaaafaaaafaaaafaaaafaaaafaaaafaaaafaaaafaaaafaaaafaaaafaaaafaaaafaaaafaaaafaaaafaaaafaaaafaaaafaaaafaaaafaaaafaaaafaaaafaaaafaaaafaaaafaaaafaaaafaaaafaaaafaaaafaaaafaaaafaaaafaaaafaaaafaaaafaaaafaaaafaaaafaaaafaaaafaaaafaaaafaaaafaaaafaaaafaaaafaaaafaaaafaaaafaaaafaaaafaaaafaaaafaaaafaaaafaaaafaaaafaaaafaaaafaaaafaaaafaaaafaaaafaaaafaaaafaaaafaaaafaaaafaaaafaaaafaaaafaaaafaaaafaaaafaaaafaaaafaaaafaaaafaaaafaaaafaaaafaaaafaaaafaaaafaaaafaaaafaaaafaaaafaaaafaaaafaaaafaaaafaaaafaaaafaaaafaaaafaaaafaaaafaaaafaaaafaaaafaaaafaaaafaaaafaaaafaaaafaaaafaaaafaaaafaaaafaaaafaaaafaaaafaaaafaaaafaaaafaaaafaaaafaaaafaaaafaaaafaaaafaaaafaaaafaaaafaaaafaaaafaaaafaaaafaaaafaaaafaaaafaaaafaaaafaaaafaaaafaaaafaaaafaaaafaaaafaaaafaaaafaaaafaaaafaaaafaaaafaaaafaaaafaaaafaaaafaaaafaaaafaaaafaaaafaaaafaaaafaaaafaaaafaaaafaaaafaaaafaaaafaaaafaaaafaaaafaaaafaaaafaaaafaaaafaaaafaaaafaaaafaaaafaaaafaaaafaaaafaaaafaaaafaaaafaaaafaaaafaaaafaaaafaaaafaaaafaaaafaaaafaaaafaaaafaaaafaaaafaaaafaaaafaaaafaaaafaaaafaaaafaaaafaaaafaaaafaaaafaaaafaaaafaaaafaaaafaaaafaaaafaaaafaaaafaaaafaaaafaaaafaaaafaaaafaaaafaaaafaaaafaaaafaaaafaaaafaaaafaaaafaaaafaaaafaaaafaaaafaaaafaaaafaaaafaaaafaaaafaaaafaaaafaaaafaaaafaaaafaaaafaaaafaaaafaaaafaaaafaaaafaaaafaaaafaaaafaaaafaaaafaaaafaaaafaaaafaaaafaaaafaaaafaaaafaaaafaaaafaaaafaaaafaaaafaaaafaaaafaaaafaaaafaaaafaaaafaaaafaaaafaaaafaaaafaaaafaaaafaaaafaaaafaaaafaaaafaaaafaaaafaaaafaaaafaaaafaaaafaaaafaaaafaaaafaaaafaaaafaaaafaaaafaaaafaaaafaaaafaaaafaaaafaaaafaaaafaaaafaaaafaaaafaaaafaaaafaaaafaaaafaaaafaaaafaaaafaaaafaaaafaaaafaaaafaaaafaaaafaaaafaaaafaaaafaaaafaaaafaaaafaaaafaaaafaaaafaaaafaaaafaaaafaaaafaaaafaaaafaaaafaaaafaaaafaaaafaaaafaaaafaaaafaaaafaaaafaaaafaaaafaaaafaaaafaaaafaaaafaaaafaaaafaaaafaaaafaaaafaaaafaaaafaaaafaaaafaaaafaaaafaaaafaaaafaaaafaaaafaaaafaaaafaaaafaaaafaaaafaaaafaaaafaaaafaaaafaaaafaaaafaaaafaaaafaaaafaaaafaaaafaaaafaaaafaaaafaaaafaaaafaaaafaaaafaaaafaaaafaaaafaaaafaaaafaaaafaaaafaaaafaaaafaaaafaaaafaaaafaaaafaaaafaaaafaaaafaaaafaaaafaaaafaaaafaaaafaaaafaaaafaaaafaaaafaaaafaaaafaaaafaaaafaaaafaaaafaaaafaaaafaaaafaaaafaaaafaaaafaaaafaaaafaaaafaaaafaaaafaaaafaaaafaaaafaaaafaaaafaaaafaaaafaaaafaaaafaaaafaaaafaaaafaaaafaaaafaaaafaaaafaaaafaaaafaaaafaaaafaaaafaaaafaaaafaaaafaaaafaaaafaaaafaaaafaaaafaaaafaaaafaaaafaaaafaaaafaaaafaaaafaaaafaaaafaaaafaaaafaaaafaaaafaaaafaaaafaaaafaaaafaaaafaaaafaaaafaaaafaaaafaaaafaaaafaaaafaaaafaaaafaaaafaaaafaaaafaaaafaaaafaaaafaaaafaaaafaaaafaaaafaaaafaaaafaaaafaaaafaaaafaaaafaaaafaaaafaaaafaaaafaaaafaaaafaaaafaaaafaaaafaaaafaaaafaaaafaaaafaaaafaaaafaaaafaaaafaaaafaaaafaaaafaaaafaaaafaaaafaaaafaaaafaaaafaaaafaaaafaaaafaaaafaaaafaaaafaaaafaaaafaaaafaaaafaaaafaaaafaaaafaaaafaaaafaaaafaaaafaaaafaaaafaaaafaaaafaaaafaaaafaaaafaaaafaaaafaaaafaaaafaaaafaaaafaaaafaaaafaaaafaaaafaaaafaaaafaaaafaaaafaaaafaaaafaaaafaaaafaaaafaaaafaaaafaaaafaaaafaaaafaaaafaaaafaaaafaaaafaaaafaaaafaaaafaaaafaaaafaaaafaaaafaaaafaaaafaaaafaaaafaaaafaaaafaaaafaaaafaaaafaaaafaaaafaaaafaaaafaaaafaaaafaaaafaaaafaaaafaaaafaaaafaaaafaaaafaaaafaaaafaaaafaaaafaaaafaaaafaaaafaaaafaaaafaaaafaaaafaaaafaaaafaaaafaaaafaaaafaaaafaaaafaaaafaaaafaaaafaaaafaaaafaaaafaaaafaaaafaaaafaaaafaaaafaaaafaaaafaaaafaaaafaaaafaaaafaaaafaaaafaaaafaaaafaaaafaaaafaaaafaaaafaaaafaaaafaaaafaaaafaaaafaaaafaaaafaaaafaaaafaaaafaaaafaaaafaaaafaaaafaaaafaaaafaaaafaaaafaaaafaaaafaaaafaaaafaaaafaaaafaaaafaaaafaaaafaaaafaaaafaaaafaaaafaaaafaaaafaaaafaaaafaaaafaaaafaaaafaaaafaaaafaaaafaaaafaaaafaaaafaaaafaaaafaaaafaaaafaaaafaaaafaaaafaaaafaaaafaaaafaaaafaaaafaaaafaaaafaaaafaaaafaaaafaaaafaaaafaaaafaaaafaaaafaaaafaaaafaaaafaaaafaaaafaaaafaaaafaaaafaaaafaaaafaaaafaaaafaaaafaaaafaaaafaaaafaaaafaaaafaaaafaaaafaaaafaaaafaaaafaaaafaaaafaaaafaaaafaaaafaaaafaaaafaaaafaaaafaaaafaaaafaaaafaaaafaaaafaaaafaaaafaaaafaaaafaaaafaaaafaaaafaaaafaaaafaaaafaaaafaaaafaaaafaaaafaaaafaaaafaaaafaaaafaaaafaaaafaaaafaaaafaaaafaaaafaaaafaaaafaaaafaaaafaaaafaaaafaaaafaaaafaaaafaaaafaaaafaaaafaaaafaaaafaaaafaaaafaaaafaaaafaaaafaaaafaaaafaaaafaaaafaaaafaaaafaaaafaaaafaaaafaaaafaaaafaaaafaaaafaaaafaaaafaaaafaaaafaaaafaaaafaaaafaaaafaaaafaaaafaaaafaaaafaaaafaaaafaaaafaaaafaaaafaaaafaaaafaaaafaaaafaaaafaaaafaaaafaaaafaaaafaaaafaaaafaaaafaaaafaaaafaaaafaaaafaaaafaaaafaaaafaaaafaaaafaaaafaaaafaaaafaaaafaaaafaaaafaaaafaaaafaaaafaaaafaaaafaaaafaaaafaaaafaaaafaaaafaaaafaaaafaaaafaaaafaaaafaaaafaaaafaaaafaaaafaaaafaaaafaaaafaaaafaaaafaaaafaaaafaaaafaaaafaaaafaaaafaaaafaaaafaaaafaaaafaaaafaaaafaaaafaaaafaaaafaaaafaaaafaaaafaaaafaaaafaaaafaaaafaaaafaaaafaaaafaaaafaaaafaaaafaaaafaaaafaaaafaaaafaaaafaaaafaaaafaaaafaaaafaaaafaaaafaaaafaaaafaaaafaaaafaaaafaaaafaaaafaaaafaaaafaaaafaaaafaaaafaaaafaaaafaaaafaaaafaaaafaaaafaaaafaaaafaaaafaaaafaaaafaaaafaaaafaaaafaaaafaaaafaaaafaaaafaaaafaaaafaaaafaaaafaaaafaaaafaaaafaaaafaaaafaaaafaaaafaaaafaaaafaaaafaaaafaaaafaaaafaaaafaaaafaaaafaaaafaaaafaaaafaaaafaaaafaaaafaaaafaaaafaaaafaaaafaaaafaaaafaaaafaaaafaaaafaaaafaaaafaaaafaaaafaaaafaaaafaaaafaaaafaaaafaaaafaaaafaaaafaaaafaaaafaaaafaaaafaaaafaaaafaaaafaaaafaaaafaaaafaaaafaaaafaaaafaaaafaaaafaaaafaaaafaaaafaaaafaaaafaaaafaaaafaaaafaaaafaaaafaaaafaaaafaaaafaaaafaaaafaaaafaaaafaaaafaaaafaaaafaaaafaaaafaaaafaaaafaaaafaaaafaaaafaaaafaaaafaaaafaaaafaaaafaaaafaaaafaaaafaaaafaaaafaaaafaaaafaaaafaaaafaaaafaaaafaaaafaaaafaaaafaaaafaaaafaaaafaaaafaaaafaaaafaaaafaaaafaaaafaaaafaaaafaaaafaaaafaaaafaaaafaaaafaaaafaaaafaaaafaaaafaaaafaaaafaaaafaaaafaaaafaaaafaaaafaaaafaaaafaaaafaaaafaaaafaaaafaaaafaaaafaaaafaaaafaaaafaaaafaaaafaaaafaaaafaaaafaaaafaaaafaaaafaaaafaaaafaaaafaaaafaaaafaaaafaaaafaaaafaaaafaaaafaaaafaaaafaaaafaaaafaaaafaaaafaaaafaaaafaaaafaaaafaaaafaaaafaaaafaaaafaaaafaaaafaaaafaaaafaaaafaaaafaaaafaaaafaaaafaaaafaaaafaaaafaaaafaaaafaaaafaaaafaaaafaaaafaaaafaaaafaaaafaaaafaaaafaaaafaaaafaaaafaaaafaaaafaaaafaaaafaaaafaaaafaaaafaaaafaaaafaaaafaaaafaaaafaaaafaaaafaaaafaaaafaaaafaaaafaaaafaaaafaaaafaaaafaaaafaaaafaaaafaaaafaaaafaaaafaaaafaaaafaaaafaaaafaaaafaaaafaaaafaaaafaaaafaaaafaaaafaaaafaaaafaaaafaaaafaaaafaaaafaaaafaaaafaaaafaaaafaaaafaaaafaaaafaaaafaaaafaaaafaaaafaaaafaaaafaaaafaaaafaaaafaaaafaaaafaaaafaaaafaaaafaaaafaaaafaaaafaaaafaaaafaaaafaaaafaaaafaaaafaaaafaaaafaaaafaaaafaaaafaaaafaaaafaaaafaaaafaaaafaaaafaaaafaaaafaaaafaaaafaaaafaaaafaaaafaaaafaaaafaaaafaaaafaaaafaaaafaaaafaaaafaaaafaaaafaaaafaaaafaaaafaaaafaaaafaaaafaaaafaaaafaaaafaaaafaaaafaaaafaaaafaaaafaaaafaaaafaaaafaaaafaaaafaaaafaaaafaaaafaaaafaaaafaaaafaaaafaaaafaaaafaaaafaaaafaaaafaaaafaaaafaaaafaaaafaaaafaaaafaaaafaaaafaaaafaaaafaaaafaaaafaaaafaaaafaaaafaaaafaaaafaaaafaaaafaaaafaaaafaaaafaaaafaaaafaaaafaaaafaaaafaaaafaaaafaaaafaaaafaaaafaaaafaaaafaaaafaaaafaaaafaaaafaaaafaaaafaaaafaaaafaaaafaaaafaaaafaaaafaaaafaaaafaaaafaaaafaaaafaaaafaaaafaaaafaaaafaaaafaaaafaaaafaaaafaaaafaaaafaaaafaaaafaaaafaaaafaaaafaaaafaaaafaaaafaaaafaaaafaaaafaaaafaaaafaaaafaaaafaaaafaaaafaaaafaaaafaaaafaaaafaaaafaaaafaaaafaaaafaaaafaaaafaaaafaaaafaaaafaaaafaaaafaaaafaaaafaaaafaaaafaaaafaaaafaaaafaaaafaaaafaaaafaaaafaaaafaaaafaaaafaaaafaaaafaaaafaaaafaaaafaaaafaaaafaaaafaaaafaaaafaaaafaaaafaaaafaaaafaaaafaaaafaaaafaaaafaaaafaaaafaaaafaaaafaaaafaaaafaaaafaaaafaaaafaaaafaaaafaaaafaaaafaaaafaaaafaaaafaaaafaaaafaaaafaaaafaaaafaaaafaaaafaaaafaaaafaaaafaaaafaaaafaaaafaaaafaaaafaaaafaaaafaaaafaaaafaaaafaaaafaaaafaaaafaaaafaaaafaaaafaaaafaaaafaaaafaaaafaaaafaaaafaaaafaaaafaaaafaaaafaaaafaaaafaaaafaaaafaaaafaaaafaaaafaaaafaaaafaaaafaaaafaaaafaaaafaaaafaaaafaaaafaaaafaaaafaaaafaaaafaaaafaaaafaaaafaaaafaaaafaaaafaaaafaaaafaaaafaaaafaaaafaaaafaaaafaaaafaaaafaaaafaaaafaaaafaaaafaaaafaaaafaaaafaaaafaaaafaaaafaaaafaaaafaaaafaaaafaaaafaaaafaaaafaaaafaaaafaaaafaaaafaaaafaaaafaaaafaaaafaaaafaaaafaaaafaaaafaaaafaaaafaaaafaaaafaaaafaaaafaaaafaaaafaaaafaaaafaaaafaaaafaaaafaaaafaaaafaaaafaaaafaaaafaaaafaaaafaaaafaaaafaaaafaaaafaaaafaaaafaaaafaaaafaaaafaaaafaaaafaaaafaaaafaaaafaaaafaaaafaaaafaaaafaaaafaaaafaaaafaaaafaaaafaaaafaaaafaaaafaaaafaaaafaaaafaaaafaaaafaaaafaaaafaaaafaaaafaaaafaaaafaaaafaaaafaaaafaaaafaaaafaaaafaaaafaaaafaaaafaaaafaaaafaaaafaaaafaaaafaaaafaaaafaaaafaaaafaaaafaaaafaaaafaaaafaaaafaaaafaaaafaaaafaaaafaaaafaaaafaaaafaaaafaaaafaaaafaaaafaaaafaaaafaaaafaaaafaaaafaaaafaaaafaaaafaaaafaaaafaaaafaaaafaaaafaaaafaaaafaaaafaaaafaaaafaaaafaaaafaaaafaaaafaaaafaaaafaaaafaaaafaaaafaaaafaaaafaaaafaaaafaaaafaaaafaaaafaaaafaaaafaaaafaaaafaaaafaaaafaaaafaaaafaaaafaaaafaaaafaaaafaaaafaaaafaaaafaaaafaaaafaaaafaaaafaaaafaaaafaaaafaaaafaaaafaaaafaaaafaaaafaaaafaaaafaaaafaaaafaaaafaaaafaaaafaaaafaaaafaaaafaaaafaaaafaaaafaaaafaaaafaaaafaaaafaaaafaaaafaaaafaaaafaaaafaaaafaaaafaaaafaaaafaaaafaaaafaaaafaaaafaaaafaaaafaaaafaaaafaaaafaaaafaaaafaaaafaaaafaaaafaaaafaaaafaaaafaaaafaaaafaaaafaaaafaaaafaaaafaaaafaaaafaaaafaaaafaaaafaaaafaaaafaaaafaaaafaaaafaaaafaaaafaaaafaaaafaaaafaaaafaaaafaaaafaaaafaaaafaaaafaaaafaaaafaaaafaaaafaaaafaaaafaaaafaaaafaaaafaaaafaaaafaaaafaaaafaaaafaaaafaaaafaaaafaaaafaaaafaaaafaaaafaaaafaaaafaaaafaaaafaaaafaaaafaaaafaaaafaaaafaaaafaaaafaaaafaaaafaaaafaaaafaaaafaaaafaaaafaaaafaaaafaaaafaaaafaaaafaaaafaaaafaaaafaaaafaaaafaaaafaaaafaaaafaaaafaaaafaaaafaaaafaaaafaaaafaaaafaaaafaaaafaaaafaaaafaaaafaaaafaaaafaaaafaaaafaaaafaaaafaaaafaaaafaaaafaaaafaaaafaaaafaaaafaaaafaaaafaaaafaaaafaaaafaaaafaaaafaaaafaaaafaaaafaaaafaaaafaaaafaaaafaaaafaaaafaaaafaaaafaaaafaaaafaaaafaaaafaaaafaaaafaaaafaaaafaaaafaaaafaaaafaaaafaaaafaaaafaaaafaaaafaaaafaaaafaaaafaaaafaaaafaaaafaaaafaaaafaaaafaaaafaaaafaaaafaaaafaaaafaaaafaaaafaaaafaaaafaaaafaaaafaaaafaaaafaaaafaaaafaaaafaaaafaaaafaaaafaaaafaaaafaaaafaaaafaaaafaaaafaaaafaaaafaaaafaaaafaaaafaaaafaaaafaaaafaaaafaaaafaaaafaaaafaaaafaaaafaaaafaaaafaaaafaaaafaaaafaaaafaaaafaaaafaaaafaaaafaaaafaaaafaaaafaaaafaaaafaaaafaaaafaaaafaaaafaaaafaaaafaaaafaaaafaaaafaaaafaaaafaaaafaaaafaaaafaaaafaaaafaaaafaaaafaaaafaaaafaaaafaaaafaaaafaaaafaaaafaaaafaaaafaaaafaaaafaaaafaaaafaaaafaaaafaaaafaaaafaaaafaaaafaaaafaaaafaaaafaaaafaaaafaaaafaaaafaaaafaaaafaaaafaaaafaaaafaaaafaaaafaaaafaaaafaaaafaaaafaaaafaaaafaaaafaaaafaaaafaaaafaaaafaaaafaaaafaaaafaaaafaaaafaaaafaaaafaaaafaaaafaaaafaaaafaaaafaaaafaaaafaaaafaaaafaaaafaaaafaaaafaaaafaaaafaaaafaaaafaaaafaaaafaaaafaaaafaaaafaaaafaaaafaaaafaaaafaaaafaaaafaaaafaaaafaaaafaaaafaaaafaaaafaaaafaaaafaaaafaaaafaaaafaaaafaaaafaaaafaaaafaaaafaaaafaaaafaaaafaaaafaaaafaaaafaaaafaaaafaaaafaaaafaaaafaaaafaaaafaaaafaaaafaaaafaaaafaaaafaaaafaaaafaaaafaaaafaaaafaaaafaaaafaaaafaaaafaaaafaaaafaaaafaaaafaaaafaaaafaaaafaaaafaaaafaaaafaaaafaaaafaaaafaaaafaaaafaaaafaaaafaaaafaaaafaaaafaaaafaaaafaaaafaaaafaaaafaaaafaaaafaaaafaaaafaaaafaaaafaaaafaaaafaaaafaaaafaaaafaaaafaaaafaaaafaaaafaaaafaaaafaaaafaaaafaaaafaaaafaaaafaaaafaaaafaaaafaaaafaaaafaaaafaaaafaaaafaaaafaaaafaaaafaaaafaaaafaaaafaaaafaaaafaaaafaaaafaaaafaaaafaaaafaaaafaaaafaaaafaaaafaaaafaaaafaaaafaaaafaaaafaaaafaaaafaaaafaaaafaaaafaaaafaaaafaaaafaaaafaaaafaaaafaaaafaaaafaaaafaaaafaaaafaaaafaaaafaaaafaaaafaaaafaaaafaaaafaaaafaaaafaaaafaaaafaaaafaaaafaaaafaaaafaaaafaaaafaaaafaaaafaaaafaaaafaaaafaaaafaaaafaaaafaaaafaaaafaaaafaaaafaaaafaaaafaaaafaaaafaaaafaaaafaaaafaaaafaaaafaaaafaaaafaaaafaaaafaaaafaaaafaaaafaaaafaaaafaaaafaaaafaaaafaaaafaaaafaaaafaaaafaaaafaaaafaaaafaaaafaaaafaaaafaaaafaaaafaaaafaaaafaaaafaaaafaaaafaaaafaaaafaaaafaaaafaaaafaaaafaaaafaaaafaaaafaaaafaaaafaaaafaaaafaaaafaaaafaaaafaaaafaaaafaaaafaaaafaaaafaaaafaaaafaaaafaaaafaaaafaaaafaaaafaaaafaaaafaaaafaaaafaaaafaaaafaaaafaaaafaaaafaaaafaaaafaaaafaaaafaaaafaaaafaaaafaaaafaaaafaaaafaaaafaaaafaaaafaaaafaaaafaaaafaaaafaaaafaaaafaaaafaaaafaaaafaaaafaaaafaaaafaaaafaaaafaaaafaaaafaaaafaaaafaaaafaaaafaaaafaaaafaaaafaaaafaaaafaaaafaaaafaaaafaaaafaaaafaaaafaaaafaaaafaaaafaaaafaaaafaaaafaaaafaaaafaaaafaaaafaaaafaaaafaaaafaaaafaaaafaaaafaaaafaaaafaaaafaaaafaaaafaaaafaaaafaaaafaaaafaaaafaaaafaaaafaaaafaaaafaaaafaaaafaaaafaaaafaaaafaaaafaaaafaaaafaaaafaaaafaaaafaaaafaaaafaaaafaaaafaaaafaaaafaaaafaaaafaaaafaaaafaaaafaaaafaaaafaaaafaaaafaaaafaaaafaaaafaaaafaaaafaaaafaaaafaaaafaaaafaaaafaaaafaaaafaaaafaaaafaaaafaaaafaaaafaaaafaaaafaaaafaaaafaaaafaaaafaaaafaaaafaaaafaaaafaaaafaaaafaaaafaaaafaaaafaaaafaaaafaaaafaaaafaaaafaaaafaaaafaaaafaaaafaaaafaaaafaaaafaaaafaaaafaaaafaaaafaaaafaaaafaaaafaaaafaaaafaaaafaaaafaaaafaaaafaaaafaaaafaaaafaaaafaaaafaaaafaaaafaaaafaaaafaaaafaaaafaaaafaaaafaaaafaaaafaaaafaaaafaaaafaaaafaaaafaaaafaaaafaaaafaaaafaaaafaaaafaaaafaaaafaaaafaaaafaaaafaaaafaaaafaaaafaaaafaaaafaaaafaaaafaaaafaaaafaaaafaaaafaaaafaaaafaaaafaaaafaaaafaaaafaaaafaaaafaaaafaaaafaaaafaaaafaaaafaaaafaaaafaaaafaaaafaaaafaaaafaaaafaaaafaaaafaaaafaaaafaaaafaaaafaaaafaaaafaaaafaaaafaaaafaaaafaaaafaaaafaaaafaaaafaaaafaaaafaaaafaaaafaaaafaaaafaaaafaaaafaaaafaaaafaaaafaaaafaaaafaaaafaaaafaaaafaaaafaaaafaaaafaaaafaaaafaaaafaaaafaaaafaaaafaaaafaaaafaaaafaaaafaaaafaaaafaaaafaaaafaaaafaaaafaaaafaaaafaaaafaaaafaaaafaaaafaaaafaaaafaaaafaaaafaaaafaaaafaaaafaaaafaaaafaaaafaaaafaaaafaaaafaaaafaaaafaaaafaaaafaaaafaaaafaaaafaaaafaaaafaaaafaaaafaaaafaaaafaaaafaaaafaaaafaaaafaaaafaaaafaaaafaaaafaaaafaaaafaaaafaaaafaaaafaaaafaaaafaaaafaaaafaaaafaaaafaaaafaaaafaaaafaaaafaaaafaaaafaaaafaaaafaaaafaaaafaaaafaaaafaaaafaaaafaaaafaaaafaaaafaaaafaaaafaaaafaaaafaaaafaaaafaaaafaaaafaaaafaaaafaaaafaaaafaaaafaaaafaaaafaaaafaaaafaaaafaaaafaaaafaaaafaaaafaaaafaaaafaaaafaaaafaaaafaaaafaaaafaaaafaaaafaaaafaaaafaaaafaaaafaaaafaaaafaaaafaaaafaaaafaaaafaaaafaaaafaaaafaaaafaaaafaaaafaaaafaaaafaaaafaaaafaaaafaaaafaaaafaaaafaaaafaaaafaaaafaaaafaaaafaaaafaaaafaaaafaaaafaaaafaaaafaaaafaaaafaaaafaaaafaaaafaaaafaaaafaaaafaaaafaaaafaaaafaaaafaaaafaaaafaaaafaaaafaaaafaaaafaaaafaaaafaaaafaaaafaaaafaaaafaaaafaaaafaaaafaaaafaaaafaaaafaaaafaaaafaaaafaaaafaaaafaaaafaaaafaaaafaaaafaaaafaaaafaaaafaaaafaaaafaaaafaaaafaaaafaaaafaaaafaaaafaaaafaaaafaaaafaaaafaaaafaaaafaaaafaaaafaaaafaaaafaaaafaaaafaaaafaaaafaaaafaaaafaaaafaaaafaaaafaaaafaaaafaaaafaaaafaaaafaaaafaaaafaaaafaaaafaaaafaaaafaaaafaaaafaaaafaaaafaaaafaaaafaaaafaaaafaaaafaaaafaaaafaaaafaaaafaaaafaaaafaaaafaaaafaaaafaaaafaaaafaaaafaaaafaaaafaaaafaaaafaaaafaaaafaaaafaaaafaaaafaaaafaaaafaaaafaaaafaaaafaaaafaaaafaaaafaaaafaaaafaaaafaaaafaaaafaaaafaaaafaaaafaaaafaaaafaaaafaaaafaaaafaaaafaaaafaaaafaaaafaaaafaaaafaaaafaaaafaaaafaaaafaaaafaaaafaaaafaaaafaaaafaaaafaaaafaaaafaaaafaaaafaaaafaaaafaaaafaaaafaaaafaaaafaaaafaaaafaaaafaaaafaaaafaaaafaaaafaaaafaaaafaaaafaaaafaaaafaaaafaaaafaaaafaaaafaaaafaaaafaaaafaaaafaaaafaaaafaaaafaaaafaaaafaaaafaaaafaaaafaaaafaaaafaaaafaaaafaaaafaaaafaaaafaaaafaaaafaaaafaaaafaaaafaaaafaaaafaaaafaaaafaaaafaaaafaaaafaaaafaaaafaaaafaaaafaaaafaaaafaaaafaaaafaaaafaaaafaaaafaaaafaaaafaaaafaaaafaaaafaaaafaaaafaaaafaaaafaaaafaaaafaaaafaaaafaaaafaaaafaaaafaaaafaaaafaaaafaaaafaaaafaaaafaaaafaaaafaaaafaaaafaaaafaaaafaaaafaaaafaaaafaaaafaaaafaaaafaaaafaaaafaaaafaaaafaaaafaaaafaaaafaaaafaaaafaaaafaaaafaaaafaaaafaaaafaaaafaaaafaaaafaaaafaaaafaaaafaaaafaaaafaaaafaaaafaaaafaaaafaaaafaaaafaaaafaaaafaaaafaaaafaaaafaaaafaaaafaaaafaaaafaaaafaaaafaaaafaaaafaaaafaaaafaaaafaaaafaaaafaaaafaaaafaaaafaaaafaaaafaaaafaaaafaaaafaaaafaaaafaaaafaaaafaaaafaaaafaaaafaaaafaaaafaaaafaaaafaaaafaaaafaaaafaaaafaaaafaaaafaaaafaaaafaaaafaaaafaaaafaaaafaaaafaaaafaaaafaaaafaaaafaaaafaaaafaaaafaaaafaaaafaaaafaaaafaaaafaaaafaaaafaaaafaaaafaaaafaaaafaaaafaaaafaaaafaaaafaaaafaaaafaaaafaaaafaaaafaaaafaaaafaaaafaaaafaaaafaaaafaaaafaaaafaaaafaaaafaaaafaaaafaaaafaaaafaaaafaaaafaaaafaaaafaaaafaaaafaaaafaaaafaaaafaaaafaaaafaaaafaaaafaaaafaaaafaaaafaaaafaaaafaaaafaaaafaaaafaaaafaaaafaaaafaaaafaaaafaaaafaaaafaaaafaaaafaaaafaaaafaaaafaaaafaaaafaaaafaaaafaaaafaaaafaaaafaaaafaaaafaaaafaaaafaaaafaaaafaaaafaaaafaaaafaaaafaaaafaaaafaaaafaaaafaaaafaaaafaaaafaaaafaaaafaaaafaaaafaaaafaaaafaaaafaaaafaaaafaaaafaaaafaaaafaaaafaaaafaaaafaaaafaaaafaaaafaaaafaaaafaaaafaaaafaaaafaaaafaaaafaaaafaaaafaaaafaaaafaaaafaaaafaaaafaaaafaaaafaaaafaaaafaaaafaaaafaaaafaaaafaaaafaaaafaaaafaaaafaaaafaaaafaaaafaaaafaaaafaaaafaaaafaaaafaaaafaaaafaaaafaaaafaaaafaaaafaaaafaaaafaaaafaaaafaaaafaaaafaaaafaaaafaaaafaaaafaaaafaaaafaaaafaaaafaaaafaaaafaaaafaaaafaaaafaaaafaaaafaaaafaaaafaaaafaaaafaaaafaaaafaaaafaaaafaaaafaaaafaaaafaaaafaaaafaaaafaaaafaaaafaaaafaaaafaaaafaaaafaaaafaaaafaaaafaaaafaaaafaaaafaaaafaaaafaaaafaaaafaaaafaaaafaaaafaaaafaaaafaaaafaaaafaaaafaaaafaaaafaaaafaaaafaaaafaaaafaaaafaaaafaaaafaaaafaaaafaaaafaaaafaaaafaaaafaaaafaaaafaaaafaaaafaaaafaaaafaaaafaaaafaaaafaaaafaaaafaaaafaaaafaaaafaaaafaaaafaaaafaaaafaaaafaaaafaaaafaaaafaaaafaaaafaaaafaaaafaaaafaaaafaaaafaaaafaaaafaaaafaaaafaaaafaaaafaaaafaaaafaaaafaaaafaaaafaaaafaaaafaaaafaaaafaaaafaaaafaaaafaaaafaaaafaaaafaaaafaaaafaaaafaaaafaaaafaaaafaaaafaaaafaaaafaaaafaaaafaaaafaaaafaaaafaaaafaaaafaaaafaaaafaaaafaaaafaaaafaaaafaaaafaaaafaaaafaaaafaaaafaaaafaaaafaaaafaaaafaaaafaaaafaaaafaaaafaaaafaaaafaaaafaaaafaaaafaaaafaaaafaaaafaaaafaaaafaaaafaaaafaaaafaaaafaaaafaaaafaaaafaaaafaaaafaaaafaaaafaaaafaaaafaaaafaaaafaaaafaaaafaaaafaaaafaaaafaaaafaaaafaaaafaaaafaaaafaaaafaaaafaaaafaaaafaaaafaaaafaaaafaaaafaaaafaaaafaaaafaaaafaaaafaaaafaaaafaaaafaaaafaaaafaaaafaaaafaaaafaaaafaaaafaaaafaaaafaaaafaaaafaaaafaaaafaaaafaaaafaaaafaaaafaaaafaaaafaaaafaaaafaaaafaaaafaaaafaaaafaaaafaaaafaaaafaaaafaaaafaaaafaaaafaaaafaaaafaaaafaaaafaaaafaaaafaaaafaaaafaaaafaaaafaaaafaaaafaaaafaaaafaaaafaaaafaaaafaaaafaaaafaaaafaaaafaaaafaaaafaaaafaaaafaaaafaaaafaaaafaaaafaaaafaaaafaaaafaaaafaaaafaaaafaaaafaaaafaaaafaaaafaaaafaaaafaaaafaaaafaaaafaaaafaaaafaaaafaaaafaaaafaaaafaaaafaaaafaaaafaaaafaaaafaaaafaaaafaaaafaaaafaaaafaaaafaaaafaaaafaaaafaaaafaaaafaaaafaaaafaaaafaaaafaaaafaaaafaaaafaaaafaaaafaaaafaaaafaaaafaaaafaaaafaaaafaaaafaaaafaaaafaaaafaaaafaaaafaaaafaaaafaaaafaaaafaaaafaaaafaaaafaaaafaaaafaaaafaaaafaaaafaaaafaaaafaaaafaaaafaaaafaaaafaaaafaaaafaaaafaaaafaaaafaaaafaaaafaaaafaaaafaaaafaaaafaaaafaaaafaaaafaaaafaaaafaaaafaaaafaaaafaaaafaaaafaaaafaaaafaaaafaaaafaaaafaaaafaaaafaaaafaaaafaaaafaaaafaaaafaaaafaaaafaaaafaaaafaaaafaaaafaaaafaaaafaaaafaaaafaaaafaaaafaaaafaaaafaaaafaaaafaaaafaaaafaaaafaaaafaaaafaaaafaaaafaaaafaaaafaaaafaaaafaaaafaaaafaaaafaaaafaaaafaaaafaaaafaaaafaaaafaaaafaaaafaaaafaaaafaaaafaaaafaaaafaaaafaaaafaaaafaaaafaaaafaaaafaaaafaaaafaaaafaaaafaaaafaaaafaaaafaaaafaaaafaaaafaaaafaaaafaaaafaaaafaaaafaaaafaaaafaaaafaaaafaaaafaaaafaaaafaaaafaaaafaaaafaaaafaaaafaaaafaaaafaaaafaaaafaaaafaaaafaaaafaaaafaaaafaaaafaaaafaaaafaaaafaaaafaaaafaaaafaaaafaaaafaaaafaaaafaaaafaaaafaaaafaaaafaaaafaaaafaaaafaaaafaaaafaaaafaaaafaaaafaaaafaaaafaaaafaaaafaaaafaaaafaaaafaaaafaaaafaaaafaaaafaaaafaaaafaaaafaaaafaaaafaaaafaaaafaaaafaaaafaaaafaaaafaaaafaaaafaaaafaaaafaaaafaaaafaaaafaaaafaaaafaaaafaaaafaaaafaaaafaaaafaaaafaaaafaaaafaaaafaaaafaaaafaaaafaaaafaaaafaaaafaaaafaaaafaaaafaaaafaaaafaaaafaaaafaaaafaaaafaaaafaaaafaaaafaaaafaaaafaaaafaaaafaaaafaaaafaaaafaaaafaaaafaaaafaaaafaaaafaaaafaaaafaaaafaaaafaaaafaaaafaaaafaaaafaaaafaaaafaaaafaaaafaaaafaaaafaaaafaaaafaaaafaaaafaaaafaaaafaaaafaaaafaaaafaaaafaaaafaaaafaaaafaaaafaaaafaaaafaaaafaaaafaaaafaaaafaaaafaaaafaaaafaaaafaaaafaaaafaaaafaaaafaaaafaaaafaaaafaaaafaaaafaaaafaaaafaaaafaaaafaaaafaaaafaaaafaaaafaaaafaaaafaaaafaaaafaaaafaaaafaaaafaaaafaaaafaaaafaaaafaaaafaaaafaaaafaaaafaaaafaaaafaaaafaaaafaaaafaaaafaaaafaaaafaaaafaaaafaaaafaaaafaaaafaaaafaaaafaaaafaaaafaaaafaaaafaaaafaaaafaaaafaaaafaaaafaaaafaaaafaaaafaaaafaaaafaaaafaaaafaaaafaaaafaaaafaaaafaaaafaaaafaaaafaaaafaaaafaaaafaaaafaaaafaaaafaaaafaaaafaaaafaaaafaaaafaaaafaaaafaaaafaaaafaaaafaaaafaaaafaaaafaaaafaaaafaaaafaaaafaaaafaaaafaaaafaaaafaaaafaaaafaaaafaaaafaaaafaaaafaaaafaaaafaaaafaaaafaaaafaaaafaaaafaaaafaaaafaaaafaaaafaaaafaaaafaaaafaaaafaaaafaaaafaaaafaaaafaaaafaaaafaaaafaaaafaaaafaaaafaaaafaaaafaaaafaaaafaaaafaaaafaaaafaaaafaaaafaaaafaaaafaaaafaaaafaaaafaaaafaaaafaaaafaaaafaaaafaaaafaaaafaaaafaaaafaaaafaaaafaaaafaaaafaaaafaaaafaaaafaaaafaaaafaaaafaaaafaaaafaaaafaaaafaaaafaaaafaaaafaaaafaaaafaaaafaaaafaaaafaaaafaaaafaaaafaaaafaaaafaaaafaaaafaaaafaaaafaaaafaaaafaaaafaaaafaaaafaaaafaaaafaaaafaaaafaaaafaaaafaaaafaaaafaaaafaaaafaaaafaaaafaaaafaaaafaaaafaaaafaaaafaaaafaaaafaaaafaaaafaaaafaaaafaaaafaaaafaaaafaaaafaaaafaaaafaaaafaaaafaaaafaaaafaaaafaaaafaaaafaaaafaaaafaaaafaaaafaaaafaaaafaaaafaaaafaaaafaaaafaaaafaaaafaaaafaaaafaaaafaaaafaaaafaaaafaaaafaaaafaaaafaaaafaaaafaaaafaaaafaaaafaaaafaaaafaaaafaaaafaaaafaaaafaaaafaaaafaaaafaaaafaaaafaaaafaaaafaaaafaaaafaaaafaaaafaaaafaaaafaaaafaaaafaaaafaaaafaaaafaaaafaaaafaaaafaaaafaaaafaaaafaaaafaaaafaaaafaaaafaaaafaaaafaaaafaaaafaaaafaaaafaaaafaaaafaaaafaaaafaaaafaaaafaaaafaaaafaaaafaaaafaaaafaaaafaaaafaaaafaaaafaaaafaaaafaaaafaaaafaaaafaaaafaaaafaaaafaaaafaaaafaaaafaaaafaaaafaaaafaaaafaaaafaaaafaaaafaaaafaaaafaaaafaaaafaaaafaaaafaaaafaaaafaaaafaaaafaaaafaaaafaaaafaaaafaaaafaaaafaaaafaaaafaaaafaaaafaaaafaaaafaaaafaaaafaaaafaaaafaaaafaaaafaaaafaaaafaaaafaaaafaaaafaaaafaaaafaaaafaaaafaaaafaaaafaaaafaaaafaaaafaaaafaaaafaaaafaaaafaaaafaaaafaaaafaaaafaaaafaaaafaaaafaaaafaaaafaaaafaaaafaaaafaaaafaaaafaaaafaaaafaaaafaaaafaaaafaaaafaaaafaaaafaaaafaaaafaaaafaaaafaaaafaaaafaaaafaaaafaaaafaaaafaaaafaaaafaaaafaaaafaaaafaaaafaaaafaaaafaaaafaaaafaaaafaaaafaaaafaaaafaaaafaaaafaaaafaaaafaaaafaaaafaaaafaaaafaaaafaaaafaaaafaaaafaaaafaaaafaaaafaaaafaaaafaaaafaaaafaaaafaaaafaaaafaaaafaaaafaaaafaaaafaaaafaaaafaaaafaaaafaaaafaaaafaaaafaaaafaaaafaaaafaaaafaaaafaaaafaaaafaaaafaaaafaaaafaaaafaaaafaaaafaaaafaaaafaaaafaaaafaaaafaaaafaaaafaaaafaaaafaaaafaaaafaaaafaaaafaaaafaaaafaaaafaaaafaaaafaaaafaaaafaaaafaaaafaaaafaaaafaaaafaaaafaaaafaaaafaaaafaaaafaaaafaaaafaaaafaaaafaaaafaaaafaaaafaaaafaaaafaaaafaaaafaaaafaaaafaaaafaaaafaaaafaaaafaaaafaaaafaaaafaaaafaaaafaaaafaaaafaaaafaaaafaaaafaaaafaaaafaaaafaaaafaaaafaaaafaaaafaaaafaaaafaaaafaaaafaaaafaaaafaaaafaaaafaaaafaaaafaaaafaaaafaaaafaaaafaaaafaaaafaaaafaaaafaaaafaaaafaaaafaaaafaaaafaaaafaaaafaaaafaaaafaaaafaaaafaaaafaaaafaaaafaaaafaaaafaaaafaaaafaaaafaaaafaaaafaaaafaaaafaaaafaaaafaaaafaaaafaaaafaaaafaaaafaaaafaaaafaaaafaaaafaaaafaaaafaaaafaaaafaaaafaaaafaaaafaaaafaaaafaaaafaaaafaaaafaaaafaaaafaaaafaaaafaaaafaaaafaaaafaaaafaaaafaaaafaaaafaaaafaaaafaaaafaaaafaaaafaaaafaaaafaaaafaaaafaaaafaaaafaaaafaaaafaaaafaaaafaaaafaaaafaaaafaaaafaaaafaaaafaaaafaaaafaaaafaaaafaaaafaaaafaaaafaaaafaaaafaaaafaaaafaaaafaaaafaaaafaaaafaaaafaaaafaaaafaaaafaaaafaaaafaaaafaaaafaaaafaaaafaaaafaaaafaaaafaaaafaaaafaaaafaaaafaaaafaaaafaaaafaaaafaaaafaaaafaaaafaaaafaaaafaaaafaaaafaaaafaaaafaaaafaaaafaaaafaaaafaaaafaaaafaaaafaaaafaaaafaaaafaaaafaaaafaaaafaaaafaaaafaaaafaaaafaaaafaaaafaaaafaaaafaaaafaaaafaaaafaaaafaaaafaaaafaaaafaaaafaaaafaaaafaaaafaaaafaaaafaaaafaaaafaaaafaaaafaaaafaaaafaaaafaaaafaaaafaaaafaaaafaaaafaaaafaaaafaaaafaaaafaaaafaaaafaaaafaaaafaaaafaaaafaaaafaaaafaaaafaaaafaaaafaaaafaaaafaaaafaaaafaaaafaaaafaaaafaaaafaaaafaaaafaaaafaaaafaaaafaaaafaaaafaaaafaaaafaaaafaaaafaaaafaaaafaaaafaaaafaaaafaaaafaaaafaaaafaaaafaaaafaaaafaaaafaaaafaaaafaaaafaaaafaaaafaaaafaaaafaaaafaaaafaaaafaaaafaaaafaaaafaaaafaaaafaaaafaaaafaaaafaaaafaaaafaaaafaaaafaaaafaaaafaaaafaaaafaaaafaaaafaaaafaaaafaaaafaaaafaaaafaaaafaaaafaaaafaaaafaaaafaaaafaaaafaaaafaaaafaaaafaaaafaaaafaaaafaaaafaaaafaaaafaaaafaaaafaaaafaaaafaaaafaaaafaaaafaaaafaaaafaaaafaaaafaaaafaaaafaaaafaaaafaaaafaaaafaaaafaaaafaaaafaaaafaaaafaaaafaaaafaaaafaaaafaaaafaaaafaaaafaaaafaaaafaaaafaaaafaaaafaaaafaaaafaaaafaaaafaaaafaaaafaaaafaaaafaaaafaaaafaaaafaaaafaaaafaaaafaaaafaaaafaaaafaaaafaaaafaaaafaaaafaaaafaaaafaaaafaaaafaaaafaaaafaaaafaaaafaaaafaaaafaaaafaaaafaaaafaaaafaaaafaaaafaaaafaaaafaaaafaaaafaaaafaaaafaaaafaaaafaaaafaaaafaaaafaaaafaaaafaaaafaaaafaaaafaaaafaaaafaaaafaaaafaaaafaaaafaaaafaaaafaaaafaaaafaaaafaaaafaaaafaaaafaaaafaaaafaaaafaaaafaaaafaaaafaaaafaaaafaaaafaaaafaaaafaaaafaaaafaaaafaaaafaaaafaaaafaaaafaaaafaaaafaaaafaaaafaaaafaaaafaaaafaaaafaaaafaaaafaaaafaaaafaaaafaaaafaaaafaaaafaaaafaaaafaaaafaaaafaaaafaaaafaaaafaaaafaaaafaaaafaaaafaaaafaaaafaaaafaaaafaaaafaaaafaaaafaaaafaaaafaaaafaaaafaaaafaaaafaaaafaaaafaaaafaaaafaaaafaaaafaaaafaaaafaaaafaaaafaaaafaaaafaaaafaaaafaaaafaaaafaaaafaaaafaaaafaaaafaaaafaaaafaaaafaaaafaaaafaaaafaaaafaaaafaaaafaaaafaaaafaaaafaaaafaaaafaaaafaaaafaaaafaaaafaaaafaaaafaaaafaaaafaaaafaaaafaaaafaaaafaaaafaaaafaaaafaaaafaaaafaaaafaaaafaaaafaaaafaaaafaaaafaaaafaaaafaaaafaaaafaaaafaaaafaaaafaaaafaaaafaaaafaaaafaaaafaaaafaaaafaaaafaaaafaaaafaaaafaaaafaaaafaaaafaaaafaaaafaaaafaaaafaaaafaaaafaaaafaaaafaaaafaaaafaaaafaaaafaaaafaaaafaaaafaaaafaaaafaaaafaaaafaaaafaaaafaaaafaaaafaaaafaaaafaaaafaaaafaaaafaaaafaaaafaaaafaaaafaaaafaaaafaaaafaaaafaaaafaaaafaaaafaaaafaaaafaaaafaaaafaaaafaaaafaaaafaaaafaaaafaaaafaaaafaaaafaaaafaaaafaaaafaaaafaaaafaaaafaaaafaaaafaaaafaaaafaaaafaaaafaaaafaaaafaaaafaaaafaaaafaaaafaaaafaaaafaaaafaaaafaaaafaaaafaaaafaaaafaaaafaaaafaaaafaaaafaaaafaaaafaaaafaaaafaaaafaaaafaaaafaaaafaaaafaaaafaaaafaaaafaaaafaaaafaaaafaaaafaaaafaaaafaaaafaaaafaaaafaaaafaaaafaaaafaaaafaaaafaaaafaaaafaaaafaaaafaaaafaaaafaaaafaaaafaaaafaaaafaaaafaaaafaaaafaaaafaaaafaaaafaaaafaaaafaaaafaaaafaaaafaaaafaaaafaaaafaaaafaaaafaaaafaaaafaaaafaaaafaaaafaaaafaaaafaaaafaaaafaaaafaaaafaaaafaaaafaaaafaaaafaaaafaaaafaaaafaaaafaaaafaaaafaaaafaaaafaaaafaaaafaaaafaaaafaaaafaaaafaaaafaaaafaaaafaaaafaaaafaaaafaaaafaaaafaaaafaaaafaaaafaaaafaaaafaaaafaaaafaaaafaaaafaaaafaaaafaaaafaaaafaaaafaaaafaaaafaaaafaaaafaaaafaaaafaaaafaaaafaaaafaaaafaaaafaaaafaaaafaaaafaaaafaaaafaaaafaaaafaaaafaaaafaaaafaaaafaaaafaaaafaaaafaaaafaaaafaaaafaaaafaaaafaaaafaaaafaaaafaaaafaaaafaaaafaaaafaaaafaaaafaaaafaaaafaaaafaaaafaaaafaaaafaaaafaaaafaaaafaaaafaaaafaaaafaaaafaaaafaaaafaaaafaaaafaaaafaaaafaaaafaaaafaaaafaaaafaaaafaaaafaaaafaaaafaaaafaaaafaaaafaaaafaaaafaaaafaaaafaaaafaaaafaaaafaaaafaaaafaaaafaaaafaaaafaaaafaaaafaaaafaaaafaaaafaaaafaaaafaaaafaaaafaaaafaaaafaaaafaaaafaaaafaaaafaaaafaaaafaaaafaaaafaaaafaaaafaaaafaaaafaaaafaaaafaaaafaaaafaaaafaaaafaaaafaaaafaaaafaaaafaaaafaaaafaaaafaaaafaaaafaaaafaaaafaaaafaaaafaaaafaaaafaaaafaaaafaaaafaaaafaaaafaaaafaaaafaaaafaaaafaaaafaaaafaaaafaaaafaaaafaaaafaaaafaaaafaaaafaaaafaaaafaaaafaaaafaaaafaaaafaaaafaaaafaaaafaaaafaaaafaaaafaaaafaaaafaaaafaaaafaaaafaaaafaaaafaaaafaaaafaaaafaaaafaaaafaaaafaaaafaaaafaaaafaaaafaaaafaaaafaaaafaaaafaaaafaaaafaaaafaaaafaaaafaaaafaaaafaaaafaaaafaaaafaaaafaaaafaaaafaaaafaaaafaaaafaaaafaaaafaaaafaaaafaaaafaaaafaaaafaaaafaaaafaaaafaaaafaaaafaaaafaaaafaaaafaaaafaaaafaaaafaaaafaaaafaaaafaaaafaaaafaaaafaaaafaaaafaaaafaaaafaaaafaaaafaaaafaaaafaaaafaaaafaaaafaaaafaaaafaaaafaaaafaaaafaaaafaaaafaaaafaaaafaaaafaaaafaaaafaaaafaaaafaaaafaaaafaaaafaaaafaaaafaaaafaaaafaaaafaaaafaaaafaaaafaaaafaaaafaaaafaaaafaaaafaaaafaaaafaaaafaaaafaaaafaaaafaaaafaaaafaaaafaaaafaaaafaaaafaaaafaaaafaaaafaaaafaaaafaaaafaaaafaaaafaaaafaaaafaaaafaaaafaaaafaaaafaaaafaaaafaaaafaaaafaaaafaaaafaaaafaaaafaaaafaaaafaaaafaaaafaaaafaaaafaaaafaaaafaaaafaaaafaaaafaaaafaaaafaaaafaaaafaaaafaaaafaaaafaaaafaaaafaaaafaaaafaaaafaaaafaaaafaaaafaaaafaaaafaaaafaaaafaaaafaaaafaaaafaaaafaaaafaaaafaaaafaaaafaaaafaaaafaaaafaaaafaaaafaaaafaaaafaaaafaaaafaaaafaaaafaaaafaaaafaaaafaaaafaaaafaaaafaaaafaaaafaaaafaaaafaaaafaaaafaaaafaaaafaaaafaaaafaaaafaaaafaaaafaaaafaaaafaaaafaaaafaaaafaaaafaaaafaaaafaaaafaaaafaaaafaaaafaaaafaaaafaaaafaaaafaaaafaaaafaaaafaaaafaaaafaaaafaaaafaaaafaaaafaaaafaaaafaaaafaaaafaaaafaaaafaaaafaaaafaaaafaaaafaaaafaaaafaaaafaaaafaaaafaaaafaaaafaaaafaaaafaaaafaaaafaaaafaaaafaaaafaaaafaaaafaaaafaaaafaaaafaaaafaaaafaaaafaaaafaaaafaaaafaaaafaaaafaaaafaaaafaaaafaaaafaaaafaaaafaaaafaaaafaaaafaaaafaaaafaaaafaaaafaaaafaaaafaaaafaaaafaaaafaaaafaaaafaaaafaaaafaaaafaaaafaaaafaaaafaaaafaaaafaaaafaaaafaaaafaaaafaaaafaaaafaaaafaaaafaaaafaaaafaaaafaaaafaaaafaaaafaaaafaaaafaaaafaaaafaaaafaaaafaaaafaaaafaaaafaaaafaaaafaaaafaaaafaaaafaaaafaaaafaaaafaaaafaaaafaaaafaaaafaaaafaaaafaaaafaaaafaaaafaaaafaaaafaaaafaaaafaaaafaaaafaaaafaaaafaaaafaaaafaaaafaaaafaaaafaaaafaaaafaaaafaaaafaaaafaaaafaaaafaaaafaaaafaaaafaaaafaaaafaaaafaaaafaaaafaaaafaaaafaaaafaaaafaaaafaaaafaaaafaaaafaaaafaaaafaaaafaaaafaaaafaaaafaaaafaaaafaaaafaaaafaaaafaaaafaaaafaaaafaaaafaaaafaaaafaaaafaaaafaaaafaaaafaaaafaaaafaaaafaaaafaaaafaaaafaaaafaaaafaaaafaaaafaaaafaaaafaaaafaaaafaaaafaaaafaaaafaaaafaaaafaaaafaaaafaaaafaaaafaaaafaaaafaaaafaaaafaaaafaaaafaaaafaaaafaaaafaaaafaaaafaaaafaaaafaaaafaaaafaaaafaaaafaaaafaaaafaaaafaaaafaaaafaaaafaaaafaaaafaaaafaaaafaaaafaaaafaaaafaaaafaaaafaaaafaaaafaaaafaaaafaaaafaaaafaaaafaaaafaaaafaaaafaaaafaaaafaaaafaaaafaaaafaaaafaaaafaaaafaaaafaaaafaaaafaaaafaaaafaaaafaaaafaaaafaaaafaaaafaaaafaaaafaaaafaaaafaaaafaaaafaaaafaaaafaaaafaaaafaaaafaaaafaaaafaaaafaaaafaaaafaaaafaaaafaaaafaaaafaaaafaaaafaaaafaaaafaaaafaaaafaaaafaaaafaaaafaaaafaaaafaaaafaaaafaaaafaaaafaaaafaaaafaaaafaaaafaaaafaaaafaaaafaaaafaaaafaaaafaaaafaaaafaaaafaaaafaaaafaaaafaaaafaaaafaaaafaaaafaaaafaaaafaaaafaaaafaaaafaaaafaaaafaaaafaaaafaaaafaaaafaaaafaaaafaaaafaaaafaaaafaaaafaaaafaaaafaaaafaaaafaaaafaaaafaaaafaaaafaaaafaaaafaaaafaaaafaaaafaaaafaaaafaaaafaaaafaaaafaaaafaaaafaaaafaaaafaaaafaaaafaaaafaaaafaaaafaaaafaaaafaaaafaaaafaaaafaaaafaaaafaaaafaaaafaaaafaaaafaaaafaaaafaaaafaaaafaaaafaaaafaaaafaaaafaaaafaaaafaaaafaaaafaaaafaaaafaaaafaaaafaaaafaaaafaaaafaaaafaaaafaaaafaaaafaaaafaaaafaaaafaaaafaaaafaaaafaaaafaaaafaaaafaaaafaaaafaaaafaaaafaaaafaaaafaaaafaaaafaaaafaaaafaaaafaaaafaaaafaaaafaaaafaaaafaaaafaaaafaaaafaaaafaaaafaaaafaaaafaaaafaaaafaaaafaaaafaaaafaaaafaaaafaaaafaaaafaaaafaaaafaaaafaaaafaaaafaaaafaaaafaaaafaaaafaaaafaaaafaaaafaaaafaaaafaaaafaaaafaaaafaaaafaaaafaaaafaaaafaaaafaaaafaaaafaaaafaaaafaaaafaaaafaaaafaaaafaaaafaaaafaaaafaaaafaaaafaaaafaaaafaaaafaaaafaaaafaaaafaaaafaaaafaaaafaaaafaaaafaaaafaaaafaaaafaaaafaaaafaaaafaaaafaaaafaaaafaaaafaaaafaaaafaaaafaaaafaaaafaaaafaaaafaaaafaaaafaaaafaaaafaaaafaaaafaaaafaaaafaaaafaaaafaaaafaaaafaaaafaaaafaaaafaaaafaaaafaaaafaaaafaaaafaaaafaaaafaaaafaaaafaaaafaaaafaaaafaaaafaaaafaaaafaaaafaaaafaaaafaaaafaaaafaaaafaaaafaaaafaaaafaaaafaaaafaaaafaaaafaaaafaaaafaaaafaaaafaaaafaaaafaaaafaaaafaaaafaaaafaaaafaaaafaaaafaaaafaaaafaaaafaaaafaaaafaaaafaaaafaaaafaaaafaaaafaaaafaaaafaaaafaaaafaaaafaaaafaaaafaaaafaaaafaaaafaaaafaaaafaaaafaaaafaaaafaaaafaaaafaaaafaaaafaaaafaaaafaaaafaaaafaaaafaaaafaaaafaaaafaaaafaaaafaaaafaaaafaaaafaaaafaaaafaaaafaaaafaaaafaaaafaaaafaaaafaaaafaaaafaaaafaaaafaaaafaaaafaaaafaaaafaaaafaaaafaaaafaaaafaaaafaaaafaaaafaaaafaaaafaaaafaaaafaaaafaaaafaaaafaaaafaaaafaaaafaaaafaaaafaaaafaaaafaaaafaaaafaaaafaaaafaaaafaaaafaaaafaaaafaaaafaaaafaaaafaaaafaaaafaaaafaaaafaaaafaaaafaaaafaaaafaaaafaaaafaaaafaaaafaaaafaaaafaaaafaaaafaaaafaaaafaaaafaaaafaaaafaaaafaaaafaaaafaaaafaaaafaaaafaaaafaaaafaaaafaaaafaaaafaaaafaaaafaaaafaaaafaaaafaaaafaaaafaaaafaaaafaaaafaaaafaaaafaaaafaaaafaaaafaaaafaaaafaaaafaaaafaaaafaaaafaaaafaaaafaaaafaaaafaaaafaaaafaaaafaaaafaaaafaaaafaaaafaaaafaaaafaaaafaaaafaaaafaaaafaaaafaaaafaaaafaaaafaaaafaaaafaaaafaaaafaaaafaaaafaaaafaaaafaaaafaaaafaaaafaaaafaaaafaaaafaaaafaaaafaaaafaaaafaaaafaaaafaaaafaaaafaaaafaaaafaaaafaaaafaaaafaaaafaaaafaaaafaaaafaaaafaaaafaaaafaaaafaaaafaaaafaaaafaaaafaaaafaaaafaaaafaaaafaaaafaaaafaaaafaaaafaaaafaaaafaaaafaaaafaaaafaaaafaaaafaaaafaaaafaaaafaaaafaaaafaaaafaaaafaaaafaaaafaaaafaaaafaaaafaaaafaaaafaaaafaaaafaaaafaaaafaaaafaaaafaaaafaaaafaaaafaaaafaaaafaaaafaaaafaaaafaaaafaaaafaaaafaaaafaaaafaaaafaaaafaaaafaaaafaaaafaaaafaaaafaaaafaaaafaaaafaaaafaaaafaaaafaaaafaaaafaaaafaaaafaaaafaaaafaaaafaaaafaaaafaaaafaaaafaaaafaaaafaaaafaaaafaaaafaaaafaaaafaaaafaaaafaaaafaaaafaaaafaaaafaaaafaaaafaaaafaaaafaaaafaaaafaaaafaaaafaaaafaaaafaaaafaaaafaaaafaaaafaaaafaaaafaaaafaaaafaaaafaaaafaaaafaaaafaaaafaaaafaaaafaaaafaaaafaaaafaaaafaaaafaaaafaaaafaaaafaaaafaaaafaaaafaaaafaaaafaaaafaaaafaaaafaaaafaaaafaaaafaaaafaaaafaaaafaaaafaaaafaaaafaaaafaaaafaaaafaaaafaaaafaaaafaaaafaaaafaaaafaaaafaaaafaaaafaaaafaaaafaaaafaaaafaaaafaaaafaaaafaaaafaaaafaaaafaaaafaaaafaaaafaaaafaaaafaaaafaaaafaaaafaaaafaaaafaaaafaaaafaaaafaaaafaaaafaaaafaaaafaaaafaaaafaaaafaaaafaaaafaaaafaaaafaaaafaaaafaaaafaaaafaaaafaaaafaaaafaaaafaaaafaaaafaaaafaaaafaaaafaaaafaaaafaaaafaaaafaaaafaaaafaaaafaaaafaaaafaaaafaaaafaaaafaaaafaaaafaaaafaaaafaaaafaaaafaaaafaaaafaaaafaaaafaaaafaaaafaaaafaaaafaaaafaaaafaaaafaaaafaaaafaaaafaaaafaaaafaaaafaaaafaaaafaaaafaaaafaaaafaaaafaaaafaaaafaaaafaaaafaaaafaaaafaaaafaaaafaaaafaaaafaaaafaaaafaaaafaaaafaaaafaaaafaaaafaaaafaaaafaaaafaaaafaaaafaaaafaaaafaaaafaaaafaaaafaaaafaaaafaaaafaaaafaaaafaaaafaaaafaaaafaaaafaaaafaaaafaaaafaaaafaaaafaaaafaaaafaaaafaaaafaaaafaaaafaaaafaaaafaaaafaaaafaaaafaaaafaaaafaaaafaaaafaaaafaaaafaaaafaaaafaaaafaaaafaaaafaaaafaaaafaaaafaaaafaaaafaaaafaaaafaaaafaaaafaaaafaaaafaaaafaaaafaaaafaaaafaaaafaaaafaaaafaaaafaaaafaaaafaaaafaaaafaaaafaaaafaaaafaaaafaaaafaaaafaaaafaaaafaaaafaaaafaaaafaaaafaaaafaaaafaaaafaaaafaaaafaaaafaaaafaaaafaaaafaaaafaaaafaaaafaaaafaaaafaaaafaaaafaaaafaaaafaaaafaaaafaaaafaaaafaaaafaaaafaaaafaaaafaaaafaaaafaaaafaaaafaaaafaaaafaaaafaaaafaaaafaaaafaaaafaaaafaaaafaaaafaaaafaaaafaaaafaaaafaaaafaaaafaaaafaaaafaaaafaaaafaaaafaaaafaaaafaaaafaaaafaaaafaaaafaaaafaaaafaaaafaaaafaaaafaaaafaaaafaaaafaaaafaaaafaaaafaaaafaaaafaaaafaaaafaaaafaaaafaaaafaaaafaaaafaaaafaaaafaaaafaaaafaaaafaaaafaaaafaaaafaaaafaaaafaaaafaaaafaaaafaaaafaaaafaaaafaaaafaaaafaaaafaaaafaaaafaaaafaaaafaaaafaaaafaaaafaaaafaaaafaaaafaaaafaaaafaaaafaaaafaaaafaaaafaaaafaaaafaaaafaaaafaaaafaaaafaaaafaaaafaaaafaaaafaaaafaaaafaaaafaaaafaaaafaaaafaaaafaaaafaaaafaaaafaaaafaaaafaaaafaaaafaaaafaaaafaaaafaaaafaaaafaaaafaaaafaaaafaaaafaaaafaaaafaaaafaaaafaaaafaaaafaaaafaaaafaaaafaaaafaaaafaaaafaaaafaaaafaaaafaaaafaaaafaaaafaaaafaaaafaaaafaaaafaaaafaaaafaaaafaaaafaaaafaaaafaaaafaaaafaaaafaaaafaaaafaaaafaaaafaaaafaaaafaaaafaaaafaaaafaaaafaaaafaaaafaaaafaaaafaaaafaaaafaaaafaaaafaaaafaaaafaaaafaaaafaaaafaaaafaaaafaaaafaaaafaaaafaaaafaaaafaaaafaaaafaaaafaaaafaaaafaaaafaaaafaaaafaaaafaaaafaaaafaaaafaaaafaaaafaaaafaaaafaaaafaaaafaaaafaaaafaaaafaaaafaaaafaaaafaaaafaaaafaaaafaaaafaaaafaaaafaaaafaaaafaaaafaaaafaaaafaaaafaaaafaaaafaaaafaaaafaaaafaaaafaaaafaaaafaaaafaaaafaaaafaaaafaaaafaaaafaaaafaaaafaaaafaaaafaaaafaaaafaaaafaaaafaaaafaaaafaaaafaaaafaaaafaaaafaaaafaaaafaaaafaaaafaaaafaaaafaaaafaaaafaaaafaaaafaaaafaaaafaaaafaaaafaaaafaaaafaaaafaaaafaaaafaaaafaaaafaaaafaaaafaaaafaaaafaaaafaaaafaaaafaaaafaaaafaaaafaaaafaaaafaaaafaaaafaaaafaaaafaaaafaaaafaaaafaaaafaaaafaaaafaaaafaaaafaaaafaaaafaaaafaaaafaaaafaaaafaaaafaaaafaaaafaaaafaaaafaaaafaaaafaaaafaaaafaaaafaaaafaaaafaaaafaaaafaaaafaaaafaaaafaaaafaaaafaaaafaaaafaaaafaaaafaaaafaaaafaaaafaaaafaaaafaaaafaaaafaaaafaaaafaaaafaaaafaaaafaaaafaaaafaaaafaaaafaaaafaaaafaaaafaaaafaaaafaaaafaaaafaaaafaaaafaaaafaaaafaaaafaaaafaaaafaaaafaaaafaaaafaaaafaaaafaaaafaaaafaaaafaaaafaaaafaaaafaaaafaaaafaaaafaaaafaaaafaaaafaaaafaaaafaaaafaaaafaaaafaaaafaaaafaaaafaaaafaaaafaaaafaaaafaaaafaaaafaaaafaaaafaaaafaaaafaaaafaaaafaaaafaaaafaaaafaaaafaaaafaaaafaaaafaaaafaaaafaaaafaaaafaaaafaaaafaaaafaaaafaaaafaaaafaaaafaaaafaaaafaaaafaaaafaaaafaaaafaaaafaaaafaaaafaaaafaaaafaaaafaaaafaaaafaaaafaaaafaaaafaaaafaaaafaaaafaaaafaaaafaaaafaaaafaaaafaaaafaaaafaaaafaaaafaaaafaaaafaaaafaaaafaaaafaaaafaaaafaaaafaaaafaaaafaaaafaaaafaaaafaaaafaaaafaaaafaaaafaaaafaaaafaaaafaaaafaaaafaaaafaaaafaaaafaaaafaaaafaaaafaaaafaaaafaaaafaaaafaaaafaaaafaaaafaaaafaaaafaaaafaaaafaaaafaaaafaaaafaaaafaaaafaaaafaaaafaaaafaaaafaaaafaaaafaaaafaaaafaaaafaaaafaaaafaaaafaaaafaaaafaaaafaaaafaaaafaaaafaaaafaaaafaaaafaaaafaaaafaaaafaadefaadefaadefaadefaadefaadefaadefaadefaadefaadefaadefaadefaadefaadefaadefaadefaadefaadefaadefaadefaadefaadefaadefaadefaadefaadefaadefaadefaadefaadefaadefaadefaadefaadefaaaafaaaafaaaafaaaafaaaafaaaafaaaafaaaafaaaafaaaafaaaafaaaafaaaafaaaafaaaafaaaafaaaafaaaafaaaafaaaafaaaafaaaafaaaafaaaafaaaafaaaafaaaafaaaafaaaafaaaafaaaafaaaafaaaafaaaafaaaafaaaafaaaafaaaafaaaafaaaafaaaafaaaafaaaafaaaafaaaafaaaafaaaafaaaafaaaafaaaafaaaafaaaafaaaafaaaafaaaafaaaafaaaafaaaafaaaafaaaafaaaafaaaafaaaafaaaafaaaafaaaafaaaafaaaafaaaafaaaafaaaafaaaafaaaafaaaafaaaafaaaafaaaafaaaafaaaafaaaafaaaafaaaafaaaafaaaafaaaafaaaafaaaafaaaafaaaafaaaafaaaafaaaafaaaafaaaafaaaafaaaafaaaafaaaafaaaafaaaafaaaafaaaafaaaafaaaafaaaafaaaafaaaafaaaafaaaafaaaafaaaafaaaafaaaafaaaafaaaafaaaafaaaafaaaafaaaafaaaafaaaafaaaafaaaafaaaafaaaafaaaafaaaafaaaafaaaafaaaafaaaafaaaafaaaafaaaafaaaafaaaafaaaafaaaafaaaafaaaafaaaafaaaafaaaafaaaafaaaafaaaafaaaafaaaafaaaafaaaafaaaafaaaafaaaafaaaafaaaafaaaafaaaafaaaafaaaafaaaafaaaafaaaafaaaafaaaafaaaafaaaafaaaafaaaafaaaafaaaafaaaafaaaafaaaafaaaafaaaafaaaafaaaafaaaafaaaafaaaafaaaafaaaafaaaafaaaafaaaafaaaafaaaafaaaafaaaafaaaafaaaafaaaafaaaafaaaafaaaafaaaafaaaafaaaafaaaafaaaafaaaafaaaafaaaafaaaafaaaafaaaafaaaafaaaafaaaafaaaafaaaafaaaafaaaafaaaafaaaafaaaafaaaafaaaafaaaafaaaafaaaafaaaafaaaafaaaafaaaafaaaafaaaafaaaafaaaafaaaafaaaafaaaafaaaafaaaafaaaafaaaafaaaafaaaafaaaafaaaafaaaafaaaafaaaafaaaafaaaafaaaafaaaafaaaafaaaafaaaafaaaafaaaafaaaafaaaafaaaafaaaafaaaafaaaafaaaafaaaafaaaafaaaafaaaafaaaafaaaafaaaafaaaafaaaafaaaafaaaafaaaafaaaafaaaafaaaafaaaafaaaafaaaafaaaafaaaafaaaafaaaafaaaafaaaafaaaafaaaafaaaafaaaafaaaafaaaafaaaafaaaafaaaafaaaafaaaafaaaafaaaafaaaafaaaafaaaafaaaafaaaafaaaafaaaafaaaafaaaafaaaafaaaafaaaafaaaafaaaafaaaafaaaafaaaafaaaafaaaafaaaafaaaafaaaafaaaafaaaafaaaafaaaafaaaafaaaafaaaafaaaafaaaafaaaafaaaafaaaafaaaafaaaafaaaafaaaafaaaafaaaafaaaafaaaafaaaafaaaafaaaafaaaafaaaafaaaafaaaafaaaafaaaafaaaafaaaafaaaafaaaafaaaafaaaafaaaafaaaafaaaafaaaafaaaafaaaafaaaafaaaafaaaafaaaafaaaafaaaafaaaafaaaafaaaafaaaafaaaafaaaafaaaafaaaafaaaafaaaafaaaafaaaafaaaafaaaafaaaafaaaafaaaafaaaafaaaafaaaafaaaafaaaafaaaafaaaafaaaafaaaafaaaafaaaafaaaafaaaafaaaafaaaafaaaafaaaafaaaafaaaafaaaafaaaafaaaafaaaafaaaafaaaafaaaafaaaafaaaafaaaafaaaafaaaafaaaafaaaafaaaafaaaafaaaafaaaafaaaafaaaafaaaafaaaafaaaafaaaafaaaafaaaafaaaafaaaafaaaafaaaafaaaafaaaafaaaafaaaafaaaafaaaafaaaafaaaafaaaafaaaafaaaafaaaafaaaafaaaafaaaafaaaafaaaafaaaafaaaafaaaafaaaafaaaafaaaafaaaafaaaafaaaafaaaafaaaafaaaafaaaafaaaafaaaafaaaafaaaafaaaafaaaafaaaafaaaafaaaafaaaafaaaafaaaafaaaafaaaafaaaafaaaafaaaafaaaafaaaafaaaafaaaafaaaafaaaafaaaafaaaafaaaafaaaafaaaafaaaafaaaafaaaafaaaafaaaafaaaafaaaafaaaafaaaafaaaafaaaafaaaafaaaafaaaafaaaafaaaafaaaafaaaafaaaafaaaafaaaafaaaafaaaafaaaafaaaafaaaafaaaafaaaafaaaafaaaafaaaafaaaafaaaafaaaafaaaafaaaafaaaafaaaafaaaafaaaafaaaafaaaafaaaafaaaafaaaafaaaafaaaafaaaafaaaafaaaafaaaafaaaafaaaafaaaafaaaafaaaafaaaafaaaafaaaafaaaafaaaafaaaafaaaafaaaafaaaafaaaafaaaafaaaafaaaafaaaafaaaafaaaafaaaafaaaafaaaafaaaafaaaafaaaafaaaafaaaafaaaafaaaafaaaafaaaafaaaafaaaafaaaafaaaafaaaafaaaafaaaafaaaafaaaafaaaafaaaafaaaafaaaafaaaafaaaafaaaafaaaafaaaafaaaafaaaafaaaafaaaafaaaafaaaafaaaafaaaafaaaafaaaafaaaafaaaafaaaafaaaafaaaafaaaafaaaafaaaafaaaafaaaafaaaafaaaafaaaafaaaafaaaafaaaafaaaafaaaafaaaafaaaafaaaafaaaafaaaafaaaafaaaafaaaafaaaafaaaafaaaafaaaafaaaafaaaafaaaafaaaafaaaafaaaafaaaafaaaafaaaafaaaafaaaafaaaafaaaafaaaafaaaafaaaafaaaafaaaafaaaafaaaafaaaafaaaafaaaafaaaafaaaafaaaafaaaafaaaafaaaafaaaafaaaafaaaafaaaafaaaafaaaafaaaafaaaafaaaafaaaafaaaafaaaafaaaafaaaafaaaafaaaafaaaafaaaafaaaafaaaafaaaafaaaafaaaafaaaafaaaafaaaafaaaafaaaafaaaafaaaafaaaafaaaafaaaafaaaafaaaafaaaafaaaafaaaafaaaafaaaafaaaafaaaafaaaafaaaafaaaafaaaafaaaafaaaafaaaafaaaafaaaafaaaafaaaafaaaafaaaafaaaafaaaafaaaafaaaafaaaafaaaafaaaafaaaafaaaafaaaafaaaafaaaafaaaafaaaafaaaafaaaafaaaafaaaafaaaafaaaafaaaafaaaafaaaafaaaafaaaafaaaafaaaafaaaafaaaafaaaafaaaafaaaafaaaafaaaafaaaafaaaafaaaafaaaafaaaafaaaafaaaafaaaafaaaafaaaafaaaafaaaafaaaafaaaafaaaafaaaafaaaafaaaafaaaafaaaafaaaafaaaafaaaafaaaafaaaafaaaafaaaafaaaafaaaafaaaafaaaafaaaafaaaafaaaafaaaafaaaafaaaafaaaafaaaafaaaafaaaafaaaafaaaafaaaafaaaafaaaafaaaafaaaafaaaafaaaafaaaafaaaafaaaafaaaafaaaafaaaafaaaafaaaafaaaafaaaafaaaafaaaafaaaafaaaafaaaafaaaafaaaafaaaafaaaafaaaafaaaafaaaafaaaafaaaafaaaafaaaafaaaafaaaafaaaafaaaafaaaafaaaafaaaafaaaafaaaafaaaafaaaafaaaafaaaafaaaafaaaafaaaafaaaafaaaafaaaafaaaafaaaafaaaafaaaafaaaafaaaafaaaafaaaafaaaafaaaafaaaafaaaafaaaafaaaafaaaafaaaafaaaafaaaafaaaafaaaafaaaafaaaafaaaafaaaafaaaafaaaafaaaafaaaafaaaafaaaafaaaafaaaafaaaafaaaafaaaafaaaafaaaafaaaafaaaafaaaafaaaafaaaafaaaafaaaafaaaafaaaafaaaafaaaafaaaafaaaafaaaafaaaafaaaafaaaafaaaafaaaafaaaafaaaafaaaafaaaafaaaafaaaafaaaafaaaafaaaafaaaafaaaafaaaafaaaafaaaafaaaafaaaafaaaafaaaafaaaafaaaafaaaafaaaafaaaafaaaafaaaafaaaafaaaafaaaafaaaafaaaafaaaafaaaafaaaafaaaafaaaafaaaafaaaafaaaafaaaafaaaafaaaafaaaafaaaafaaaafaaaafaaaafaaaafaaaafaaaafaaaafaaaafaaaafaaaafaaaafaaaafaaaafaaaafaaaafaaaafaaaafaaaafaaaafaaaafaaaafaaaafaaaafaaaafaaaafaaaafaaaafaaaafaaaafaaaafaaaafaaaafaaaafaaaafaaaafaaaafaaaafaaaafaaaafaaaafaaaafaaaafaaaafaaaafaaaafaaaafaaaafaaaafaaaafaaaafaaaafaaaafaaaafaaaafaaaafaaaafaaaafaaaafaaaafaaaafaaaafaaaafaaaafaaaafaaaafaaaafaaaafaaaafaaaafaaaafaaaafaaaafaaaafaaaafaaaafaaaafaaaafaaaafaaaafaaaafaaaafaaaafaaaafaaaafaaaafaaaafaaaafaaaafaaaafaaaafaaaafaaaafaaaafaaaafaaaafaaaafaaaafaaaafaaaafaaaafaaaafaaaafaaaafaaaafaaaafaaaafaaaafaaaafaaaafaaaafaaaafaaaafaaaafaaaafaaaafaaaafaaaafaaaafaaaafaaaafaaaafaaaafaaaafaaaafaaaafaaaafaaaafaaaafaaaafaaaafaaaafaaaafaaaafaaaafaaaafaaaafaaaafaaaafaaaafaaaafaaaafaaaafaaaafaaaafaaaafaaaafaaaafaaaafaaaafaaaafaaaafaaaafaaaafaaaafaaaafaaaafaaaafaaaafaaaafaaaafaaaafaaaafaaaafaaaafaaaafaaaafaaaafaaaafaaaafaaaafaaaafaaaafaaaafaaaafaaaafaaaafaaaafaaaafaaaafaaaafaaaafaaaafaaaafaaaafaaaafaaaafaaaafaaaafaaaafaaaafaaaafaaaafaaaafaaaafaaaafaaaafaaaafaaaafaaaafaaaafaaaafaaaafaaaafaaaafaaaafaaaafaaaafaaaafaaaafaaaafaaaafaaaafaaaafaaaafaaaafaaaafaaaafaaaafaaaafaaaafaaaafaaaafaaaafaaaafaaaafaaaafaaaafaaaafaaaafaaaafaaaafaaaafaaaafaaaafaaaafaaaafaaaafaaaafaaaafaaaafaaaafaaaafaaaafaaaafaaaafaaaafaaaafaaaafaaaafaaaafaaaafaaaafaaaafaaaafaaaafaaaafaaaafaaaafaaaafaaaafaaaafaaaafaaaafaaaafaaaafaaaafaaaafaaaafaaaafaaaafaaaafaaaafaaaafaaaafaaaafaaaafaaaafaaaafaaaafaaaafaaaafaaaafaaaafaaaafaaaafaaaafaaaafaaaafaaaafaaaafaaaafaaaafaaaafaaaafaaaafaaaafaaaafaaaafaaaafaaaafaaaafaaaafaaaafaaaafaaaafaaaafaaaafaaaafaaaafaaaafaaaafaaaafaaaafaaaafaaaafaaaafaaaafaaaafaaaafaaaafaaaafaaaafaaaafaaaafaaaafaaaafaaaafaaaafaaaafaaaafaaaafaaaafaaaafaaaafaaaafaaaafaaaafaaaafaaaafaaaafaaaafaaaafaaaafaaaafaaaafaaaafaaaafaaaafaaaafaaaafaaaafaaaafaaaafaaaafaaaafaaaafaaaafaaaafaaaafaaaafaaaafaaaafaaaafaaaafaaaafaaaafaaaafaaaafaaaafaaaafaaaafaaaafaaaafaaaafaaaafaaaafaaaafaaaafaaaafaaaafaaaafaaaafaaaafaaaafaaaafaaaafaaaafaaaafaaaafaaaafaaaafaaaafaaaafaaaafaaaafaaaafaaaafaaaafaaaafaaaafaaaafaaaafaaaafaaaafaaaafaaaafaaaafaaaafaaaafaaaafaaaafaaaafaaaafaaaafaaaafaaaafaaaafaaaafaaaafaaaafaaaafaaaafaaaafaaaafaaaafaaaafaaaafaaaafaaaafaaaafaaaafaaaafaaaafaaaafaaaafaaaafaaaafaaaafaaaafaaaafaaaafaaaafaaaafaaaafaaaafaaaafaaaafaaaafaaaafaaaafaaaafaaaafaaaafaaaafaaaafaaaafaaaafaaaafaaaafaaaafaaaafaaaafaaaafaaaafaaaafaaaafaaaafaaaafaaaafaaaafaaaafaaaafaaaafaaaafaaaafaaaafaaaafaaaafaaaafaaaafaaaafaaaafaaaafaaaafaaaafaaaafaaaafaaaafaaaafaaaafaaaafaaaafaaaafaaaafaaaafaaaafaaaafaaaafaaaafaaaafaaaafaaaafaaaafaaaafaaaafaaaafaaaafaaaafaaaafaaaafaaaafaaaafaaaafaaaafaaaafaaaafaaaafaaaafaaaafaaaafaaaafaaaafaaaafaaaafaaaafaaaafaaaafaaaafaaaafaaaafaaaafaaaafaaaafaaaafaaaafaaaafaaaafaaaafaaaafaaaafaaaafaaaafaaaafaaaafaaaafaaaafaaaafaaaafaaaafaaaafaaaafaaaafaaaafaaaafaaaafaaaafaaaafaaaafaaaafaaaafaaaafaaaafaaaafaaaafaaaafaaaafaaaafaaaafaaaafaaaafaaaafaaaafaaaafaaaafaaaafaaaafaaaafaaaafaaaafaaaafaaaafaaaafaaaafaaaafaaaafaaaafaaaafaaaafaaaafaaaafaaaafaaaafaaaafaaaafaaaafaaaafaaaafaaaafaaaafaaaafaaaafaaaafaaaafaaaafaaaafaaaafaaaafaaaafaaaafaaaafaaaafaaaafaaaafaaaafaaaafaaaafaaaafaaaafaaaafaaaafaaaafaaaafaaaafaaaafaaaafaaaafaaaafaaaafaaaafaaaafaaaafaaaafaaaafaaaafaaaafaaaafaaaafaaaafaaaafaaaafaaaafaaaafaaaafaaaafaaaafaaaafaaaafaaaafaaaafaaaafaaaafaaaafaaaafaaaafaaaafaaaafaaaafaaaafaaaafaaaafaaaafaaaafaaaafaaaafaaaafaaaafaaaafaaaafaaaafaaaafaaaafaaaafaaaafaaaafaaaafaaaafaaaafaaaafaaaafaaaafaaaafaaaafaaaafaaaafaaaafaaaafaaaafaaaafaaaafaaaafaaaafaaaafaaaafaaaafaaaafaaaafaaaafaaaafaaaafaaaafaaaafaaaafaaaafaaaafaaaafaaaafaaaafaaaafaaaafaaaafaaaafaaaafaaaafaaaafaaaafaaaafaaaafaaaafaaaafaaaafaaaafaaaafaaaafaaaafaaaafaaaafaaaafaaaafaaaafaaaafaaaafaaaafaaaafaaaafaaaafaaaafaaaafaaaafaaaafaaaafaaaafaaaafaaaafaaaafaaaafaaaafaaaafaaaafaaaafaaaafaaaafaaaafaaaafaaaafaaaafaaaafaaaafaaaafaaaafaaaafaaaafaaaafaaaafaaaafaaaafaaaafaaaafaaaafaaaafaaaafaaaafaaaafaaaafaaaafaaaafaaaafaaaafaaaafaaaafaaaafaaaafaaaafaaaafaaaafaaaafaaaafaaaafaaaafaaaafaaaafaaaafaaaafaaaafaaaafaaaafaaaafaaaafaaaafaaaafaaaafaaaafaaaafaaaafaaaafaaaafaaaafaaaafaaaafaaaafaaaafaaaafaaaafaaaafaaaafaaaafaaaafaaaafaaaafaaaafaaaafaaaafaaaafaaaafaaaafaaaafaaaafaaaafaaaafaaaafaaaafaaaafaaaafaaaafaaaafaaaafaaaafaaaafaaaafaaaafaaaafaaaafaaaafaaaafaaaafaaaafaaaafaaaafaaaafaaaafaaaafaaaafaaaafaaaafaaaafaaaafaaaafaaaafaaaafaaaafaaaafaaaafaaaafaaaafaaaafaaaafaaaafaaaafaaaafaaaafaaaafaaaafaaaafaaaafaaaafaaaafaaaafaaaafaaaafaaaafaaaafaaaafaaaafaaaafaaaafaaaafaaaafaaaafaaaafaaaafaaaafaaaafaaaafaaaafaaaafaaaafaaaafaaaafaaaafaaaafaaaafaaaafaaaafaaaafaaaafaaaafaaaafaaaafaaaafaaaafaaaafaaaafaaaafaaaafaaaafaaaafaaaafaaaafaaaafaaaafaaaafaaaafaaaafaaaafaaaafaaaafaaaafaaaafaaaafaaaafaaaafaaaafaaaafaaaafaaaafaaaafaaaafaaaafaaaafaaaafaaaafaaaafaaaafaaaafaaaafaaaafaaaafaaaafaaaafaaaafaaaafaaaafaaaafaaaafaaaafaaaafaaaafaaaafaaaafaaaafaaaafaaaafaaaafaaaafaaaafaaaafaaaafaaaafaaaafaaaafaaaafaaaafaaaafaaaafaaaafaaaafaaaafaaaafaaaafaaaafaaaafaaaafaaaafaaaafaaaafaaaafaaaafaaaafaaaafaaaafaaaafaaaafaaaafaaaafaaaafaaaafaaaafaaaafaaaafaaaafaaaafaaaafaaaafaaaafaaaafaaaafaaaafaaaafaaaafaaaafaaaafaaaafaaaafaaaafaaaafaaaafaaaafaaaafaaaafaaaafaaaafaaaafaaaafaaaafaaaafaaaafaaaafaaaafaaaafaaaafaaaafaaaafaaaafaaaafaaaafaaaafaaaafaaaafaaaafaaaafaaaafaaaafaaaafaaaafaaaafaaaafaaaafaaaafaaaafaaaafaaaafaaaafaaaafaaaafaaaafaaaafaaaafaaaafaaaafaaaafaaaafaaaafaaaafaaaafaaaafaaaafaaaafaaaafaaaafaaaafaaaafaaaafaaaafaaaafaaaafaaaafaaaafaaaafaaaafaaaafaaaafaaaafaaaafaaaafaaaafaaaafaaaafaaaafaaaafaaaafaaaafaaaafaaaafaaaafaaaafaaaafaaaafaaaafaaaafaaaafaaaafaaaafaaaafaaaafaaaafaaaafaaaafaaaafaaaafaaaafaaaafaaaafaaaafaaaafaaaafaaaafaaaafaaaafaaaafaaaafaaaafaaaafaaaafaaaafaaaafaaaafaaaafaaaafaaaafaaaafaaaafaaaafaaaafaaaafaaaafaaaafaaaafaaaafaaaafaaaafaaaafaaaafaaaafaaaafaaaafaaaafaaaafaaaafaaaafaaaafaaaafaaaafaaaafaaaafaaaafaaaafaaaafaaaafaaaafaaaafaaaafaaaafaaaafaaaafaaaafaaaafaaaafaaaafaaaafaaaafaaaafaaaafaaaafaaaafaaaafaaaafaaaafaaaafaaaafaaaafaaaafaaaafaaaafaaaafaaaafaaaafaaaafaaaafaaaafaaaafaaaafaaaafaaaafaaaafaaaafaaaafaaaafaaaafaaaafaaaafaaaafaaaafaaaafaaaafaaaafaaaafaaaafaaaafaaaafaaaafaaaafaaaafaaaafaaaafaaaafaaaafaaaafaaaafaaaafaaaafaaaafaaaafaaaafaaaafaaaafaaaafaaaafaaaafaaaafaaaafaaaafaaaafaaaafaaaafaaaafaaaafaaaafaaaafaaaafaaaafaaaafaaaafaaaafaaaafaaaafaaaafaaaafaaaafaaaafaaaafaaaafaaaafaaaafaaaafaaaafaaaafaaaafaaaafaaaafaaaafaaaafaaaafaaaafaaaafaaaafaaaafaaaafaaaafaaaafaaaafaaaafaaaafaaaafaaaafaaaafaaaafaaaafaaaafaaaafaaaafaaaafaaaafaaaafaaaafaaaafaaaafaaaafaaaafaaaafaaaafaaaafaaaafaaaafaaaafaaaafaaaafaaaafaaaafaaaafaaaafaaaafaaaafaaaafaaaafaaaafaaaafaaaafaaaafaaaafaaaafaaaafaaaafaaaafaaaafaaaafaaaafaaaafaaaafaaaafaaaafaaaafaaaafaaaafaaaafaaaafaaaafaaaafaaaafaaaafaaaafaaaafaaaafaaaafaaaafaaaafaaaafaaaafaaaafaaaafaaaafaaaafaaaafaaaafaaaafaaaafaaaafaaaafaaaafaaaafaaaafaaaafaaaafaaaafaaaafaaaafaaaafaaaafaaaafaaaafaaaafaaaafaaaafaaaafaaaafaaaafaaaafaaaafaaaafaaaafaaaafaaaafaaaafaaaafaaaafaaaafaaaafaaaafaaaafaaaafaaaafaaaafaaaafaaaafaaaafaaaafaaaafaaaafaaaafaaaafaaaafaaaafaaaafaaaafaaaafaaaafaaaafaaaafaaaafaaaafaaaafaaaafaaaafaaaafaaaafaaaafaaaafaaaafaaaafaaaafaaaafaaaafaaaafaaaafaaaafaaaafaaaafaaaafaaaafaaaafaaaafaaaafaaaafaaaafaaaafaaaafaaaafaaaafaaaafaaaafaaaafaaaafaaaafaaaafaaaafaaaafaaaafaaaafaaaafaaaafaaaafaaaafaaaafaaaafaaaafaaaafaaaafaaaafaaaafaaaafaaaafaaaafaaaafaaaafaaaafaaaafaaaafaaaafaaaafaaaafaaaafaaaafaaaafaaaafaaaafaaaafaaaafaaaafaaaafaaaafaaaafaaaafaaaafaaaafaaaafaaaafaaaafaaaafaaaafaaaafaaaafaaaafaaaafaaaafaaaafaaaafaaaafaaaafaaaafaaaafaaaafaaaafaaaafaaaafaaaafaaaafaaaafaaaafaaaafaaaafaaaafaaaafaaaafaaaafaaaafaaaafaaaafaaaafaaaafaaaafaaaafaaaafaaaafaaaafaaaafaaaafaaaafaaaafaaaafaaaafaaaafaaaafaaaafaaaafaaaafaaaafaaaafaaaafaaaafaaaafaaaafaaaafaaaafaaaafaaaafaaaafaaaafaaaafaaaafaaaafaaaafaaaafaaaafaaaafaaaafaaaafaaaafaaaafaaaafaaaafaaaafaaaafaaaafaaaafaaaafaaaafaaaafaaaafaaaafaaaafaaaafaaaafaaaafaaaafaaaafaaaafaaaafaaaafaaaafaaaafaaaafaaaafaaaafaaaafaaaafaaaafaaaafaaaafaaaafaaaafaaaafaaaafaaaafaaaafaaaafaaaafaaaafaaaafaaaafaaaafaaaafaaaafaaaafaaaafaaaafaaaafaaaafaaaafaaaafaaaafaaaafaaaafaaaafaaaafaaaafaaaafaaaafaaaafaaaafaaaafaaaafaaaafaaaafaaaafaaaafaaaafaaaafaaaafaaaafaaaafaaaafaaaafaaaafaaaafaaaafaaaafaaaafaaaafaaaafaaaafaaaafaaaafaaaafaaaafaaaafaaaafaaaafaaaafaaaafaaaafaaaafaaaafaaaafaaaafaaaafaaaafaaaafaaaafaaaafaaaafaaaafaaaafaaaafaaaafaaaafaaaafaaaafaaaafaaaafaaaafaaaafaaaafaaaafaaaafaaaafaaaafaaaafaaaafaaaafaaaafaaaafaaaafaaaafaaaafaaaafaaaafaaaafaaaafaaaafaaaafaaaafaaaafaaaafaaaafaaaafaaaafaaaafaaaafaaaafaaaafaaaafaaaafaaaafaaaafaaaafaaaafaaaafaaaafaaaafaaaafaaaafaaaafaaaafaaaafaaaafaaaafaaaafaaaafaaaafaaaafaaaafaaaafaaaafaaaafaaaafaaaafaaaafaaaafaaaafaaaafaaaafaaaafaaaafaaaafaaaafaaaafaaaafaaaafaaaafaaaafaaaafaaaafaaaafaaaafaaaafaaaafaaaafaaaafaaaafaaaafaaaafaaaafaaaafaaaafaaaafaaaafaaaafaaaafaaaafaaaafaaaafaaaafaaaafaaaafaaaafaaaafaaaafaaaafaaaafaaaafaaaafaaaafaaaafaaaafaaaafaaaafaaaafaaaafaaaafaaaafaaaafaaaafaaaafaaaafaaaafaaaafaaaafaaaafaaaafaaaafaaaafaaaafaaaafaaaafaaaafaaaafaaaafaaaafaaaafaaaafaaaafaaaafaaaafaaaafaaaafaaaafaaaafaaaafaaaafaaaafaaaafaaaafaaaafaaaafaaaafaaaafaaaafaaaafaaaafaaaafaaaafaaaafaaaafaaaafaaaafaaaafaaaafaaaafaaaafaaaafaaaafaaaafaaaafaaaafaaaafaaaafaaaafaaaafaaaafaaaafaaaafaaaafaaaafaaaafaaaafaaaafaaaafaaaafaaaafaaaafaaaafaaaafaaaafaaaafaaaafaaaafaaaafaaaafaaaafaaaafaaaafaaaafaaaafaaaafaaaafaaaafaaaafaaaafaaaafaaaafaaaafaaaafaaaafaaaafaaaafaaaafaaaafaaaafaaaafaaaafaaaafaaaafaaaafaaaafaaaafaaaafaaaafaaaafaaaafaaaafaaaafaaaafaaaafaaaafaaaafaaaafaaaafaaaafaaaafaaaafaaaafaaaafaaaafaaaafaaaafaaaafaaaafaaaafaaaafaaaafaaaafaaaafaaaafaaaafaaaafaaaafaaaafaaaafaaaafaaaafaaaafaaaafaaaafaaaafaaaafaaaafaaaafaaaafaaaafaaaafaaaafaaaafaaaafaaaafaaaafaaaafaaaafaaaafaaaafaaaafaaaafaaaafaaaafaaaafaaaafaaaafaaaafaaaafaaaafaaaafaaaafaaaafaaaafaaaafaaaafaaaafaaaafaaaafaaaafaaaafaaaafaaaafaaaafaaaafaaaafaaaafaaaafaaaafaaaafaaaafaaaafaaaafaaaafaaaafaaaafaaaafaaaafaaaafaaaafaaaafaaaafaaaafaaaafaaaafaaaafaaaafaaaafaaaafaaaafaaaafaaaafaaaafaaaafaaaafaaaafaaaafaaaafaaaafaaaafaaaafaaaafaaaafaaaafaaaafaaaafaaaafaaaafaaaafaaaafaaaafaaaafaaaafaaaafaaaafaaaafaaaafaaaafaaaafaaaafaaaafaaaafaaaafaaaafaaaafaaaafaaaafaaaafaaaafaaaafaaaafaaaafaaaafaaaafaaaafaaaafaaaafaaaafaaaafaaaafaaaafaaaafaaaafaaaafaaaafaaaafaaaafaaaafaaaafaaaafaaaafaaaafaaaafaaaafaaaafaaaafaaaafaaaafaaaafaaaafaaaafaaaafaaaafaaaafaaaafaaaafaaaafaaaafaaaafaaaafaaaafaaaafaaaafaaaafaaaafaaaafaaaafaaaafaaaafaaaafaaaafaaaafaaaafaaaafaaaafaaaafaaaafaaaafaaaafaaaafaaaafaaaafaaaafaaaafaaaafaaaafaaaafaaaafaaaafaaaafaaaafaaaafaaaafaaaafaaaafaaaafaaaafaaaafaaaafaaaafaaaafaaaafaaaafaaaafaaaafaaaafaaaafaaaafaaaafaaaafaaaafaaaafaaaafaaaafaaaafaaaafaaaafaaaafaaaafaaaafaaaafaaaafaaaafaaaafaaaafaaaafaaaafaaaafaaaafaaaafaaaafaaaafaaaafaaaafaaaafaaaafaaaafaaaafaaaafaaaafaaaafaaaafaaaafaaaafaaaafaaaafaaaafaaaafaaaafaaaafaaaafaaaafaaaafaaaafaaaafaaaafaaaafaaaafaaaafaaaafaaaafaaaafaaaafaaaafaaaafaaaafaaaafaaaafaaaafaaaafaaaafaaaafaaaafaaaafaaaafaaaafaaaafaaaafaaaafaaaafaaaafaaaafaaaafaaaafaaaafaaaafaaaafaaaafaaaafaaaafaaaafaaaafaaaafaaaafaaaafaaaafaaaafaaaafaaaafaaaafaaaafaaaafaaaafaaaafaaaafaaaafaaaafaaaafaaaafaaaafaaaafaaaafaaaafaaaafaaaafaaaafaaaafaaaafaaaafaaaafaaaafaaaafaaaafaaaafaaaafaaaafaaaafaaaafaaaafaaaafaaaafaaaafaaaafaaaafaaaafaaaafaaaafaaaafaaaafaaaafaaaafaaaafaaaafaaaafaaaafaaaafaaaafaaaafaaaafaaaafaaaafaaaafaaaafaaaafaaaafaaaafaaaafaaaafaaaafaaaafaaaafaaaafaaaafaaaafaaaafaaaafaaaafaaaafaaaafaaaafaaaafaaaafaaaafaaaafaaaafaaaafaaaafaaaafaaaafaaaafaaaafaaaafaaaafaaaafaaaafaaaafaaaafaaaafaaaafaaaafaaaafaaaafaaaafaaaafaaaafaaaafaaaafaaaafaaaafaaaafaaaafaaaafaaaafaaaafaaaafaaaafaaaafaaaafaaaafaaaafaaaafaaaafaaaafaaaafaaaafaaaafaaaafaaaafaaaafaaaafaaaafaaaafaaaafaaaafaaaafaaaafaaaafaaaafaaaafaaaafaaaafaaaafaaaafaaaafaaaafaaaafaaaafaaaafaaaafaaaafaaaafaaaafaaaafaaaafaaaafaaaafaaaafaaaafaaaafaaaafaaaafaaaafaaaafaaaafaaaafaaaafaaaafaaaafaaaafaaaafaaaafaaaafaaaafaaaafaaaafaaaafaaaafaaaafaaaafaaaafaaaafaaaafaaaafaaaafaaaafaaaafaaaafaaaafaaaafaaaafaaaafaaaafaaaafaaaafaaaafaaaafaaaafaaaafaaaafaaaafaaaafaaaafaaaafaaaafaaaafaaaafaaaafaaaafaaaafaaaafaaaafaaaafaaaafaaaafaaaafaaaafaaaafaaaafaaaafaaaafaaaafaaaafaaaafaaaafaaaafaaaafaaaafaaaafaaaafaaaafaaaafaaaafaaaafaaaafaaaafaaaafaaaafaaaafaaaafaaaafaaaafaaaafaaaafaaaafaaaafaaaafaaaafaaaafaaaafaaaafaaaafaaaafaaaafaaaafaaaafaaaafaaaafaaaafaaaafaaaafaaaafaaaafaaaafaaaafaaaafaaaafaaaafaaaafaaaafaaaafaaaafaaaafaaaafaaaafaaaafaaaafaaaafaaaafaaaafaaaafaaaafaaaafaaaafaaaafaaaafaaaafaaaafaaaafaaaafaaaafaaaafaaaafaaaafaaaafaaaafaaaafaaaafaaaafaaaafaaaafaaaafaaaafaaaafaaaafaaaafaaaafaaaafaaaafaaaafaaaafaaaafaaaafaaaafaaaafaaaafaaaafaaaafaaaafaaaafaaaafaaaafaaaafaaaafaaaafaaaafaaaafaaaafaaaafaaaafaaaafaaaafaaaafaaaafaaaafaaaafaaaafaaaafaaaafaaaafaaaafaaaafaaaafaaaafaaaafaaaafaaaafaaaafaaaafaaaafaaaafaaaafaaaafaaaafaaaafaaaafaaaafaaaafaaaafaaaafaaaafaaaafaaaafaaaafaaaafaaaafaaaafaaaafaaaafaaaafaaaafaaaafaaaafaaaafaaaafaaaafaaaafaaaafaaaafaaaafaaaafaaaafaaaafaaaafaaaafaaaafaaaafaaaafaaaafaaaafaaaafaaaafaaaafaaaafaaaafaaaafaaaafaaaafaaaafaaaafaaaafaaaafaaaafaaaafaaaafaaaafaaaafaaaafaaaafaaaafaaaafaaaafaaaafaaaafaaaafaaaafaaaafaaaafaaaafaaaafaaaafaaaafaaaafaaaafaaaafaaaafaaaafaaaafaaaafaaaafaaaafaaaafaaaafaaaafaaaafaaaafaaaafaaaafaaaafaaaafaaaafaaaafaaaafaaaafaaaafaaaafaaaafaaaafaaaafaaaafaaaafaaaafaaaafaaaafaaaafaaaafaaaafaaaafaaaafaaaafaaaafaaaafaaaafaaaafaaaafaaaafaaaafaaaafaaaafaaaafaaaafaaaafaaaafaaaafaaaafaaaafaaaafaaaafaaaafaaaafaaaafaaaafaaaafaaaafaaaafaaaafaaaafaaaafaaaafaaaafaaaafaaaafaaaafaaaafaaaafaaaafaaaafaaaafaaaafaaaafaaaafaaaafaaaafaaaafaaaafaaaafaaaafaaaafaaaafaaaafaaaafaaaafaaaafaaaafaaaafaaaafaaaafaaaafaaaafaaaafaaaafaaaafaaaafaaaafaaaafaaaafaaaafaaaafaaaafaaaafaaaafaaaafaaaafaaaafaaaafaaaafaaaafaaaafaaaafaaaafaaaafaaaafaaaafaaaafaaaafaaaafaaaafaaaafaaaafaaaafaaaafaaaafaaaafaaaafaaaafaaaafaaaafaaaafaaaafaaaafaaaafaaaafaaaafaaaafaaaafaaaafaaaafaaaafaaaafaaaafaaaafaaaafaaaafaaaafaaaafaaaafaaaafaaaafaaaafaaaafaaaafaaaafaaaafaaaafaaaafaaaafaaaafaaaafaaaafaaaafaaaafaaaafaaaafaaaafaaaafaaaafaaaafaaaafaaaafaaaafaaaafaaaafaaaafaaaafaaaafaaaafaaaafaaaafaaaafaaaafaaaafaaaafaaaafaaaafaaaafaaaafaaaafaaaafaaaafaaaafaaaafaaaafaaaafaaaafaaaafaaaafaaaafaaaafaaaafaaaafaaaafaaaafaaaafaaaafaaaafaaaafaaaafaaaafaaaafaaaafaaaafaaaafaaaafaaaafaaaafaaaafaaaafaaaafaaaafaaaafaaaafaaaafaaaafaaaafaaaafaaaafaaaafaaaafaaaafaaaafaaaafaaaafaaaafaaaafaaaafaaaafaaaafaaaafaaaafaaaafaaaafaaaafaaaafaaaafaaaafaaaafaaaafaaaafaaaafaaaafaaaafaaaafaaaafaaaafaaaafaaaafaaaafaaaafaaaafaaaafaaaafaaaafaaaafaaaafaaaafaaaafaaaafaaaafaaaafaaaafaaaafaaaafaaaafaaaafaaaafaaaafaaaafaaaafaaaafaaaafaaaafaaaafaaaafaaaafaaaafaaaafaaaafaaaafaaaafaaaafaaaafaaaafaaaafaaaafaaaafaaaafaaaafaaaafaaaafaaaafaaaafaaaafaaaafaaaafaaaafaaaafaaaafaaaafaaaafaaaafaaaafaaaafaaaafaaaafaaaafaaaafaaaafaaaafaaaafaaaafaaaafaaaafaaaafaaaafaaaafaaaafaaaafaaaafaaaafaaaafaaaafaaaafaaaafaaaafaaaafaaaafaaaafaaaafaaaafaaaafaaaafaaaafaaaafaaaafaaaafaaaafaaaafaaaafaaaafaaaafaaaafaaaafaaaafaaaafaaaafaaaafaaaafaaaafaaaafaaaafaaaafaaaafaaaafaaaafaaaafaaaafaaaafaaaafaaaafaaaafaaaafaaaafaaaafaaaafaaaafaaaafaaaafaaaafaaaafaaaafaaaafaaaafaaaafaaaafaaaafaaaafaaaafaaaafaaaafaaaafaaaafaaaafaaaafaaaafaaaafaaaafaaaafaaaafaaaafaaaafaaaafaaaafaaaafaaaafaaaafaaaafaaaafaaaafaaaafaaaafaaaafaaaafaaaafaaaafaaaafaaaafaaaafaaaafaaaafaaaafaaaafaaaafaaaafaaaafaaaafaaaafaaaafaaaafaaaafaaaafaaaafaaaafaaaafaaaafaaaafaaaafaaaafaaaafaaaafaaaafaaaafaaaafaaaafaaaafaaaafaaaafaaaafaaaafaaaafaaaafaaaafaaaafaaaafaaaafaaaafaaaafaaaafaaaafaaaafaaaafaaaafaaaafaaaafaaaafaaaafaaaafaaaafaaaafaaaafaaaafaaaafaaaafaaaafaaaafaaaafaaaafaaaafaaaafaaaafaaaafaaaafaaaafaaaafaaaafaaaafaaaafaaaafaaaafaaaafaaaafaaaafaaaafaaaafaaaafaaaafaaaafaaaafaaaafaaaafaaaafaaaafaaaafaaaafaaaafaaaafaaaafaaaafaaaafaaaafaaaafaaaafaaaafaaaafaaaafaaaafaaaafaaaafaaaafaaaafaaaafaaaafaaaafaaaafaaaafaaaafaaaafaaaafaaaafaaaafaaaafaaaafaaaafaaaafaaaafaaaafaaaafaaaafaaaafaaaafaaaafaaaafaaaafaaaafaaaafaaaafaaaafaaaafaaaafaaaafaaaafaaaafaaaafaaaafaaaafaaaafaaaafaaaafaaaafaaaafaaaafaaaafaaaafaaaafaaaafaaaafaaaafaaaafaaaafaaaafaaaafaaaafaaaafaaaafaaaafaaaafaaaafaaaafaaaafaaaafaaaafaaaafaaaafaaaafaaaafaaaafaaaafaaaafaaaafaaaafaaaafaaaafaaaafaaaafaaaafaaaafaaaafaaaafaaaafaaaafaaaafaaaafaaaafaaaafaaaafaaaafaaaafaaaafaaaafaaaafaaaafaaaafaaaafaaaafaaaafaaaafaaaafaaaafaaaafaaaafaaaafaaaafaaaafaaaafaaaafaaaafaaaafaaaafaaaafaaaafaaaafaaaafaaaafaaaafaaaafaaaafaaaafaaaafaaaafaaaafaaaafaaaafaaaafaaaafaaaafaaaafaaaafaaaafaaaafaaaafaaaafaaaafaaaafaaaafaaaafaaaafaaaafaaaafaaaafaaaafaaaafaaaafaaaafaaaafaaaafaaaafaaaafaaaafaaaafaaaafaaaafaaaafaaaafaaaafaaaafaaaafaaaafaaaafaaaafaaaafaaaafaaaafaaaafaaaafaaaafaaaafaaaafaaaafaaaafaaaafaaaafaaaafaaaafaaaafaaaafaaaafaaaafaaaafaaaafaaaafaaaafaaaafaaaafaaaafaaaafaaaafaaaafaaaafaaaafaaaafaaaafaaaafaaaafaaaafaaaafaaaafaaaafaaaafaaaafaaaafaaaafaaaafaaaafaaaafaaaafaaaafaaaafaaaafaaaafaaaafaaaafaaaafaaaafaaaafaaaafaaaafaaaafaaaafaaaafaaaafaaaafaaaafaaaafaaaafaaaafaaaafaaaafaaaafaaaafaaaafaaaafaaaafaaaafaaaafaaaafaaaafaaaafaaaafaaaafaaaafaaaafaaaafaaaafaaaafaaaafaaaafaaaafaaaafaaaafaaaafaaaafaaaafaaaafaaaafaaaafaaaafaaaafaaaafaaaafaaaafaaaafaaaafaaaafaaaafaaaafaaaafaaaafaaaafaaaafaaaafaaaafaaaafaaaafaaaafaaaafaaaafaaaafaaaafaaaafaaaafaaaafaaaafaaaafaaaafaaaafaaaafaaaafaaaafaaaafaaaafaaaafaaaafaaaafaaaafaaaafaaaafaaaafaaaafaaaafaaaafaaaafaaaafaaaafaaaafaaaafaaaafaaaafaaaafaaaafaaaafaaaafaaaafaaaafaaaafaaaafaaaafaaaafaaaafaaaafaaaafaaaafaaaafaaaafaaaafaaaafaaaafaaaafaaaafaaaafaaaafaaaafaaaafaaaafaaaafaaaafaaaafaaaafaaaafaaaafaaaafaaaafaaaafaaaafaaaafaaaafaaaafaaaafaaaafaaaafaaaafaaaafaaaafaaaafaaaafaaaafaaaafaaaafaaaafaaaafaaaafaaaafaaaafaaaafaaaafaaaafaaaafaaaafaaaafaaaafaaaafaaaafaaaafaaaafaaaafaaaafaaaafaaaafaaaafaaaafaaaafaaaafaaaafaaaafaaaafaaaafaaaafaaaafaaaafaaaafaaaafaaaafaaaafaaaafaaaafaaaafaaaafaaaafaaaafaaaafaaaafaaaafaaaafaaaafaaaafaaaafaaaafaaaafaaaafaaaafaaaafaaaafaaaafaaaafaaaafaaaafaaaafaaaafaaaafaaaafaaaafaaaafaaaafaaaafaaaafaaaafaaaafaaaafaaaafaaaafaaaafaaaafaaaafaaaafaaaafaaaafaaaafaaaafaaaafaaaafaaaafaaaafaaaafaaaafaaaafaaaafaaaafaaaafaaaafaaaafaaaafaaaafaaaafaaaafaaaafaaaafaaaafaaaafaaaafaaaafaaaafaaaafaaaafaaaafaaaafaaaafaaaafaaaafaaaafaaaafaaaafaaaafaaaafaaaafaaaafaaaafaaaafaaaafaaaafaaaafaaaafaaaafaaaafaaaafaaaafaaaafaaaafaaaafaaaafaaaafaaaafaaaafaaaafaaaafaaaafaaaafaaaafaaaafaaaafaaaafaaaafaaaafaaaafaaaafaaaafaaaafaaaafaaaafaaaafaaaafaaaafaaaafaaaafaaaafaaaafaaaafaaaafaaaafaaaafaaaafaaaafaaaafaaaafaaaafaaaafaaaafaaaafaaaafaaaafaaaafaaaafaaaafaaaafaaaafaaaafaaaafaaaafaaaafaaaafaaaafaaaafaaaafaaaafaaaafaaaafaaaafaaaafaaaafaaaafaaaafaaaafaaaafaaaafaaaafaaaafaaaafaaaafaaaafaaaafaaaafaaaafaaaafaaaafaaaafaaaafaaaafaaaafaaaafaaaafaaaafaaaafaaaafaaaafaaaafaaaafaaaafaaaafaaaafaaaafaaaafaaaafaaaafaaaafaaaafaaaafaaaafaaaafaaaafaaaafaaaafaaaafaaaafaaaafaaaafaaaafaaaafaaaafaaaafaaaafaaaafaaaafaaaafaaaafaaaafaaaafaaaafaaaafaaaafaaaafaaaafaaaafaaaafaaaafaaaafaaaafaaaafaaaafaaaafaaaafaaaafaaaafaaaafaaaafaaaafaaaafaaaafaaaafaaaafaaaafaaaafaaaafaaaafaaaafaaaafaaaafaaaafaaaafaaaafaaaafaaaafaaaafaaaafaaaafaaaafaaaafaaaafaaaafaaaafaaaafaaaafaaaafaaaafaaaafaaaafaaaafaaaafaaaafaaaafaaaafaaaafaaaafaaaafaaaafaaaafaaaafaaaafaaaafaaaafaaaafaaaafaaaafaaaafaaaafaaaafaaaafaaaafaaaafaaaafaaaafaaaafaaaafaaaafaaaafaaaafaaaafaaaafaaaafaaaafaaaafaaaafaaaafaaaafaaaafaaaafaaaafaaaafaaaafaaaafaaaafaaaafaaaafaaaafaaaafaaaafaaaafaaaafaaaafaaaafaaaafaaaafaaaafaaaafaaaafaaaafaaaafaaaafaaaafaaaafaaaafaaaafaaaafaaaafaaaafaaaafaaaafaaaafaaaafaaaafaaaafaaaafaaaafaaaafaaaafaaaafaaaafaaaafaaaafaaaafaaaafaaaafaaaafaaaafaaaafaaaafaaaafaaaafaaaafaaaafaaaafaaaafaaaafaaaafaaaafaaaafaaaafaaaafaaaafaaaafaaaafaaaafaaaafaaaafaaaafaaaafaaaafaaaafaaaafaaaafaaaafaaaafaaaafaaaafaaaafaaaafaaaafaaaafaaaafaaaafaaaafaaaafaaaafaaaafaaaafaaaafaaaafaaaafaaaafaaaafaaaafaaaafaaaafaaaafaaaafaaaafaaaafaaaafaaaafaaaafaaaafaaaafaaaafaaaafaaaafaaaafaaaafaaaafaaaafaaaafaaaafaaaafaaaafaaaafaaaafaaaafaaaafaaaafaaaafaaaafaaaafaaaafaaaafaaaafaaaafaaaafaaaafaaaafaaaafaaaafaaaafaaaafaaaafaaaafaaaafaaaafaaaafaaaafaaaafaaaafaaaafaaaafaaaafaaaafaaaafaaaafaaaafaaaafaaaafaaaafaaaafaaaafaaaafaaaafaaaafaaaafaaaafaaaafaaaafaaaafaaaafaaaafaaaafaaaafaaaafaaaafaaaafaaaafaaaafaaaafaaaafaaaafaaaafaaaafaaaafaaaafaaaafaaaafaaaafaaaafaaaafaaaafaaaafaaaafaaaafaaaafaaaafaaaafaaaafaaaafaaaafaaaafaaaafaaaafaaaafaaaafaaaafaaaafaaaafaaaafaaaafaaaafaaaafaaaafaaaafaaaafaaaafaaaafaaaafaaaafaaaafaaaafaaaafaaaafaaaafaaaafaaaafaaaafaaaafaaaafaaaafaaaafaaaafaaaafaaaafaaaafaaaafaaaafaaaafaaaafaaaafaaaafaaaafaaaafaaaafaaaafaaaafaaaafaaaafaaaafaaaafaaaafaaaafaaaafaaaafaaaafaaaafaaaafaaaafaaaafaaaafaaaafaaaafaaaafaaaafaaaafaaaafaaaafaaaafaaaafaaaafaaaafaaaafaaaafaaaafaaaafaaaafaaaafaaaafaaaafaaaafaaaafaaaafaaaafaaaafaaaafaaaafaaaafaaaafaaaafaaaafaaaafaaaafaaaafaaaafaaaafaaaafaaaafaaaafaaaafaaaafaaaafaaaafaaaafaaaafaaaafaaaafaaaafaaaafaaaafaaaafaaaafaaaafaaaafaaaafaaaafaaaafaaaafaaaafaaaafaaaafaaaafaaaafaaaafaaaafaaaafaaaafaaaafaaaafaaaafaaaafaaaafaaaafaaaafaaaafaaaafaaaafaaaafaaaafaaaafaaaafaaaafaaaafaaaafaaaafaaaafaaaafaaaafaaaafaaaafaaaafaaaafaaaafaaaafaaaafaaaafaaaafaaaafaaaafaaaafaaaafaaaafaaaafaaaafaaaafaaaafaaaafaaaafaaaafaaaafaaaafaaaafaaaafaaaafaaaafaaaafaaaafaaaafaaaafaaaafaaaafaaaafaaaafaaaafaaaafaaaafaaaafaaaafaaaafaaaafaaaafaaaafaaaafaaaafaaaafaaaafaaaafaaaafaaaafaaaafaaaafaaaafaaaafaaaafaaaafaaaafaaaafaaaafaaaafaaaafaaaafaaaafaaaafaaaafaaaafaaaafaaaafaaaafaaaafaaaafaaaafaaaafaaaafaaaafaaaafaaaafaaaafaaaafaaaafaaaafaaaafaaaafaaaafaaaafaaaafaaaafaaaafaaaafaaaafaaaafaaaafaaaafaaaafaaaafaaaafaaaafaaaafaaaafaaaafaaaafaaaafaaaafaaaafaaaafaaaafaaaafaaaafaaaafaaaafaaaafaaaafaaaafaaaafaaaafaaaafaaaafaaaafaaaafaaaafaaaafaaaafaaaafaaaafaaaafaaaafaaaafaaaafaaaafaaaafaaaafaaaafaaaafaaaafaaaafaaaafaaaafaaaafaaaafaaaafaaaafaaaafaaaafaaaafaaaafaaaafaaaafaaaafaaaafaaaafaaaafaaaafaaaafaaaafaaaafaaaafaaaafaaaafaaaafaaaafaaaafaaaafaaaafaaaafaaaafaaaafaaaafaaaafaaaafaaaafaaaafaaaafaaaafaaaafaaaafaaaafaaaafaaaafaaaafaaaafaaaafaaaafaaaafaaaafaaaafaaaafaaaafaaaafaaaafaaaafaaaafaaaafaaaafaaaafaaaafaaaafaaaafaaaafaaaafaaaafaaaafaaaafaaaafaaaafaaaafaaaafaaaafaaaafaaaafaaaafaaaafaaaafaaaafaaaafaaaafaaaafaaaafaaaafaaaafaaaafaaaafaaaafaaaafaaaafaaaafaaaafaaaafaaaafaaaafaaaafaaaafaaaafaaaafaaaafaaaafaaaafaaaafaaaafaaaafaaaafaaaafaaaafaaaafaaaafaaaafaaaafaaaafaaaafaaaafaaaafaaaafaaaafaaaafaaaafaaaafaaaafaaaafaaaafaaaafaaaafaaaafaaaafaaaafaaaafaaaafaaaafaaaafaaaafaaaafaaaafaaaafaaaafaaaafaaaafaaaafaaaafaaaafaaaafaaaafaaaafaaaafaaaafaaaafaaaafaaaafaaaafaaaafaaaafaaaafaaaafaaaafaaaafaaaafaaaafaaaafaaaafaaaafaaaafaaaafaaaafaaaafaaaafaaaafaaaafaaaafaaaafaaaafaaaafaaaafaaaafaaaafaaaafaaaafaaaafaaaafaaaafaaaafaaaafaaaafaaaafaaaafaaaafaaaafaaaafaaaafaaaafaaaafaaaafaaaafaaaafaaaafaaaafaaaafaaaafaaaafaaaafaaaafaaaafaaaafaaaafaaaafaaaafaaaafaaaafaaaafaaaafaaaafaaaafaaaafaaaafaaaafaaaafaaaafaaaafaaaafaaaafaaaafaaaafaaaafaaaafaaaafaaaafaaaafaaaafaaaafaaaafaaaafaaaafaaaafaaaafaaaafaaaafaaaafaaaafaaaafaaaafaaaafaaaafaaaafaaaafaaaafaaaafaaaafaaaafaaaafaaaafaaaafaaaafaaaafaaaafaaaafaaaafaaaafaaaafaaaafaaaafaaaafaaaafaaaafaaaafaaaafaaaafaaaafaaaafaaaafaaaafaaaafaaaafaaaafaaaafaaaafaaaafaaaafaaaafaaaafaaaafaaaafaaaafaaaafaaaafaaaafaaaafaaaafaaaafaaaafaaaafaaaafaaaafaaaafaaaafaaaafaaaafaaaafaaaafaaaafaaaafaaaafaaaafaaaafaaaafaaaafaaaafaaaafaaaafaaaafaaaafaaaafaaaafaaaafaaaafaaaafaaaafaaaafaaaafaaaafaaaafaaaafaaaafaaaafaaaafaaaafaaaafaaaafaaaafaaaafaaaafaaaafaaaafaaaafaaaafaaaafaaaafaaaafaaaafaaaafaaaafaaaafaaaafaaaafaaaafaaaafaaaafaaaafaaaafaaaafaaaafaaaafaaaafaaaafaaaafaaaafaaaafaaaafaaaafaaaafaaaafaaaafaaaafaaaafaaaafaaaafaaaafaaaafaaaafaaaafaaaafaaaafaaaafaaaafaaaafaaaafaaaafaaaafaaaafaaaafaaaafaaaafaaaafaaaafaaaafaaaafaaaafaaaafaaaafaaaafaaaafaaaafaaaafaaaafaaaafaaaafaaaafaaaafaaaafaaaafaaaafaaaafaaaafaaaafaaaafaaaafaaaafaaaafaaaafaaaafaaaafaaaafaaaafaaaafaaaafaaaafaaaafaaaafaaaafaaaafaaaafaaaafaaaafaaaafaaaafaaaafaaaafaaaafaaaafaaaafaaaafaaaafaaaafaaaafaaaafaaaafaaaafaaaafaaaafaaaafaaaafaaaafaaaafaaaafaaaafaaaafaaaafaaaafaaaafaaaafaaaafaaaafaaaafaaaafaaaafaaaafaaaafaaaafaaaafaaaafaaaafaaaafaaaafaaaafaaaafaaaafaaaafaaaafaaaafaaaafaaaafaaaafaaaafaaaafaaaafaaaafaaaafaaaafaaaafaaaafaaaafaaaafaaaafaaaafaaaafaaaafaaaafaaaafaaaafaaaafaaaafaaaafaaaafaaaafaaaafaaaafaaaafaaaafaaaafaaaafaaaafaaaafaaaafaaaafaaaafaaaafaaaafaaaafaaaafaaaafaaaafaaaafaaaafaaaafaaaafaaaafaaaafaaaafaaaafaaaafaaaafaaaafaaaafaaaafaaaafaaaafaaaafaaaafaaaafaaaafaaaafaaaafaaaafaaaafaaaafaaaafaaaafaaaafaaaafaaaafaaaafaaaafaaaafaaaafaaaafaaaafaaaafaaaafaaaafaaaafaaaafaaaafaaaafaaaafaaaafaaaafaaaafaaaafaaaafaaaafaaaafaaaafaaaafaaaafaaaafaaaafaaaafaaaafaaaafaaaafaaaafaaaafaaaafaaaafaaaafaaaafaaaafaaaafaaaafaaaafaaaafaaaafaaaafaaaafaaaafaaaafaaaafaaaafaaaafaaaafaaaafaaaafaaaafaaaafaaaafaaaafaaaafaaaafaaaafaaaafaaaafaaaafaaaafaaaafaaaa"

\* The lower case of the character c, one character to one (the mapping
\* that re.IGNORECASE applies to a character of the text).
unicode_tolower(c) ==
  IF c < 128 THEN (IF c \in UpperLetters THEN c + 32 ELSE c)
  ELSE IF 5 * c < Len(LowerDelta) THEN c + Delta(LowerDelta, c)
  ELSE c

\* For each character c of the table, the least of the characters that
\* re.IGNORECASE takes for the lower case of c (the lower case itself, and
\* for fifty lower-case characters some others), minus c.
FoldDelta ==
  "faaaafaaaafaaaafaaaafaaaafaaaafaaaafaaaafaaaafaaaafaaaafaaaafaaaafaaaafaaaafaaaafaaaafaaaafaaaafaaaafaaaafaaaafaaaafaaaafaaaafaaaafaaaafaaaafaaaafaaaafaaaafaaaafaaaafaaaafaaaafaaaafaaaafaaaafaaaafaaaafaaaafaaaafaaaafaaaafaaaafaaaafaaaafaaaafaaaafaaaafaaaafaaaafaaaafaaaafaaaafaaaafaaaafaaaafaaaafaaaafaaaafaaaafaaaafaaaafaaaafaadcfaadcfaadcfaadcfaadcfaadcfaadcfaadcfaadcfaadcfaadcfaadcfaadcfaadcfaadcfaadcfaadcfaadcfaadcfaadcfaadcfaadcfaadcfaadcfaadcfaadcfaaaafaaaafaaaafaaaafaaaafaaaafaaaafaaaafaaaafaaaafaaaafaaaafaaaafaaaafaaaafaaaafaaaafaaaafaaaafaaaafaaaafaaaafaaaafaaaafaaaafaaaafaaaafaaaafaaaafaaaafaaaafaaaafaaaafaaaafaaaafaaaafaaaafaaaafaaaafaaaafaaaafaaaafaaaafaaaafaaaafaaaafaaaafaaaafaaaafaaaafaaaafaaaafaaaafaaaafaaaafaaaafaaaafaaaafaaaafaaaafaaaafaaaafaaaafaaaafaaaafaaaafaaaafaaaafaaaafaaaafaaaafaaaafaaaafaaaafaaaafaaaafaaaafaaaafaaaafaaaafaaaafaaaafaaaafaaaafaaaafaaaafaaaafaaaafaaaafaaaafaaaafaaaafaaaafaaaafaaaafaaaafaaaafaaaafaaaafaaaafaaaafaadcfaadcfaadcfaadcfaadcfaadcfaadcfaadcfaadcfaadcfaadcfaadcfaadcfaadcfaadcfaadcfaadcfaadcfaadcfaadcfaadcfaadcfaadcfaaaafaadcfaadcfaadcfaadcfaadcfaadcfaadcfaaaafaaaafaaaafaaaafaaaafaaaafaaaafaaaafaaaafaaaafaaaafaaaafaaaafaaaafaaaafaaaafaaaafaaaafaaaafaaaafaaaafaaaafaaaafaaaafaaaafaaaafaaaafaaaafaaaafaaaafaaaafaaaafaaaafaaabfaaaafaaabfaaaafaaabfaaaafaaabfaaaafaaabfaaaafaaabfaaaafaaabfaaaafaaabfaaaafaaabfaaaafaaabfaaaafaaabfaaaafaaabfaaaafaaabfaaaafaaabfaaaafaaabfaaaafaaabfaaaafaaabfaaaafaaabfaaaafaaabfaaaafaaabfaaaafaaabfaaaafaaabfaaaafaaabfaaaafaaabfaaaaejiabejiaafaaabfaaaafaaabfaaaafaaabfaaaafaaaafaaabfaaaafaaabfaaaafaaabfaaaafaaabfaaaafaaabfaaaafaaabfaaaafaaabfaaaafaaabfaaaafaaaafaaabfaaaafaaabfaaaafaaabfaaaafaaabfaaaafaaabfaaaafaaabfaaaafaaabfaaaafaaabfaaaafaaabfaaaafaaabfaaaafaaabfaaaafaaabfaaaafaaabfaaaafaaabfaaaafaaabfaaaafaaabfaaaafaaabfaaaafaaabfaaaafaaabfaaaafaaabfaaaafaaabfaaaafaaabfaaaafaaabfaaaaejihjfaaabfaaaafaaabfaaaafaaabfaaaaejhdcfaaaafacbafaaabfaaaafaaabfaaaafacagfaaabfaaaafacaffacaffaaabfaaaafaaaafaahjfacacfacadfaaabfaaaafacaffacahfaaaafacbbfacajfaaabfaaaafaaaafaaaafacbbfacbdfaaaafacbefaaabfaaaafaaabfaaaafaaabfaaaafacbifaaabfaaaafacbifaaaafaaaafaaabfaaaafacbifaaabfaaaafacbhfacbhfaaabfaaaafaaabfaaaafacbjfaaabfaaaafaaaafaaaafaaabfaaaafaaaafaaaafaaaafaaaafaaaafaaaafaaacfaaabfaaaafaaacfaaabfaaaafaaacfaaabfaaaafaaabfaaaafaaabfaaaafaaabfaaaafaaabfaaaafaaabfaaaafaaabfaaaafaaabfaaaafaaabfaaaafaaaafaaabfaaaafaaabfaaaafaaabfaaaafaaabfaaaafaaabfaaaafaaabfaaaafaaabfaaaafaaabfaaaafaaabfaaaafaaaafaaacfaaabfaaaafaaabfaaaaejjadejjeefaaabfaaaafaaabfaaaafaaabfaaaafaaabfaaaafaaabfaaaafaaabfaaaafaaabfaaaafaaabfaaaafaaabfaaaafaaabfaaaafaaabfaaaafaaabfaaaafaaabfaaaafaaabfaaaafaaabfaaaafaaabfaaaafaaabfaaaafaaabfaaaafaaabfaaaafaaabfaaaaejihafaaaafaaabfaaaafaaabfaaaafaaabfaaaafaaabfaaaafaaabfaaaafaaabfaaaafaaabfaaaafaaabfaaaafaaabfaaaafaaaafaaaafaaaafaaaafaaaafaaaagahjffaaabfaaaaejidhgahjcfaaaafaaaafaaabfaaaaejiaffaagjfaahbfaaabfaaaafaaabfaaaafaaabfaaaafaaabfaaaafaaabfaaaafaaaafaaaafaaaafaaaafaaaafaaaafaaaafaaaafaaaafaaaafaaaafaaaafaaaafaaaafaaaafaaaafaaaafaaaafaaaafaaaafaaaafaaaafaaaafaaaafaaaafaaaafaaaafaaaafaaaafaaaafaaaafaaaafaaaafaaaafaaaafaaaafaaaafaaaafaaaafaaaafaaaafaaaafaaaafaaaafaaaafaaaafaaaafaaaafaaaafaaaafaaaafaaaafaaaafaaaafaaaafaaaafaaaafaaaafaaaafaaaafaaaafaaaafaaaafaaaafaaaafaaaafaaaafaaaafaaaafaaaafaaaafaaaafaaaafaaaafaaaafaaaafaaaafaaaafaaaafaaaafaaaafaaaafaaaafaaaafaaaafaaaafaaaafaaaafaaaafaaaafaaaafaaaafaaaafaaaafaaaafaaaafaaaafaaaafaaaafaaaafaaaafaaaafaaaafaaaafaaaafaaaafaaaafaaaafaaaafaaaafaaaafaaaafaaaafaaaafaaaafaaaafaaaafaaaafaaaafaaaafaaaafaaaafaaaafaaaafaaaafaaaafaaaafaaaafaaaafaaaafaaaafaaaafaaaafaaaafaaaafaaaafaaaafaaaafaaaafaaaafaaaafaaaafaaaafaaaafaaaafaaaafaaaafaaaafaaaafaaaafaaaafaaaafaaaafaaaafaaaafaaaafaaaafaaaafaaaafaaaafaaaafaaaafaaaafaaaafaaaafaaaafaaaafaaaafaaaafaaaafaaaafaaaafaaaafaaaafaaaafaaaafaaaafaaaafaaaafaaaafaaaafaaaafaaaafaaaafaaaafaaaafaaaafaaaafaaaafaaaafaaaafaaaafaaaafaaaafaaaafaaaafaaaafaaaafaaaafaaaafaaaafaaaafaaaafaaaafaaaafaaaafaaaafaaaafaaaafaaaafaaaafaaaafaaaafaaaafaaaafaaaafaaaafaaaafaaaafaaaafaaaafaaaafaaaafaaaafaaaafaaaafaaaafaaaafaaaafaaaafaaaafaaaafaaaafaaaafaaaafaaaafaaaafaaaafaaaafaaaafaaaafaaaafaaaafaaaafaaaafaaaafaaaafaaaafaaaafaaaafaaaafaaaafaaaafaaaafaaaafaaaafaaaafaaaafaaaafaaaafaaaafaaaafaaaafaaaafaaaafaaaafaaaafaaaafaaaafaaaafaaaafaaaafaaaafaaaafaaaafaaaafaaaafaaaafaaaafaaaafaaaafaaaafaaaafaaaafaaaafaaaafaaaafaaaafaaabfaaaafaaabfaaaafaaaafaaaafaaabfaaaafaaaafaaaafaaaafaaaafaaaafaaaafaaaafabbgfaaaafaaaafaaaafaaaafaaaafaaaafaadifaaaafaadhfaadhfaadhfaaaafaagefaaaafaagdfaagdfaaaafaadcfaadcfaadcfaadcfaadcfaadcfaadcfaadcejjbgfaadcfaadcejcfhfaadcfaadcfaadcfaadcfaadcfaaaafaadbfaadcfaadcfaadcfaadcfaadcfaadcfaadcfaadcfaaaafaaaafaaaafaaaafaaaafaaaafaaaafaaaafaaaafaaaafaaaafaaaafaaaaejiiefaaaafaaaaejccffaaaafaaaafaaaafaaaafaaaafaaaaejjjjfaaaafaaaafaaaafaaaafaaaafaaaafaaaafaaaafaaaafaaaafaaaafaaaiejjhaejjhffaaaafaaaafaaaaejjifejjhifaaaafaaabfaaaafaaabfaaaafaaabfaaaafaaabfaaaafaaabfaaaafaaabfaaaafaaabfaaaafaaabfaaaafaaabfaaaafaaabfaaaafaaabfaaaafaaabfaaaaejjegejjfcfaaaafaaaaejjeaejjdgfaaaafaaabfaaaaejjjdfaaabfaaaafaaaaejihaejihaejihafaaiafaaiafaaiafaaiafaaiafaaiafaaiafaaiafaaiafaaiafaaiafaaiafaaiafaaiafaaiafaaiafaadcfaadcfaadcfaadcfaadcfaadcfaadcfaadcfaadcfaadcfaadcfaadcfaadcfaadcfaadcfaadcfaadcfaadcfaadcfaadcfaadcfaadcfaadcfaadcfaadcfaadcfaadcfaadcfaadcfaadcfaadcfaadcfaaaafaaaafaaaafaaaafaaaafaaaafaaaafaaaafaaaafaaaafaaaafaaaafaaaafaaaafaaaafaaaafaaaafaaaafaaaafaaaafaaaafaaaafaaaafaaaafaaaafaaaafaaaafaaaafaaaafaaaafaaaafaaaafaaaafaaaafaaaafaaaafaaaafaaaafaaaafaaaafaaaafaaaafaaaafaaaafaaaafaaaafaaaafaaaafaaabfaaaafaaabfaaaafaaabfaaaafaaabfaaaafaaabfaaaafaaabfaaaafaaabfaaaafaaabfaaaafaaabfaaaafaaabfaaaafaaabfaaaafaaabfaaaafaaabfaaaafaaabfaaaafaaabfaaaafaaabfaaaafaaabfaaaafaaaafaaaafaaaafaaaafaaaafaaaafaaaafaaaafaaabfaaaafaaabfaaaafaaabfaaaafaaabfaaaafaaabfaaaafaaabfaaaafaaabfaaaafaaabfaaaafaaabfaaaafaaabfaaaafaaabfaaaafaaabfaaaafaaabfaaaafaaabfaaaafaaabfaaaafaaabfaaaafaaabfaaaafaaabfaaaafaaabfaaaafaaabfaaaafaaabfaaaafaaabfaaaafaaabfaaaafaaabfaaaafaaabfaaaafaaabfaaaafaaabfaaaafaabffaaabfaaaafaaabfaaaafaaabfaaaafaaabfaaaafaaabfaaaafaaabfaaaafaaabfaaaafaaaafaaabfaaaafaaabfaaaafaaabfaaaafaaabfaaaafaaabfaaaafaaabfaaaafaaabfaaaafaaabfaaaafaaabfaaaafaaabfaaaafaaabfaaaafaaabfaaaafaaabfaaaafaaabfaaaafaaabfaaaafaaabfaaaafaaabfaaaafaaabfaaaafaaabfaaaafaaabfaaaafaaabfaaaafaaabfaaaafaaabfaaaafaaabfaaaafaaabfaaaafaaabfaaaafaaabfaaaafaaabfaaaafaaabfaaaafaaabfaaaafaaabfaaaafaaabfaaaafaaabfaaaafaaabfaaaafaaabfaaaafaaabfaaaafaaabfaaaafaaabfaaaafaaabfaaaafaaabfaaaafaaabfaaaafaaabfaaaafaaabfaaaafaaabfaaaafaaabfaaaafaaabfaaaafaaabfaaaafaaabfaaaafaaaafaaeifaaeifaaeifaaeifaaeifaaeifaaeifaaeifaaeifaaeifaaeifaaeifaaeifaaeifaaeifaaeifaaeifaaeifaaeifaaeifaaeifaaeifaaeifaaeifaaeifaaeifaaeifaaeifaaeifaaeifaaeifaaeifaaeifaaeifaaeifaaeifaaeifaaeifaaaafaaaafaaaafaaaafaaaafaaaafaaaafaaaafaaaafaaaafaaaafaaaafaaaafaaaafaaaafaaaafaaaafaaaafaaaafaaaafaaaafaaaafaaaafaaaafaaaafaaaafaaaafaaaafaaaafaaaafaaaafaaaafaaaafaaaafaaaafaaaafaaaafaaaafaaaafaaaafaaaafaaaafaaaafaaaafaaaafaaaafaaaafaaaafaaaafaaaafaaaafaaaafaaaafaaaafaaaafaaaafaaaafaaaafaaaafaaaafaaaafaaaafaaaafaaaafaaaafaaaafaaaafaaaafaaaafaaaafaaaafaaaafaaaafaaaafaaaafaaaafaaaafaaaafaaaafaaaafaaaafaaaafaaaafaaaafaaaafaaaafaaaafaaaafaaaafaaaafaaaafaaaafaaaafaaaafaaaafaaaafaaaafaaaafaaaafaaaafaaaafaaaafaaaafaaaafaaaafaaaafaaaafaaaafaaaafaaaafaaaafaaaafaaaafaaaafaaaafaaaafaaaafaaaafaaaafaaaafaaaafaaaafaaaafaaaafaaaafaaaafaaaafaaaafaaaafaaaafaaaafaaaafaaaafaaaafaaaafaaaafaaaafaaaafaaaafaaaafaaaafaaaafaaaafaaaafaaaafaaaafaaaafaaaafaaaafaaaafaaaafaaaafaaaafaaaafaaaafaaaafaaaafaaaafaaaafaaaafaaaafaaaafaaaafaaaafaaaafaaaafaaaafaaaafaaaafaaaafaaaafaaaafaaaafaaaafaaaafaaaafaaaafaaaafaaaafaaaafaaaafaaaafaaaafaaaafaaaafaaaafaaaafaaaafaaaafaaaafaaaafaaaafaaaafaaaafaaaafaaaafaaaafaaaafaaaafaaaafaaaafaaaafaaaafaaaafaaaafaaaafaaaafaaaafaaaafaaaafaaaafaaaafaaaafaaaafaaaafaaaafaaaafaaaafaaaafaaaafaaaafaaaafaaaafaaaafaaaafaaaafaaaafaaaafaaaafaaaafaaaafaaaafaaaafaaaafaaaafaaaafaaaafaaaafaaaafaaaafaaaafaaaafaaaafaaaafaaaafaaaafaaaafaaaafaaaafaaaafaaaafaaaafaaaafaaaafaaaafaaaafaaaafaaaafaaaafaaaafaaaafaaaafaaaafaaaafaaaafaaaafaaaafaaaafaaaafaaaafaaaafaaaafaaaafaaaafaaaafaaaafaaaafaaaafaaaafaaaafaaaafaaaafaaaafaaaafaaaafaaaafaaaafaaaafaaaafaaaafaaaafaaaafaaaafaaaafaaaafaaaafaaaafaaaafaaaafaaaafaaaafaaaafaaaafaaaafaaaafaaaafaaaafaaaafaaaafaaaafaaaafaaaafaaaafaaaafaaaafaaaafaaaafaaaafaaaafaaaafaaaafaaaafaaaafaaaafaaaafaaaafaaaafaaaafaaaafaaaafaaaafaaaafaaaafaaaafaaaafaaaafaaaafaaaafaaaafaaaafaaaafaaaafaaaafaaaafaaaafaaaafaaaafaaaafaaaafaaaafaaaafaaaafaaaafaaaafaaaafaaaafaaaafaaaafaaaafaaaafaaaafaaaafaaaafaaaafaaaafaaaafaaaafaaaafaaaafaaaafaaaafaaaafaaaafaaaafaaaafaaaafaaaafaaaafaaaafaaaafaaaafaaaafaaaafaaaafaaaafaaaafaaaafaaaafaaaafaaaafaaaafaaaafaaaafaaaafaaaafaaaafaaaafaaaafaaaafaaaafaaaafaaaafaaaafaaaafaaaafaaaafaaaafaaaafaaaafaaaafaaaafaaaafaaaafaaaafaaaafaaaafaaaafaaaafaaaafaaaafaaaafaaaafaaaafaaaafaaaafaaaafaaaafaaaafaaaafaaaafaaaafaaaafaaaafaaaafaaaafaaaafaaaafaaaafaaaafaaaafaaaafaaaafaaaafaaaafaaaafaaaafaaaafaaaafaaaafaaaafaaaafaaaafaaaafaaaafaaaafaaaafaaaafaaaafaaaafaaaafaaaafaaaafaaaafaaaafaaaafaaaafaaaafaaaafaaaafaaaafaaaafaaaafaaaafaaaafaaaafaaaafaaaafaaaafaaaafaaaafaaaafaaaafaaaafaaaafaaaafaaaafaaaafaaaafaaaafaaaafaaaafaaaafaaaafaaaafaaaafaaaafaaaafaaaafaaaafaaaafaaaafaaaafaaaafaaaafaaaafaaaafaaaafaaaafaaaafaaaafaaaafaaaafaaaafaaaafaaaafaaaafaaaafaaaafaaaafaaaafaaaafaaaafaaaafaaaafaaaafaaaafaaaafaaaafaaaafaaaafaaaafaaaafaaaafaaaafaaaafaaaafaaaafaaaafaaaafaaaafaaaafaaaafaaaafaaaafaaaafaaaafaaaafaaaafaaaafaaaafaaaafaaaafaaaafaaaafaaaafaaaafaaaafaaaafaaaafaaaafaaaafaaaafaaaafaaaafaaaafaaaafaaaafaaaafaaaafaaaafaaaafaaaafaaaafaaaafaaaafaaaafaaaafaaaafaaaafaaaafaaaafaaaafaaaafaaaafaaaafaaaafaaaafaaaafaaaafaaaafaaaafaaaafaaaafaaaafaaaafaaaafaaaafaaaafaaaafaaaafaaaafaaaafaaaafaaaafaaaafaaaafaaaafaaaafaaaafaaaafaaaafaaaafaaaafaaaafaaaafaaaafaaaafaaaafaaaafaaaafaaaafaaaafaaaafaaaafaaaafaaaafaaaafaaaafaaaafaaaafaaaafaaaafaaaafaaaafaaaafaaaafaaaafaaaafaaaafaaaafaaaafaaaafaaaafaaaafaaaafaaaafaaaafaaaafaaaafaaaafaaaafaaaafaaaafaaaafaaaafaaaafaaaafaaaafaaaafaaaafaaaafaaaafaaaafaaaafaaaafaaaafaaaafaaaafaaaafaaaafaaaafaaaafaaaafaaaafaaaafaaaafaaaafaaaafaaaafaaaafaaaafaaaafaaaafaaaafaaaafaaaafaaaafaaaafaaaafaaaafaaaafaaaafaaaafaaaafaaaafaaaafaaaafaaaafaaaafaaaafaaaafaaaafaaaafaaaafaaaafaaaafaaaafaaaafaaaafaaaafaaaafaaaafaaaafaaaafaaaafaaaafaaaafaaaafaaaafaaaafaaaafaaaafaaaafaaaafaaaafaaaafaaaafaaaafaaaafaaaafaaaafaaaafaaaafaaaafaaaafaaaafaaaafaaaafaaaafaaaafaaaafaaaafaaaafaaaafaaaafaaaafaaaafaaaafaaaafaaaafaaaafaaaafaaaafaaaafaaaafaaaafaaaafaaaafaaaafaaaafaaaafaaaafaaaafaaaafaaaafaaaafaaaafaaaafaaaafaaaafaaaafaaaafaaaafaaaafaaaafaaaafaaaafaaaafaaaafaaaafaaaafaaaafaaaafaaaafaaaafaaaafaaaafaaaafaaaafaaaafaaaafaaaafaaaafaaaafaaaafaaaafaaaafaaaafaaaafaaaafaaaafaaaafaaaafaaaafaaaafaaaafaaaafaaaafaaaafaaaafaaaafaaaafaaaafaaaafaaaafaaaafaaaafaaaafaaaafaaaafaaaafaaaafaaaafaaaafaaaafaaaafaaaafaaaafaaaafaaaafaaaafaaaafaaaafaaaafaaaafaaaafaaaafaaaafaaaafaaaafaaaafaaaafaaaafaaaafaaaafaaaafaaaafaaaafaaaafaaaafaaaafaaaafaaaafaaaafaaaafaaaafaaaafaaaafaaaafaaaafaaaafaaaafaaaafaaaafaaaafaaaafaaaafaaaafaaaafaaaafaaaafaaaafaaaafaaaafaaaafaaaafaaaafaaaafaaaafaaaafaaaafaaaafaaaafaaaafaaaafaaaafaaaafaaaafaaaafaaaafaaaafaaaafaaaafaaaafaaaafaaaafaaaafaaaafaaaafaaaafaaaafaaaafaaaafaaaafaaaafaaaafaaaafaaaafaaaafaaaafaaaafaaaafaaaafaaaafaaaafaaaafaaaafaaaafaaaafaaaafaaaafaaaafaaaafaaaafaaaafaaaafaaaafaaaafaaaafaaaafaaaafaaaafaaaafaaaafaaaafaaaafaaaafaaaafaaaafaaaafaaaafaaaafaaaafaaaafaaaafaaaafaaaafaaaafaaaafaaaafaaaafaaaafaaaafaaaafaaaafaaaafaaaafaaaafaaaafaaaafaaaafaaaafaaaafaaaafaaaafaaaafaaaafaaaafaaaafaaaafaaaafaaaafaaaafaaaafaaaafaaaafaaaafaaaafaaaafaaaafaaaafaaaafaaaafaaaafaaaafaaaafaaaafaaaafaaaafaaaafaaaafaaaafaaaafaaaafaaaafaaaafaaaafaaaafaaaafaaaafaaaafaaaafaaaafaaaafaaaafaaaafaaaafaaaafaaaafaaaafaaaafaaaafaaaafaaaafaaaafaaaafaaaafaaaafaaaafaaaafaaaafaaaafaaaafaaaafaaaafaaaafaaaafaaaafaaaafaaaafaaaafaaaafaaaafaaaafaaaafaaaafaaaafaaaafaaaafaaaafaaaafaaaafaaaafaaaafaaaafaaaafaaaafaaaafaaaafaaaafaaaafaaaafaaaafaaaafaaaafaaaafaaaafaaaafaaaafaaaafaaaafaaaafaaaafaaaafaaaafaaaafaaaafaaaafaaaafaaaafaaaafaaaafaaaafaaaafaaaafaaaafaaaafaaaafaaaafaaaafaaaafaaaafaaaafaaaafaaaafaaaafaaaafaaaafaaaafaaaafaaaafaaaafaaaafaaaafaaaafaaaafaaaafaaaafaaaafaaaafaaaafaaaafaaaafaaaafaaaafaaaafaaaafaaaafaaaafaaaafaaaafaaaafaaaafaaaafaaaafaaaafaaaafaaaafaaaafaaaafaaaafaaaafaaaafaaaafaaaafaaaafaaaafaaaafaaaafaaaafaaaafaaaafaaaafaaaafaaaafaaaafaaaafaaaafaaaafaaaafaaaafaaaafaaaafaaaafaaaafaaaafaaaafaaaafaaaafaaaafaaaafaaaafaaaafaaaafaaaafaaaafaaaafaaaafaaaafaaaafaaaafaaaafaaaafaaaafaaaafaaaafaaaafaaaafaaaafaaaafaaaafaaaafaaaafaaaafaaaafaaaafaaaafaaaafaaaafaaaafaaaafaaaafaaaafaaaafaaaafaaaafaaaafaaaafaaaafaaaafaaaafaaaafaaaafaaaafaaaafaaaafaaaafaaaafaaaafaaaafaaaafaaaafaaaafaaaafaaaafaaaafaaaafaaaafaaaafaaaafaaaafaaaafaaaafaaaafaaaafaaaafaaaafaaaafaaaafaaaafaaaafaaaafaaaafaaaafaaaafaaaafaaaafaaaafaaaafaaaafaaaafaaaafaaaafaaaafaaaafaaaafaaaafaaaafaaaafaaaafaaaafaaaafaaaafaaaafaaaafaaaafaaaafaaaafaaaafaaaafaaaafaaaafaaaafaaaafaaaafaaaafaaaafaaaafaaaafaaaafaaaafaaaafaaaafaaaafaaaafaaaafaaaafaaaafaaaafaaaafaaaafaaaafaaaafaaaafaaaafaaaafaaaafaaaafaaaafaaaafaaaafaaaafaaaafaaaafaaaafaaaafaaaafaaaafaaaafaaaafaaaafaaaafaaaafaaaafaaaafaaaafaaaafaaaafaaaafaaaafaaaafaaaafaaaafaaaafaaaafaaaafaaaafaaaafaaaafaaaafaaaafaaaafaaaafaaaafaaaafaaaafaaaafaaaafaaaafaaaafaaaafaaaafaaaafaaaafaaaafaaaafaaaafaaaafaaaafaaaafaaaafaaaafaaaafaaaafaaaafaaaafaaaafaaaafaaaafaaaafaaaafaaaafaaaafaaaafaaaafaaaafaaaafaaaafaaaafaaaafaaaafaaaafaaaafaaaafaaaafaaaafaaaafaaaafaaaafaaaafaaaafaaaafaaaafaaaafaaaafaaaafaaaafaaaafaaaafaaaafaaaafaaaafaaaafaaaafaaaafaaaafaaaafaaaafaaaafaaaafaaaafaaaafaaaafaaaafaaaafaaaafaaaafaaaafaaaafaaaafaaaafaaaafaaaafaaaafaaaafaaaafaaaafaaaafaaaafaaaafaaaafaaaafaaaafaaaafaaaafaaaafaaaafaaaafaaaafaaaafaaaafaaaafaaaafaaaafaaaafaaaafaaaafaaaafaaaafaaaafaaaafaaaafaaaafaaaafaaaafaaaafaaaafaaaafaaaafaaaafaaaafaaaafaaaafaaaafaaaafaaaafaaaafaaaafaaaafaaaafaaaafaaaafaaaafaaaafaaaafaaaafaaaafaaaafaaaafaaaafaaaafaaaafaaaafaaaafaaaafaaaafaaaafaaaafaaaafaaaafaaaafaaaafaaaafaaaafaaaafaaaafaaaafaaaafaaaafaaaafaaaafaaaafaaaafaaaafaaaafaaaafaaaafaaaafaaaafaaaafaaaafaaaafaaaafaaaafaaaafaaaafaaaafaaaafaaaafaaaafaaaafaaaafaaaafaaaafaaaafaaaafaaaafaaaafaaaafaaaafaaaafaaaafaaaafaaaafaaaafaaaafaaaafaaaafaaaafaaaafaaaafaaaafaaaafaaaafaaaafaaaafaaaafaaaafaaaafaaaafaaaafaaaafaaaafaaaafaaaafaaaafaaaafaaaafaaaafaaaafaaaafaaaafaaaafaaaafaaaafaaaafaaaafaaaafaaaafaaaafaaaafaaaafaaaafaaaafaaaafaaaafaaaafaaaafaaaafaaaafaaaafaaaafaaaafaaaafaaaafaaaafaaaafaaaafaaaafaaaafaaaafaaaafaaaafaaaafaaaafaaaafaaaafaaaafaaaafaaaafaaaafaaaafaaaafaaaafaaaafaaaafaaaafaaaafaaaafaaaafaaaafaaaafaaaafaaaafaaaafaaaafaaaafaaaafaaaafaaaafaaaafaaaafaaaafaaaafaaaafaaaafaaaafaaaafaaaafaaaafaaaafaaaafaaaafaaaafaaaafaaaafaaaafaaaafaaaafaaaafaaaafaaaafaaaafaaaafaaaafaaaafaaaafaaaafaaaafaaaafaaaafaaaafaaaafaaaafaaaafaaaafaaaafaaaafaaaafaaaafaaaafaaaafaaaafaaaafaaaafaaaafaaaafaaaafaaaafaaaafaaaafaaaafaaaafaaaafaaaafaaaafaaaafaaaafaaaafaaaafaaaafaaaafaaaafaaaafaaaafaaaafaaaafaaaafaaaafaaaafaaaafaaaafaaaafaaaafaaaafaaaafaaaafaaaafaaaafaaaafaaaafaaaafaaaafaaaafaaaafaaaafaaaafaaaafaaaafaaaafaaaafaaaafaaaafaaaafaaaafaaaafaaaafaaaafaaaafaaaafaaaafaaaafaaaafaaaafaaaafaaaafaaaafaaaafaaaafaaaafaaaafaaaafaaaafaaaafaaaafaaaafaaaafaaaafaaaafaaaafaaaafaaaafaaaafaaaafaaaafaaaafaaaafaaaafaaaafaaaafaaaafaaaafaaaafaaaafaaaafaaaafaaaafaaaafaaaafaaaafaaaafaaaafaaaafaaaafaaaafaaaafaaaafaaaafaaaafaaaafaaaafaaaafaaaafaaaafaaaafaaaafaaaafaaaafaaaafaaaafaaaafaaaafaaaafaaaafaaaafaaaafaaaafaaaafaaaafaaaafaaaafaaaafaaaafaaaafaaaafaaaafaaaafaaaafaaaafaaaafaaaafaaaafaaaafaaaafaaaafaaaafaaaafaaaafaaaafaaaafaaaafaaaafaaaafaaaafaaaafaaaafaaaafaaaafaaaafaaaafaaaafaaaafaaaafaaaafaaaafaaaafaaaafaaaafaaaafaaaafaaaafaaaafaaaafaaaafaaaafaaaafaaaafaaaafaaaafaaaafaaaafaaaafaaaafaaaafaaaafaaaafaaaafaaaafaaaafaaaafaaaafaaaafaaaafaaaafaaaafaaaafaaaafaaaafaaaafaaaafaaaafaaaafaaaafaaaafaaaafaaaafaaaafaaaafaaaafaaaafaaaafaaaafaaaafaaaafaaaafaaaafaaaafaaaafaaaafaaaafaaaafaaaafaaaafaaaafaaaafaaaafaaaafaaaafaaaafaaaafaaaafaaaafaaaafaaaafaaaafaaaafaaaafaaaafaaaafaaaafaaaafaaaafaaaafaaaafaaaafaaaafaaaafaaaafaaaafaaaafaaaafaaaafaaaafaaaafaaaafaaaafaaaafaaaafaaaafaaaafaaaafaaaafaaaafaaaafaaaafaaaafaaaafaaaafaaaafaaaafaaaafaaaafaaaafaaaafaaaafaaaafaaaafaaaafaaaafaaaafaaaafaaaafaaaafaaaafaaaafaaaafaaaafaaaafaaaafaaaafaaaafaaaafaaaafaaaafaaaafaaaafaaaafaaaafaaaafaaaafaaaafaaaafaaaafaaaafaaaafaaaafaaaafaaaafaaaafaaaafaaaafaaaafaaaafaaaafaaaafaaaafaaaafaaaafaaaafaaaafaaaafaaaafaaaafaaaafaaaafaaaafaaaafaaaafaaaafaaaafaaaafaaaafaaaafaaaafaaaafaaaafaaaafaaaafaaaafaaaafaaaafaaaafaaaafaaaafaaaafaaaafaaaafaaaafaaaafaaaafaaaafaaaafaaaafaaaafaaaafaaaafaaaafaaaafaaaafaaaafaaaafaaaafaaaafaaaafaaaafaaaafaaaafaaaafaaaafaaaafaaaafaaaafaaaafaaaafaaaafaaaafaaaafaaaafaaaafaaaafaaaafaaaafaaaafaaaafaaaafaaaafaaaafaaaafaaaafaaaafaaaafaaaafaaaafaaaafaaaafaaaafaaaafaaaafaaaafaaaafaaaafaaaafaaaafaaaafaaaafaaaafaaaafaaaafaaaafaaaafaaaafaaaafaaaafaaaafaaaafaaaafaaaafaaaafaaaafaaaafaaaafaaaafaaaafaaaafaaaafaaaafaaaafaaaafaaaafaaaafaaaafaaaafaaaafaaaafaaaafaaaafaaaafaaaafaaaafaaaafaaaafaaaafaaaafaaaafaaaafaaaafaaaafaaaafaaaafaaaafaaaafaaaafaaaafaaaafaaaafaaaafaaaafaaaafaaaafaaaafaaaafaaaafaaaafaaaafaaaafaaaafaaaafaaaafaaaafaaaafaaaafaaaafaaaafaaaafaaaafaaaafaaaafaaaafaaaafaaaafaaaafaaaafaaaafaaaafaaaafaaaafaaaafaaaafaaaafaaaafaaaafaaaafaaaafaaaafaaaafaaaafaaaafaaaafaaaafaaaafaaaafaaaafaaaafaaaafaaaafaaaafaaaafaaaafaaaafaaaafaaaafaaaafaaaafaaaafaaaafaaaafaaaafaaaafaaaafaaaafaaaafaaaafaaaafaaaafaaaafaaaafaaaafaaaafaaaafaaaafaaaafaaaafaaaafaaaafaaaafaaaafaaaafaaaafaaaafaaaafaaaafaaaafaaaafaaaafaaaafaaaafaaaafaaaafaaaafaaaafaaaafaaaafaaaafaaaafaaaafaaaafaaaafaaaafaaaafaaaafaaaafaaaafaaaafaaaafaaaafaaaafaaaafaaaafaaaafaaaafaaaafaaaafaaaafaaaafaaaafaaaafaaaafaaaafaaaafaaaafaaaafaaaafaaaafaaaafaaaafaaaafaaaafaaaafaaaafaaaafaaaafaaaafaaaafaaaafaaaafaaaafaaaafaaaafaaaafaaaafaaaafaaaafaaaafaaaafaaaafaaaafaaaafaaaafaaaafaaaafaaaafaaaafaaaafaaaafaaaafaaaafaaaafaaaafaaaafaaaafaaaafaaaafaaaafaaaafaaaafaaaafaaaafaaaafaaaafaaaafaaaafaaaafaaaafaaaafaaaafaaaafaaaafaaaafaaaafaaaafaaaafaaaafaaaafaaaafaaaafaaaafaaaafaaaafaaaafaaaafaaaafaaaafaaaafaaaafaaaafaaaafaaaafaaaafaaaafaaaafaaaafaaaafaaaafaaaafaaaafaaaafaaaafaaaafaaaafaaaafaaaafaaaafaaaafaaaafaaaafaaaafaaaafaaaafaaaafaaaafaaaafaaaafaaaafaaaafaaaafaaaafaaaafaaaafaaaafaaaafaaaafaaaafaaaafaaaafaaaafaaaafaaaafaaaafaaaafaaaafaaaafaaaafaaaafaaaafaaaafaaaafaaaafaaaafaaaafaaaafaaaafaaaafaaaafaaaafaaaafaaaafaaaafaaaafaaaafaaaafaaaafaaaafaaaafaaaafaaaafaaaafaaaafaaaafaaaafaaaafaaaafaaaafaaaafaaaafaaaafaaaafaaaafaaaafaaaafaaaafaaaafaaaafaaaafaaaafaaaafaaaafaaaafaaaafaaaafaaaafaaaafaaaafaaaafaaaafaaaafaaaafaaaafaaaafaaaafaaaafaaaafaaaafaaaafaaaafaaaafaaaafaaaafaaaafaaaafaaaafaaaafaaaafaaaafaaaafaaaafaaaafaaaafaaaafaaaafaaaafaaaafaaaafaaaafaaaafaaaafaaaafaaaafaaaafaaaafaaaafaaaafaaaafaaaafaaaafaaaafaaaafaaaafaaaafaaaafaaaafaaaafaaaafaaaafaaaafaaaafaaaafaaaafaaaafaaaafaaaafaaaafaaaafaaaafaaaafaaaafaaaafaaaafaaaafaaaafaaaafaaaafaaaafaaaafaaaafaaaafaaaafaaaafaaaafaaaafaaaafaaaafaaaafaaaafaaaafaaaafaaaafaaaafaaaafaaaafaaaafaaaafaaaafaaaafaaaafaaaafaaaafaaaafaaaafaaaafaaaafaaaafaaaafaaaafaaaafaaaafaaaafaaaafaaaafaaaafaaaafaaaafaaaafaaaafaaaafaaaafaaaafaaaafaaaafaaaafaaaafaaaafaaaafaaaafaaaafaaaafaaaafaaaafaaaafaaaafaaaafaaaafaaaafaaaafaaaafaaaafaaaafaaaafaaaafaaaafaaaafaaaafaaaafaaaafaaaafaaaafaaaafaaaafaaaafaaaafaaaafaaaafaaaafaaaafaaaafaaaafaaaafaaaafaaaafaaaafaaaafaaaafaaaafaaaafaaaafaaaafaaaafaaaafaaaafaaaafaaaafaaaafaaaafaaaafaaaafaaaafaaaafaaaafaaaafaaaafaaaafaaaafaaaafaaaafaaaafaaaafaaaafaaaafaaaafaaaafaaaafaaaafaaaafaaaafaaaafaaaafaaaafaaaafaaaafaaaafaaaafaaaafaaaafaaaafaaaafaaaafaaaafaaaafaaaafaaaafaaaafaaaafaaaafaaaafaaaafaaaafaaaafaaaafaaaafaaaafaaaafaaaafaaaafaaaafaaaafaaaafaaaafaaaafaaaafaaaafaaaafaaaafaaaafaaaafaaaafaaaafaaaafaaaafaaaafaaaafaaaafaaaafaaaafaaaafaaaafaaaafaaaafaaaafaaaafaaaafaaaafaaaafaaaafaaaafaaaafaaaafaaaafaaaafaaaafaaaafaaaafaaaafaaaafaaaafaaaafaaaafaaaafaaaafaaaafaaaafaaaafaaaafaaaafaaaafaaaafaaaafaaaafaaaafaaaafaaaafaaaafaaaafaaaafaaaafaaaafaaaafaaaafaaaafaaaafaaaafaaaafaaaafaaaafaaaafaaaafaaaafaaaafaaaafaaaafaaaafaaaafaaaafaaaafaaaafaaaafaaaafaaaafaaaafaaaafaaaafaaaafaaaafaaaafaaaafaaaafaaaafaaaafaaaafaaaafaaaafaaaafaaaafaaaafaaaafaaaafaaaafaaaafaaaafaaaafaaaafaaaafaaaafaaaafaaaafaaaafaaaafaaaafaaaafaaaafaaaafaaaafaaaafaaaafaaaafaaaafaaaafaaaafaaaafaaaafaaaafaaaafaaaafaaaafaaaafaaaafaaaafaaaafaaaafaaaafaaaafaaaafaaaafaaaafaaaafaaaafaaaafaaaafaaaafaaaafaaaafaaaafaaaafaaaafaaaafaaaafaaaafaaaafaaaafaaaafaaaafaaaafaaaafaaaafaaaafaaaafaaaafaaaafaaaafaaaafaaaafaaaafaaaafaaaafaaaafaaaafaaaafaaaafaaaafaaaafaaaafaaaafaaaafaaaafaaaafaaaafaaaafaaaafaaaafaaaafaaaafaaaafaaaafaaaafaaaafaaaafaaaafaaaafaaaafaaaafaaaafaaaafaaaafaaaafaaaafaaaafaaaafaaaafaaaafaaaafaaaafaaaafaaaafaaaafaaaafaaaafaaaafaaaafaaaafaaaafaaaafaaaafaaaafaaaafaaaafaaaafaaaafaaaafaaaafaaaafaaaafaaaafaaaafaaaafaaaafaaaafaaaafaaaafaaaafaaaafaaaafaaaafaaaafaaaafaaaafaaaafaaaafaaaafaaaafaaaafaaaafaaaafaaaafaaaafaaaafaaaafaaaafaaaafaaaafaaaafaaaafaaaafaaaafaaaafaaaafaaaafaaaafaaaafaaaafaaaafaaaafaaaafaaaafaaaafaaaafaaaafaaaafaaaafaaaafaaaafaaaafaaaafaaaafaaaafaaaafaaaafaaaafaaaafaaaafaaaafaaaafhcgefhcgefhcgefhcgefhcgefhcgefhcgefhcgefhcgefhcgefhcgefhcgefhcgefhcgefhcgefhcgefhcgefhcgefhcgefhcgefhcgefhcgefhcgefhcgefhcgefhcgefhcgefhcgefhcgefhcgefhcgefhcgefhcgefhcgefhcgefhcgefhcgefhcgefaaaafhcgefaaaafaaaafaaaafaaaafaaaafhcgefaaaafaaaafaaaafaaaafaaaafaaaafaaaafaaaafaaaafaaaafaaaafaaaafaaaafaaaafaaaafaaaafaaaafaaaafaaaafaaaafaaaafaaaafaaaafaaaafaaaafaaaafaaaafaaaafaaaafaaaafaaaafaaaafaaaafaaaafaaaafaaaafaaaafaaaafaaaafaaaafaaaafaaaafaaaafaaaafaaaafaaaafaaaafaaaafaaaafaaaafaaaafaaaafaaaafaaaafaaaafaaaafaaaafaaaafaaaafaaaafaaaafaaaafaaaafaaaafaaaafaaaafaaaafaaaafaaaafaaaafaaaafaaaafaaaafaaaafaaaafaaaafaaaafaaaafaaaafaaaafaaaafaaaafaaaafaaaafaaaafaaaafaaaafaaaafaaaafaaaafaaaafaaaafaaaafaaaafaaaafaaaafaaaafaaaafaaaafaaaafaaaafaaaafaaaafaaaafaaaafaaaafaaaafaaaafaaaafaaaafaaaafaaaafaaaafaaaafaaaafaaaafaaaafaaaafaaaafaaaafaaaafaaaafaaaafaaaafaaaafaaaafaaaafaaaafaaaafaaaafaaaafaaaafaaaafaaaafaaaafaaaafaaaafaaaafaaaafaaaafaaaafaaaafaaaafaaaafaaaafaaaafaaaafaaaafaaaafaaaafaaaafaaaafaaaafaaaafaaaafaaaafaaaafaaaafaaaafaaaafaaaafaaaafaaaafaaaafaaaafaaaafaaaafaaaafaaaafaaaafaaaafaaaafaaaafaaaafaaaafaaaafaaaafaaaafaaaafaaaafaaaafaaaafaaaafaaaafaaaafaaaafaaaafaaaafaaaafaaaafaaaafaaaafaaaafaaaafaaaafaaaafaaaafaaaafaaaafaaaafaaaafaaaafaaaafaaaafaaaafaaaafaaaafaaaafaaaafaaaafaaaafaaaafaaaafaaaafaaaafaaaafaaaafaaaafaaaafaaaafaaaafaaaafaaaafaaaafaaaafaaaafaaaafaaaafaaaafaaaafaaaafaaaafaaaafaaaafaaaafaaaafaaaafaaaafaaaafaaaafaaaafaaaafaaaafaaaafaaaafaaaafaaaafaaaafaaaafaaaafaaaafaaaafaaaafaaaafaaaafaaaafaaaafaaaafaaaafaaaafaaaafaaaafaaaafaaaafaaaafaaaafaaaafaaaafaaaafaaaafaaaafaaaafaaaafaaaafaaaafaaaafaaaafaaaafaaaafaaaafaaaafaaaafaaaafaaaafaaaafaaaafaaaafaaaafaaaafaaaafaaaafaaaafaaaafaaaafaaaafaaaafaaaafaaaafaaaafaaaafaaaafaaaafaaaafaaaafaaaafaaaafaaaafaaaafaaaafaaaafaaaafaaaafaaaafaaaafaaaafaaaafaaaafaaaafaaaafaaaafaaaafaaaafaaaafaaaafaaaafaaaafaaaafaaaafaaaafaaaafaaaafaaaafaaaafaaaafaaaafaaaafaaaafaaaafaaaafaaaafaaaafaaaafaaaafaaaafaaaafaaaafaaaafaaaafaaaafaaaafaaaafaaaafaaaafaaaafaaaafaaaafaaaafaaaafaaaafaaaafaaaafaaaafaaaafaaaafaaaafaaaafaaaafaaaafaaaafaaaafaaaafaaaafaaaafaaaafaaaafaaaafaaaafaaaafaaaafaaaafaaaafaaaafaaaafaaaafaaaafaaaafaaaafaaaafaaaafaaaafaaaafaaaafaaaafaaaafaaaafaaaafaaaafaaaafaaaafaaaafaaaafaaaafaaaafaaaafaaaafaaaafaaaafaaaafaaaafaaaafaaaafaaaafaaaafaaaafaaaafaaaafaaaafaaaafaaaafaaaafaaaafaaaafaaaafaaaafaaaafaaaafaaaafaaaafaaaafaaaafaaaafaaaafaaaafaaaafaaaafaaaafaaaafaaaafaaaafaaaafaaaafaaaafaaaafaaaafaaaafaaaafaaaafaaaafaaaafaaaafaaaafaaaafaaaafaaaafaaaafaaaafaaaafaaaafaaaafaaaafaaaafaaaafaaaafaaaafaaaafaaaafaaaafaaaafaaaafaaaafaaaafaaaafaaaafaaaafaaaafaaaafaaaafaaaafaaaafaaaafaaaafaaaafaaaafaaaafaaaafaaaafaaaafaaaafaaaafaaaafaaaafaaaafaaaafaaaafaaaafaaaafaaaafaaaafaaaafaaaafaaaafaaaafaaaafaaaafaaaafaaaafaaaafaaaafaaaafaaaafaaaafaaaafaaaafaaaafaaaafaaaafaaaafaaaafaaaafaaaafaaaafaaaafaaaafaaaafaaaafaaaafaaaafaaaafaaaafaaaafaaaafaaaafaaaafaaaafaaaafaaaafaaaafaaaafaaaafaaaafaaaafaaaafaaaafaaaafaaaafaaaafaaaafaaaafaaaafaaaafaaaafaaaafaaaafaaaafaaaafaaaafaaaafaaaafaaaafaaaafaaaafaaaafaaaafaaaafaaaafaaaafaaaafaaaafaaaafaaaafaaaafaaaafaaaafaaaafaaaafaaaafaaaafaaaafaaaafaaaafaaaafaaaafaaaafaaaafaaaafaaaafaaaafaaaafaaaafaaaafaaaafaaaafaaaafaaaafaaaafaaaafaaaafaaaafaaaafaaaafaaaafaaaafaaaafaaaafaaaafaaaafaaaafaaaafaaaafaaaafaaaafaaaafaaaafaaaafaaaafaaaafaaaafaaaafaaaafaaaafaaaafaaaafaaaafaaaafaaaafaaaafaaaafaaaafaaaafaaaafaaaafaaaafaaaafaaaafaaaafaaaafaaaafaaaafaaaafaaaafaaaafaaaafaaaafaaaafaaaafaaaafaaaafaaaafaaaafaaaafaaaafaaaafaaaafaaaafaaaafaaaafaaaafaaaafaaaafaaaafaaaafaaaafaaaafaaaafaaaafaaaafaaaafaaaafaaaafaaaafaaaafaaaafaaaafaaaafaaaafaaaafaaaafaaaafaaaafaaaafaaaafaaaafaaaafaaaafaaaafaaaafaaaafaaaafaaaafaaaafaaaafaaaafaaaafaaaafaaaafaaaafaaaafaaaafaaaafaaaafaaaafaaaafaaaafaaaafaaaafaaaafaaaafaaaafaaaafaaaafaaaafaaaafaaaafaaaafaaaafaaaafaaaafaaaafaaaafaaaafaaaafaaaaiiigeiiigeiiigeiiigeiiigeiiigeiiigeiiigeiiigeiiigeiiigeiiigeiiigeiiigeiiigeiiigeiiigeiiigeiiigeiiigeiiigeiiigeiiigeiiigeiiigeiiigeiiigeiiigeiiigeiiigeiiigeiiigeiiigeiiigeiiigeiiigeiiigeiiigeiiigeiiigeiiigeiiigeiiigeiiigeiiigeiiigeiiigeiiigeiiigeiiigeiiigeiiigeiiigeiiigeiiigeiiigeiiigeiiigeiiigeiiigeiiigeiiigeiiigeiiigeiiigeiiigeiiigeiiigeiiigeiiigeiiigeiiigeiiigeiiigeiiigeiiigeiiigeiiigeiiigeiiigefaaaifaaaifaaaifaaaifaaaifaaaifaaaafaaaafaaaafaaaafaaaafaaaafaaaafaaaafaaaafaaaafaaaafaaaafaaaafaaaafaaaafaaaafaaaafaaaafaaaafaaaafaaaafaaaafaaaafaaaafaaaafaaaafaaaafaaaafaaaafaaaafaaaafaaaafaaaafaaaafaaaafaaaafaaaafaaaafaaaafaaaafaaaafaaaafaaaafaaaafaaaafaaaafaaaafaaaafaaaafaaaafaaaafaaaafaaaafaaaafaaaafaaaafaaaafaaaafaaaafaaaafaaaafaaaafaaaafaaaafaaaafaaaafaaaafaaaafaaaafaaaafaaaafaaaafaaaafaaaafaaaafaaaafaaaafaaaafaaaafaaaafaaaafaaaafaaaafaaaafaaaafaaaafaaaafaaaafaaaafaaaafaaaafaaaafaaaafaaaafaaaafaaaafaaaafaaaafaaaafaaaafaaaafaaaafaaaafaaaafaaaafaaaafaaaafaaaafaaaafaaaafaaaafaaaafaaaafaaaafaaaafaaaafaaaafaaaafaaaafaaaafaaaafaaaafaaaafaaaafaaaafaaaafaaaafaaaafaaaafaaaafaaaafaaaafaaaafaaaafaaaafaaaafaaaafaaaafaaaafaaaafaaaafaaaafaaaafaaaafaaaafaaaafaaaafaaaafaaaafaaaafaaaafaaaafaaaafaaaafaaaafaaaafaaaafaaaafaaaafaaaafaaaafaaaafaaaafaaaafaaaafaaaafaaaafaaaafaaaafaaaafaaaafaaaafaaaafaaaafaaaafaaaafaaaafaaaafaaaafaaaafaaaafaaaafaaaafaaaafaaaafaaaafaaaafaaaafaaaafaaaafaaaafaaaafaaaafaaaafaaaafaaaafaaaafaaaafaaaafaaaafaaaafaaaafaaaafaaaafaaaafaaaafaaaafaaaafaaaafaaaafaaaafaaaafaaaafaaaafaaaafaaaafaaaafaaaafaaaafaaaafaaaafaaaafaaaafaaaafaaaafaaaafaaaafaaaafaaaafaaaafaaaafaaaafaaaafaaaafaaaafaaaafaaaafaaaafaaaafaaaafaaaafaaaafaaaafaaaafaaaafaaaafaaaafaaaafaaaafaaaafaaaafaaaafaaaafaaaafaaaafaaaafaaaafaaaafaaaafaaaafaaaafaaaafaaaafaaaafaaaafaaaafaaaafaaaafaaaafaaaafaaaafaaaafaaaafaaaafaaaafaaaafaaaafaaaafaaaafaaaafaaaafaaaafaaaafaaaafaaaafaaaafaaaafaaaafaaaafaaaafaaaafaaaafaaaafaaaafaaaafaaaafaaaafaaaafaaaafaaaafaaaafaaaafaaaafaaaafaaaafaaaafaaaafaaaafaaaafaaaafaaaafaaaafaaaafaaaafaaaafaaaafaaaafaaaafaaaafaaaafaaaafaaaafaaaafaaaafaaaafaaaafaaaafaaaafaaaafaaaafaaaafaaaafaaaafaaaafaaaafaaaafaaaafaaaafaaaafaaaafaaaafaaaafaaaafaaaafaaaafaaaafaaaafaaaafaaaafaaaafaaaafaaaafaaaafaaaafaaaafaaaafaaaafaaaafaaaafaaaafaaaafaaaafaaaafaaaafaaaafaaaafaaaafaaaafaaaafaaaafaaaafaaaafaaaafaaaafaaaafaaaafaaaafaaaafaaaafaaaafaaaafaaaafaaaafaaaafaaaafaaaafaaaafaaaafaaaafaaaafaaaafaaaafaaaafaaaafaaaafaaaafaaaafaaaafaaaafaaaafaaaafaaaafaaaafaaaafaaaafaaaafaaaafaaaafaaaafaaaafaaaafaaaafaaaafaaaafaaaafaaaafaaaafaaaafaaaafaaaafaaaafaaaafaaaafaaaafaaaafaaaafaaaafaaaafaaaafaaaafaaaafaaaafaaaafaaaafaaaafaaaafaaaafaaaafaaaafaaaafaaaafaaaafaaaafaaaafaaaafaaaafaaaafaaaafaaaafaaaafaaaafaaaafaaaafaaaafaaaafaaaafaaaafaaaafaaaafaaaafaaaafaaaafaaaafaaaafaaaafaaaafaaaafaaaafaaaafaaaafaaaafaaaafaaaafaaaafaaaafaaaafaaaafaaaafaaaafaaaafaaaafaaaafaaaafaaaafaaaafaaaafaaaafaaaafaaaafaaaafaaaafaaaafaaaafaaaafaaaafaaaafaaaafaaaafaaaafaaaafaaaafaaaafaaaafaaaafaaaafaaaafaaaafaaaafaaaafaaaafaaaafaaaafaaaafaaaafaaaafaaaafaaaafaaaafaaaafaaaafaaaafaaaafaaaafaaaafaaaafaaaafaaaafaaaafaaaafaaaafaaaafaaaafaaaafaaaafaaaafaaaafaaaafaaaafaaaafaaaafaaaafaaaafaaaafaaaafaaaafaaaafaaaafaaaafaaaafaaaafaaaafaaaafaaaafaaaafaaaafaaaafaaaafaaaafaaaafaaaafaaaafaaaafaaaafaaaafaaaafaaaafaaaafaaaafaaaafaaaafaaaafaaaafaaaafaaaafaaaafaaaafaaaafaaaafaaaafaaaafaaaafaaaafaaaafaaaafaaaafaaaafaaaafaaaafaaaafaaaafaaaafaaaafaaaafaaaafaaaafaaaafaaaafaaaafaaaafaaaafaaaafaaaafaaaafaaaafaaaafaaaafaaaafaaaafaaaafaaaafaaaafaaaafaaaafaaaafaaaafaaaafaaaafaaaafaaaafaaaafaaaafaaaafaaaafaaaafaaaafaaaafaaaafaaaafaaaafaaaafaaaafaaaafaaaafaaaafaaaafaaaafaaaafaaaafaaaafaaaafaaaafaaaafaaaafaaaafaaaafaaaafaaaafaaaafaaaafaaaafaaaafaaaafaaaafaaaafaaaafaaaafaaaafaaaafaaaafaaaafaaaafaaaafaaaafaaaafaaaafaaaafaaaafaaaafaaaafaaaafaaaafaaaafaaaafaaaafaaaafaaaafaaaafaaaafaaaafaaaafaaaafaaaafaaaafaaaafaaaafaaaafaaaafaaaafaaaafaaaafaaaafaaaafaaaafaaaafaaaafaaaafaaaafaaaafaaaafaaaafaaaafaaaafaaaafaaaafaaaafaaaafaaaafaaaafaaaafaaaafaaaafaaaafaaaafaaaafaaaafaaaafaaaafaaaafaaaafaaaafaaaafaaaafaaaafaaaafaaaafaaaafaaaafaaaafaaaafaaaafaaaafaaaafaaaafaaaafaaaafaaaafaaaafaaaafaaaafaaaafaaaafaaaafaaaafaaaafaaaafaaaafaaaafaaaafaaaafaaaafaaaafaaaafaaaafaaaafaaaafaaaafaaaafaaaafaaaafaaaafaaaafaaaafaaaafaaaafaaaafaaaafaaaafaaaafaaaafaaaafaaaafaaaafaaaafaaaafaaaafaaaafaaaafaaaafaaaafaaaafaaaafaaaafaaaafaaaafaaaafaaaafaaaafaaaafaaaafaaaafaaaafaaaafaaaafaaaafaaaafaaaafaaaafaaaafaaaafaaaafaaaafaaaafaaaafaaaafaaaafaaaafaaaafaaaafaaaafaaaafaaaafaaaafaaaafaaaafaaaafaaaafaaaafaaaafaaaafaaaafaaaafaaaafaaaafaaaafaaaafaaaafaaaafaaaafaaaafaaaafaaaafaaaafaaaafaaaafaaaafaaaafaaaafaaaafaaaafaaaafaaaafaaaafaaaafaaaafaaaafaaaafaaaafaaaafaaaafaaaafaaaafaaaafaaaafaaaafaaaafaaaafaaaafaaaafaaaafaaaafaaaafaaaafaaaafaaaafaaaafaaaafaaaafaaaafaaaafaaaafaaaafaaaafaaaafaaaafaaaafaaaafaaaafaaaafaaaafaaaafaaaafaaaafaaaafaaaafaaaafaaaafaaaafaaaafaaaafaaaafaaaafaaaafaaaafaaaafaaaafaaaafaaaafaaaafaaaafaaaafaaaafaaaafaaaafaaaafaaaafaaaafaaaafaaaafaaaafaaaafaaaafaaaafaaaafaaaafaaaafaaaafaaaafaaaafaaaafaaaafaaaafaaaafaaaafaaaafaaaafaaaafaaaafaaaafaaaafaaaafaaaafaaaafaaaafaaaafaaaafaaaafaaaafaaaafaaaafaaaafaaaafaaaafaaaafaaaafaaaafaaaafaaaafaaaafaaaafaaaafaaaafaaaafaaaafaaaafaaaafaaaafaaaafaaaafaaaafaaaafaaaafaaaafaaaafaaaafaaaafaaaafaaaafaaaafaaaafaaaafaaaafaaaafaaaafaaaafaaaafaaaafaaaafaaaafaaaafaaaafaaaafaaaafaaaafaaaafaaaafaaaafaaaafaaaafaaaafaaaafaaaafaaaafaaaafaaaafaaaafaaaafaaaafaaaafaaaafaaaafaaaafaaaafaaaafaaaafaaaafaaaafaaaafaaaafaaaafaaaafaaaafaaaafaaaafaaaafaaaafaaaafaaaafaaaafaaaafaaaafaaaafaaaafaaaafaaaafaaaafaaaafaaaafaaaafaaaafaaaafaaaafaaaafaaaafaaaafaaaafaaaafaaaafaaaafaaaafaaaafaaaafaaaafaaaafaaaafaaaafaaaafaaaafaaaafaaaafaaaafaaaafaaaafaaaafaaaafaaaafaaaafaaaafaaaafaaaafaaaafaaaafaaaafaaaafaaaafaaaafaaaafaaaafaaaafaaaafaaaafaaaafaaaafaaaafaaaafaaaafaaaafaaaafaaaafaaaafaaaafaaaafaaaafaaaafaaaafaaaafaaaafaaaafaaaafaaaafaaaafaaaafaaaafaaaafaaaafaaaafaaaafaaaafaaaafaaaafaaaafaaaafaaaafaaaafaaaafaaaafaaaafaaaafaaaafaaaafaaaafaaaafaaaafaaaafaaaafaaaafaaaafaaaafaaaafaaaafaaaafaaaafaaaafaaaafaaaafaaaafaaaafaaaafaaaafaaaafaaaafaaaafaaaafaaaafaaaafaaaafaaaafaaaafaaaafaaaafaaaafaaaafaaaafaaaafaaaafaaaafaaaafaaaafaaaafaaaafaaaafaaaafaaaafaaaafaaaafaaaafaaaafaaaafaaaafaaaafaaaafaaaafaaaafaaaafaaaafaaaafaaaafaaaafaaaafaaaafaaaafaaaafaaaafaaaafaaaafaaaafaaaafaaaafaaaafaaaafaaaafaaaafaaaafaaaafaaaafaaaafaaaafaaaafaaaafaaaafaaaafaaaafaaaafaaaafaaaafaaaafaaaafaaaafaaaafaaaafaaaafaaaafaaaafaaaafaaaafaaaafaaaafaaaafaaaafaaaafaaaafaaaafaaaafaaaafaaaafaaaafaaaafaaaafaaaafaaaafaaaafaaaafaaaafaaaafaaaafaaaafaaaafaaaafaaaafaaaafaaaafaaaafaaaafaaaafaaaafaaaafaaaafaaaafaaaafaaaafaaaafaaaafaaaafaaaafaaaafaaaafaaaafaaaafaaaafaaaafaaaafaaaafaaaafaaaafaaaafaaaafaaaafaaaafaaaafaaaafaaaafaaaafaaaafaaaafaaaafaaaafaaaafaaaafaaaafaaaafaaaafaaaafaaaafaaaafaaaafaaaafaaaafaaaafaaaafaaaafaaaafaaaafaaaafaaaafaaaafaaaafaaaafaaaafaaaafaaaafaaaafaaaafaaaafaaaafaaaafaaaafaaaafaaaafaaaafaaaafaaaafaaaafaaaafaaaafaaaafaaaafaaaafaaaafaaaafaaaafaaaafaaaafaaaafaaaafaaaafaaaafaaaafaaaafaaaafaaaafaaaafaaaafaaaafaaaafaaaafaaaafaaaafaaaafaaaafaaaafaaaafaaaafaaaafaaaafaaaafaaaafaaaafaaaafaaaafaaaafaaaafaaaafaaaafaaaafaaaafaaaafaaaafaaaafaaaafaaaafaaaafaaaafaaaafaaaafaaaafaaaafaaaafaaaafaaaafaaaafaaaafaaaafaaaafaaaafaaaafaaaafaaaafaaaafaaaafaaaafaaaafaaaafaaaafaaaafaaaafaaaafaaaafaaaafaaaafaaaafaaaafaaaafaaaafaaaafaaaafaaaafaaaafaaaafaaaafaaaafaaaafaaaafaaaafaaaafaaaafaaaafaaaafaaaafaaaafaaaafaaaafaaaafaaaafaaaafaaaafaaaafaaaafaaaafaaaafaaaafaaaafaaaafaaaafaaaafaaaafaaaafaaaafaaaafaaaafaaaafaaaafaaaafaaaafaaaafaaaafaaaafaaaafaaaafaaaafaaaafaaaafaaaafaaaafaaaafaaaafaaaafaaaafaaaafaaaafaaaafaaaafaaaafaaaafaaaafaaaafaaaafaaaafaaaafaaaafaaaafaaaafaaaafaaaafaaaafaaaafaaaafaaaafaaaafaaaafaaaafaaaafaaaafaaaafaaaafaaaafaaaafaaaafaaaafaaaafaaaafaaaafaaaafaaaafaaaafaaaafaaaafaaaafaaaafaaaafaaaafaaaafaaaafaaaafaaaafaaaafaaaafaaaafaaaafaaaafaaaafaaaafaaaafaaaafaaaafaaaafaaaafaaaafaaaafaaaafaaaafaaaafaaaafaaaafaaaafaaaafaaaafaaaafaaaafaaaafaaaafaaaafaaaafaaaafaaaafaaaafaaaafaaaafaaaafaaaafaaaafaaaafaaaafaaaafaaaafaaaafaaaafaaaafaaaafaaaafaaaafaaaafaaaafaaaafaaaafaaaafaaaafaaaafaaaafaaaafaaaafaaaafaaaafaaaafaaaafaaaafaaaafaaaafaaaafaaaafaaaafaaaafaaaafaaaafaaaafaaaafaaaafaaaafaaaafaaaafaaaafaaaafaaaafaaaafaaaafaaaafaaaafaaaafaaaafaaaafaaaafaaaafaaaafaaaafaaaafaaaafaaaafaaaafaaaafaaaafaaaafaaaafaaaafaaaafaaaafaaaafaaaafaaaafaaaafaaaafaaaafaaaafaaaafaaaafaaaafaaaafaaaafaaaafaaaafaaaafaaaafaaaafaaaafaaaafaaaafaaaafaaaafaaaafaaaafaaaafaaaafaaaafaaaafaaaafaaaafaaaafaaaafaaaafaaaafaaaafaaaafaaaafaaaafaaaafaaaafaaaafaaaafaaaafaaaafaaaafaaaafaaaafaaaafaaaafaaaafaaaafaaaafaaaafaaaafaaaafaaaafaaaafaaaafaaaafaaaafaaaafaaaafaaaafaaaafaaaafaaaafaaaafaaaafaaaafaaaafaaaafaaaafaaaafaaaafaaaafaaaafaaaafaaaafaaaafaaaafaaaafaaaafaaaafaaaafaaaafaaaafaaaafaaaafaaaafaaaafaaaafaaaafaaaafaaaafaaaafaaaafaaaafaaaafaaaafaaaafaaaafaaaafaaaafaaaafaaaafaaaafaaaafaaaafaaaafaaaafaaaafaaaafaaaafaaaafaaaafaaaafaaaafaaaafaaaafaaaafaaaafaaaafaaaafaaaafaaaafaaaafaaaafaaaafaaaafaaaafaaaafaaaafaaaafaaaafaaaafaaaafaaaafaaaafaaaafaaaafaaaafaaaafaaaafaaaafaaaafaaaafaaaafaaaafaaaafaaaafaaaafaaaafaaaafaaaafaaaafaaaafaaaafaaaafaaaafaaaafaaaafaaaafaaaafaaaafaaaafaaaafaaaafaaaafaaaafaaaafaaaafaaaafaaaafaaaafaaaafaaaafaaaafaaaafaaaafaaaafaaaafaaaafaaaafaaaafaaaafaaaafaaaafaaaafaaaafaaaafaaaafaaaafaaaafaaaafaaaafaaaafaaaafaaaafaaaafaaaafaaaafaaaafaaaafaaaafaaaafaaaafaaaafaaaafaaaafaaaafaaaafaaaafaaaafaaaafaaaafaaaafaaaafaaaafaaaafaaaafaaaafaaaafaaaafaaaafaaaafaaaafaaaafaaaafaaaafaaaafaaaafaaaafaaaafaaaafaaaafaaaafaaaafaaaafaaaafaaaafaaaafaaaafaaaafaaaafaaaafaaaafaaaafaaaafaaaafaaaafaaaafaaaafaaaafaaaafaaaafaaaafaaaafaaaafaaaafaaaafaaaafaaaafaaaafaaaafaaaafaaaafaaaafaaaafaaaafaaaafaaaafaaaafaaaafaaaafaaaafaaaafaaaafaaaafaaaafaaaafaaaafaaaafaaaafaaaafaaaafaaaafaaaafaaaafaaaafaaaafaaaafaaaafaaaafaaaafaaaafaaaafaaaafaaaafaaaafaaaafaaaafaaaafaaaafaaaafaaaafaaaafaaaafaaaafaaaafaaaafaaaafaaaafaaaafaaaafaaaafaaaafaaaafaaaafaaaafaaaafaaaafaaaafaaaafaaaafaaaafaaaafaaaafaaaafaaaafaaaafaaaafaaaafaaaafaaaafaaaafaaaafaaaafaaaafaaaafaaaafaaaafaaaafaaaafaaaafaaaafaaaafaaaafaaaafaaaafaaaafaaaafaaaafaaaafaaaafaaaafaaaafaaaafaaaafaaaafaaaafaaaafaaaafaaaafaaaafaaaafaaaafaaaafaaaafaaaafaaaafaaaafaaaafaaaafaaaafaaaafaaaafaaaafaaaafaaaafaaaafaaaafaaaafaaaafaaaafaaaafaaaafaaaafaaaafaaaafaaaafaaaafaaaafaaaafaaaafaaaafaaaafaaaafaaaafaaaafaaaafaaaafaaaafaaaafaaaafaaaafaaaafaaaafaaaafaaaafaaaafaaaafaaaafaaaafaaaafaaaafaaaafaaaafaaaafaaaafaaaafaaaafaaaafaaaafaaaafaaaafaaaafaaaafaaaafaaaafaaaafaaaafaaaafaaaafaaaafaaaafaaaafaaaafaaaafaaaafaaaafaaaafaaaafaaaafaaaafaaaafaaaafaaaafaaaafaaaafaaaafaaaafaaaafaaaafaaaafaaaafaaaafaaaafaaaafaaaafaaaafaaaafaaaafaaaafaaaafaaaafaaaafaaaafaaaafaaaafaaaafaaaafaaaafaaaafaaaafaaaafaaaafaaaafaaaafaaaafaaaafaaaafaaaafaaaafaaaafaaaafaaaafaaaafaaaafaaaafaaaafaaaafaaaafaaaafaaaafaaaafaaaafaaaafaaaafaaaafaaaafaaaafaaaafaaaafaaaafaaaafaaaafaaaafaaaafaaaafaaaafaaaafaaaafaaaafaaaafaaaafaaaafaaaafaaaafaaaafaaaafaaaafaaaafaaaafaaaafaaaafaaaafaaaafaaaafaaaafaaaafaaaafaaaafaaaafaaaafaaaafaaaafaaaafaaaafaaaafaaaafaaaafaaaafaaaafaaaafaaaafaaaafaaaafaaaafaaaafaaaafaaaafaaaafaaaafaaaafaaaafaaaafaaaafaaaafaaaafaaaafaaaafaaaafaaaafaaaafaaaafaaaafaaaafaaaafaaaafaaaafaaaafaaaafaaaafaaaafaaaafaaaafaaaafaaaafaaaafaaaafaaaafaaaafaaaafaaaafaaaafaaaafaaaafaaaafaaaafaaaafaaaafaaaafaaaafaaaafaaaafaaaafaaaafaaaafaaaafaaaafaaaafaaaafaaaaedhhiedhhjedhiiedhjaedhjaedhijedhjgedicafaaaafaaaafaaaafaaaafaaaafaaaafaaaafaaaaegjjcegjjcegjjcegjjcegjjcegjjcegjjcegjjcegjjcegjjcegjjcegjjcegjjcegjjcegjjcegjjcegjjcegjjcegjjcegjjcegjjcegjjcegjjcegjjcegjjcegjjcegjjcegjjcegjjcegjjcegjjcegjjcegjjcegjjcegjjcegjjcegjjcegjjcegjjcegjjcegjjcegjjcegjjcfaaaafaaaaegjjcegjjcegjjcfaaaafaaaafaaaafaaaafaaaafaaaafaaaafaaaafaaaafaaaafaaaafaaaafaaaafaaaafaaaafaaaafaaaafaaaafaaaafaaaafaaaafaaaafaaaafaaaafaaaafaaaafaaaafaaaafaaaafaaaafaaaafaaaafaaaafaaaafaaaafaaaafaaaafaaaafaaaafaaaafaaaafaaaafaaaafaaaafaaaafaaaafaaaafaaaafaaaafaaaafaaaafaaaafaaaafaaaafaaaafaaaafaaaafaaaafaaaafaaaafaaaafaaaafaaaafaaaafaaaafaaaafaaaafaaaafaaaafaaaafaaaafaaaafaaaafaaaafaaaafaaaafaaaafaaaafaaaafaaaafaaaafaaaafaaaafaaaafaaaafaaaafaaaafaaaafaaaafaaaafaaaafaaaafaaaafaaaafaaaafaaaafaaaafaaaafaaaafaaaafaaaafaaaafaaaafaaaafaaaafaaaafaaaafaaaafaaaafaaaafaaaafaaaafaaaafaaaafaaaafaaaafaaaafaaaafaaaafaaaafaaaafaaaafaaaafaaaafaaaafaaaafaaaafaaaafaaaafaaaafaaaafaaaafaaaafaaaafaaaafaaaafaaaafaaaafaaaafaaaafaaaafaaaafaaaafaaaafaaaafaaaafaaaafaaaafaaaafaaaafaaaafaaaafaaaafaaaafaaaafaaaafaaaafaaaafaaaafaaaafaaaafaaaafaaaafaaaafaaaafaaaafaaaafaaaafaaaafaaaafaaaafaaaafaaaafaaaafaaaafaaaafaaaafaaaafaaaafaaaafaaaafaaaafaaaafaaaafaaaafaaaafaaaafaaaafaaaafaaaafaaaafaaaafaaaafaaaafaaaafaaaafaaaafaaaafaaaafaaaafaaaafaaaafaaaafaaaafaaaafaaaafaaaafaaaafaaaafaaaafaaaafaaaafaaaafaaaafaaaafaaaafaaaafaaaafaaaafaaaafaaaafaaaafaaaafaaaafaaaafaaaafaaaafaaaafaaaafaaaafaaaafaaaafaaaafaaaafaaaafaaaafaaaafaaaafaaaafaaaafaaaafaaaafaaaafaaaafaaaafaaaafaaaafaaaafaaaafaaaafaaaafaaaafaaaafaaaafaaaafaaaafaaaafaaaafaaaafaaaafaaaafaaaafaaaafaaaafaaaafaaaafaaaafaaaafaaaafaaaafaaaafaaaafaaaafaaaafaaaafaaaafaaaafaaaafaaaafaaaafaaaafaaaafaaaafaaaafaaaafaaaafaaaafaaaafaaaafaaaafaaaafaaaafaaaafaaaafaaaafaaaafaaaafaaaafaaaafaaaafaaaafaaaafaaaafaaaafaaaafaaaafaaaafaaaafaaaafaaaafaaaafaaaafaaaafaaaafaaaafaaaafaaaafaaaafaaaafaaaafaaabfaaaafaaabfaaaafaaabfaaaafaaabfaaaafaaabfaaaafaaabfaaaafaaabfaaaafaaabfaaaafaaabfaaaafaaabfaaaafaaabfaaaafaaabfaaaafaaabfaaaafaaabfaaaafaaabfaaaafaaabfaaaafaaabfaaaafaaabfaaaafaaabfaaaafaaabfaaaafaaabfaaaafaaabfaaaafaaabfaaaafaaabfaaaafaaabfaaaafaaabfaaaafaaabfaaaafaaabfaaaafaaabfaaaafaaabfaaaafaaabfaaaafaaabfaaaafaaabfaaaafaaabfaaaafaaabfaaaafaaabfaaaafaaabfaaaafaaabfaaaafaaabfaaaafaaabfaaaafaaabfaaaafaaabfaaaafaaabfaaaafaaabfaaaafaaabfaaaafaaabfaaaafaaabfaaaafaaabfaaaafaaabfaaaafaaabfaaaafaaabfaaaafaaabfaaaafaaabfaaaafaaabfaaaafaaabfaaaafaaabfaaaafaaabfaaaafaaabfaaaafaaabfaaaafaaabfaaaafaaabfaaaafaaabfaaaafaaabfaaaafaaabfaaaafaaabfaaaafaaabfaaaafaaabfaaaafaaabfaaaafaaabfaaaafaaabfaaaafaaabfaaaafaaabfaaaafaaabfaaaafaaabfaaaafaaabfaaaafaaaafaaaafaaaafaaaafaaaaejjecfaaaafaaaaecdiffaaaafaaabfaaaafaaabfaaaafaaabfaaaafaaabfaaaafaaabfaaaafaaabfaaaafaaabfaaaafaaabfaaaafaaabfaaaafaaabfaaaafaaabfaaaafaaabfaaaafaaabfaaaafaaabfaaaafaaabfaaaafaaabfaaaafaaabfaaaafaaabfaaaafaaabfaaaafaaabfaaaafaaabfaaaafaaabfaaaafaaabfaaaafaaabfaaaafaaabfaaaafaaabfaaaafaaabfaaaafaaabfaaaafaaabfaaaafaaabfaaaafaaabfaaaafaaabfaaaafaaabfaaaafaaabfaaaafaaabfaaaafaaabfaaaafaaabfaaaafaaabfaaaafaaabfaaaafaaabfaaaafaaabfaaaafaaabfaaaafaaabfaaaafaaabfaaaafaaabfaaaafaaabfaaaafaaabfaaaafaaabfaaaafaaaafaaaafaaaafaaaafaaaafaaaafaaaafaaaaejjjcejjjcejjjcejjjcejjjcejjjcejjjcejjjcfaaaafaaaafaaaafaaaafaaaafaaaafaaaafaaaaejjjcejjjcejjjcejjjcejjjcejjjcfaaaafaaaafaaaafaaaafaaaafaaaafaaaafaaaafaaaafaaaaejjjcejjjcejjjcejjjcejjjcejjjcejjjcejjjcfaaaafaaaafaaaafaaaafaaaafaaaafaaaafaaaaejjjcejjjcejjjcejjjcejjjcejjjcejjjcejjjcfaaaafaaaafaaaafaaaafaaaafaaaafaaaafaaaaejjjcejjjcejjjcejjjcejjjcejjjcfaaaafaaaafaaaafaaaafaaaafaaaafaaaafaaaafaaaafaaaafaaaaejjjcfaaaaejjjcfaaaaejjjcfaaaaejjjcfaaaafaaaafaaaafaaaafaaaafaaaafaaaafaaaaejjjcejjjcejjjcejjjcejjjcejjjcejjjcejjjcfaaaafaaaafaaaafaaaafaaaafaaaafaaaafaaaafaaaafaaaafaaaafaaaafaaaafaaaafaaaafaaaafaaaafaaaafaaaafaaaafaaaafaaaafaaaafaaaaejjjcejjjcejjjcejjjcejjjcejjjcejjjcejjjcfaaaafaaaafaaaafaaaafaaaafaaaafaaaafaaaaejjjcejjjcejjjcejjjcejjjcejjjcejjjcejjjcfaaaafaaaafaaaafaaaafaaaafaaaafaaaafaaaaejjjcejjjcejjjcejjjcejjjcejjjcejjjcejjjcfaaaafaaaafaaaafaaaafaaaafaaaafaaaafaaaaejjjcejjjcejjcgejjcgejjjbfaaaaechbbfaaaafaaaafaaaafaaaafaaaafaaaafaaaafaaaafaaaaejjbeejjbeejjbeejjbeejjjbfaaaafaaaafaaaafaaaafaaaafaaaaechgffaaaafaaaafaaaafaaaaejjjcejjjcejjaaejjaafaaaafaaaafaaaafaaaafaaaafaaaafaaaaechibfaaaafaaaafaaaafaaaaejjjcejjjcejiiiejiiiejjjdfaaaafaaaafaaaafaaaafaaaafaaaafaaaafaaaafaaaafaaaafaaaaejihcejihcejiheejiheejjjbfaaaafaaaafaaaafaaaafaaaafaaaafaaaafaaaafaaaafaaaafaaaafaaaafaaaafaaaafaaaafaaaafaaaafaaaafaaaafaaaafaaaafaaaafaaaafaaaafaaaafaaaafaaaafaaaafaaaafaaaafaaaafaaaafaaaafaaaafaaaafaaaafaaaafaaaafaaaafaaaafaaaafaaaafaaaafaaaafaaaafaaaafaaaafaaaafaaaafaaaafaaaafaaaafaaaafaaaafaaaafaaaafaaaafaaaafaaaafaaaafaaaafaaaafaaaafaaaafaaaafaaaafaaaafaaaafaaaafaaaafaaaafaaaafaaaafaaaafaaaafaaaafaaaafaaaafaaaafaaaafaaaafaaaafaaaafaaaafaaaafaaaafaaaafaaaafaaaafaaaafaaaafaaaafaaaafaaaafaaaafaaaafaaaafaaaafaaaafaaaafaaaafaaaafaaaafaaaafaaaafaaaafaaaafaaaafaaaafaaaafaaaafaaaafaaaafaaaafaaaafaaaafaaaafaaaafaaaafaaaafaaaafaaaafaaaafaaaafaaaafaaaafaaaafaaaafaaaafaaaafaaaafaaaafaaaafaaaafaaaafaaaafaaaafaaaafaaaafaaaafaaaafaaaafaaaafaaaafaaaafaaaafaaaafaaaafaaaafaaaafaaaafaaaafaaaafaaaafaaaafaaaafaaaafaaaafaaaafaaaafaaaafaaaafaaaafaaaafaaaafaaaafaaaafaaaafaaaafaaaafaaaafaaaafaaaafaaaafaaaafaaaafaaaafaaaafaaaafaaaafaaaafaaaafaaaafaaaafaaaafaaaafaaaafaaaafaaaafaaaafaaaafaaaafaaaafaaaafaaaafaaaafaaaafaaaafaaaafaaaafaaaafaaaafaaaafaaaafaaaafaaaafaaaafaaaafaaaafaaaafaaaafaaaafaaaafaaaafaaaafaaaafaaaafaaaafaaaafaaaafaaaafaaaafaaaafaaaafaaaafaaaafaaaafaaaafaaaafaaaafaaaafaaaafaaaafaaaafaaaafaaaafaaaafaaaafaaaafaaaafaaaafaaaafaaaafaaaafaaaafaaaafaaaafaaaafaaaafaaaafaaaafaaaafaaaafaaaafaaaafaaaafaaaafaaaafaaaafaaaafaaaafaaaafaaaafaaaafaaaafaaaafaaaafaaaafaaaafaaaafaaaafaaaafaaaafaaaafaaaafaaaafaaaafaaaafaaaafaaaafaaaafaaaafaaaafaaaafaaaafaaaafaaaafaaaafaaaafaaaafaaaafaaaafaaaafaaaafaaaafaaaafaaaaeceidfaaaafaaaafaaaaebgbhebhdifaaaafaaaafaaaafaaaafaaaafaaaafaacifaaaafaaaafaaaafaaaafaaaafaaaafaaaafaaaafaaaafaaaafaaaafaaaafaaaafaaaafaaaafaaaafaaaafaaaafaaaafaaaafaaaafaaaafaaaafaaaafaaaafaaaafaaaafaaaafaaaafaaaafaaaafaaaafaaaafaaaafaaaafaaaafaaaafaaaafaaaafaaaafaaaafaaaafaaaafaaaafaaaafaabgfaabgfaabgfaabgfaabgfaabgfaabgfaabgfaabgfaabgfaabgfaabgfaabgfaabgfaabgfaabgfaaaafaaaafaaaafaaaafaaaafaaaafaaaafaaaafaaaafaaaafaaaafaaaafaaaafaaaafaaaafaaaafaaaafaaaafaaaafaaabfaaaafaaaafaaaafaaaafaaaafaaaafaaaafaaaafaaaafaaaafaaaafaaaafaaaafaaaafaaaafaaaafaaaafaaaafaaaafaaaafaaaafaaaafaaaafaaaafaaaafaaaafaaaafaaaafaaaafaaaafaaaafaaaafaaaafaaaafaaaafaaaafaaaafaaaafaaaafaaaafaaaafaaaafaaaafaaaafaaaafaaaafaaaafaaaafaaaafaaaafaaaafaaaafaaaafaaaafaaaafaaaafaaaafaaaafaaaafaaaafaaaafaaaafaaaafaaaafaaaafaaaafaaaafaaaafaaaafaaaafaaaafaaaafaaaafaaaafaaaafaaaafaaaafaaaafaaaafaaaafaaaafaaaafaaaafaaaafaaaafaaaafaaaafaaaafaaaafaaaafaaaafaaaafaaaafaaaafaaaafaaaafaaaafaaaafaaaafaaaafaaaafaaaafaaaafaaaafaaaafaaaafaaaafaaaafaaaafaaaafaaaafaaaafaaaafaaaafaaaafaaaafaaaafaaaafaaaafaaaafaaaafaaaafaaaafaaaafaaaafaaaafaaaafaaaafaaaafaaaafaaaafaaaafaaaafaaaafaaaafaaaafaaaafaaaafaaaafaaaafaaaafaaaafaaaafaaaafaaaafaaaafaaaafaaaafaaaafaaaafaaaafaaaafaaaafaaaafaaaafaaaafaaaafaaaafaaaafaaaafaaaafaaaafaaaafaaaafaaaafaaaafaaaafaaaafaaaafaaaafaaaafaaaafaaaafaaaafaaaafaaaafaaaafaaaafaaaafaaaafaaaafaaaafaaaafaaaafaaaafaaaafaaaafaaaafaaaafaaaafaaaafaaaafaaaafaaaafaaaafaaaafaaaafaaaafaaaafaaaafaaaafaaaafaaaafaaaafaaaafaaaafaaaafaaaafaaaafaaaafaaaafaaaafaaaafaaaafaaaafaaaafaaaafaaaafaaaafaaaafaaaafaaaafaaaafaaaafaaaafaaaafaaaafaaaafaaaafaaaafaaaafaaaafaaaafaaaafaaaafaaaafaaaafaaaafaaaafaaaafaaaafaaaafaaaafaaaafaaaafaaaafaaaafaaaafaaaafaaaafaaaafaaaafaaaafaaaafaaaafaaaafaaaafaaaafaaaafaaaafaaaafaaaafaaaafaaaafaaaafaaaafaaaafaaaafaaaafaaaafaaaafaaaafaaaafaaaafaaaafaaaafaaaafaaaafaaaafaaaafaaaafaaaafaaaafaaaafaaaafaaaafaaaafaaaafaaaafaaaafaaaafaaaafaaaafaaaafaaaafaaaafaaaafaaaafaaaafaaaafaaaafaaaafaaaafaaaafaaaafaaaafaaaafaaaafaaaafaaaafaaaafaaaafaaaafaaaafaaaafaaaafaaaafaaaafaaaafaaaafaaaafaaaafaaaafaaaafaaaafaaaafaaaafaaaafaaaafaaaafaaaafaaaafaaaafaaaafaaaafaaaafaaaafaaaafaaaafaaaafaaaafaaaafaaaafaaaafaaaafaaaafaaaafaaaafaaaafaaaafaaaafaaaafaaaafaaaafaaaafaaaafaaaafaaaafaaaafaaaafaaaafaaaafaaaafaaaafaaaafaaaafaaaafaaaafaaaafaaaafaaaafaaaafaaaafaaaafaaaafaaaafaaaafaaaafaaaafaaaafaaaafaaaafaaaafaaaafaaaafaaaafaaaafaaaafaaaafaaaafaaaafaaaafaaaafaaaafaaaafaaaafaaaafaaaafaaaafaaaafaaaafaaaafaaaafaaaafaaaafaaaafaaaafaaaafaaaafaaaafaaaafaaaafaaaafaaaafaaaafaaaafaaaafaaaafaaaafaaaafaaaafaaaafaaaafaaaafaaaafaaaafaaaafaaaafaaaafaaaafaaaafaaaafaaaafaaaafaaaafaaaafaaaafaaaafaaaafaaaafaaaafaaaafaaaafaaaafaaaafaaaafaaaafaaaafaaaafaaaafaaaafaaaafaaaafaaaafaaaafaaaafaaaafaaaafaaaafaaaafaaaafaaaafaaaafaaaafaaaafaaaafaaaafaaaafaaaafaaaafaaaafaaaafaaaafaaaafaaaafaaaafaaaafaaaafaaaafaaaafaaaafaaaafaaaafaaaafaaaafaaaafaaaafaaaafaaaafaaaafaaaafaaaafaaaafaaaafaaaafaaaafaaaafaaaafaaaafaaaafaaaafaaaafaaaafaaaafaaaafaaaafaaaafaaaafaaaafaaaafaaaafaaaafaaaafaaaafaaaafaaaafaaaafaaaafaaaafaaaafaaaafaaaafaaaafaaaafaaaafaaaafaaaafaaaafaaaafaaaafaaaafaaaafaaaafaaaafaaaafaaaafaaaafaaaafaaaafaaaafaaaafaaaafaaaafaaaafaaaafaaaafaaaafaaaafaaaafaaaafaaaafaaaafaaaafaaaafaaaafaaaafaaaafaaaafaaaafaaaafaaaafaaaafaaaafaaaafaaaafaaaafaaaafaaaafaaaafaaaafaaaafaaaafaaaafaaaafaaaafaaaafaaaafaaaafaaaafaaaafaaaafaaaafaaaafaaaafaaaafaaaafaaaafaaaafaaaafaaaafaaaafaaaafaaaafaaaafaaaafaaaafaaaafaaaafaaaafaaaafaaaafaaaafaaaafaaaafaaaafaaaafaaaafaaaafaaaafaaaafaaaafaaaafaaaafaaaafaaaafaaaafaaaafaaaafaaaafaaaafaaaafaaaafaaaafaaaafaaaafaaaafaaaafaaaafaaaafaaaafaaaafaaaafaaaafaaaafaaaafaaaafaaaafaaaafaaaafaaaafaaaafaaaafaaaafaaaafaaaafaaaafaaaafaaaafaaaafaaaafaaaafaaaafaaaafaaaafaaaafaaaafaaaafaaaafaaaafaaaafaaaafaaaafaaaafaaaafaaaafaaaafaaaafaaaafaaaafaaaafaaaafaaaafaaaafaaaafaaaafaaaafaaaafaaaafaaaafaaaafaaaafaaaafaaaafaaaafaaaafaaaafaaaafaaaafaaaafaaaafaaaafaaaafaaaafaaaafaaaafaaaafaaaafaaaafaaaafaaaafaaaafaaaafaaaafaaaafaaaafaaaafaaaafaaaafaaaafaaaafaaaafaaaafaaaafaaaafaaaafaaaafaaaafaaaafaaaafaaaafaaaafaaaafaaaafaaaafaaaafaaaafaaaafaaaafaaaafaaaafaaaafaaaafaaaafaaaafaaaafaaaafaaaafaaaafaaaafaaaafaaaafaaaafaaaafaaaafaaaafaaaafaaaafaaaafaaaafaaaafaaaafaaaafaaaafaaaafaaaafaaaafaaaafaaaafaaaafaaaafaaaafaaaafaaaafaaaafaaaafaaaafaaaafaaaafaaaafaaaafaaaafaaaafaaaafaaaafaaaafaaaafaaaafaaaafaaaafaaaafaaaafaaaafaaaafaaaafaaaafaaaafaaaafaaaafaaaafaaaafaaaafaaaafaaaafaaaafaaaafaaaafaaaafaaaafaaaafaaaafaaaafaaaafaaaafaaaafaaaafaaaafaaaafaaaafaaaafaaaafaaaafaaaafaaaafaaaafaaaafaaaafaaaafaaaafaacgfaacgfaacgfaacgfaacgfaacgfaacgfaacgfaacgfaacgfaacgfaacgfaacgfaacgfaacgfaacgfaacgfaacgfaacgfaacgfaacgfaacgfaacgfaacgfaacgfaacgfaaaafaaaafaaaafaaaafaaaafaaaafaaaafaaaafaaaafaaaafaaaafaaaafaaaafaaaafaaaafaaaafaaaafaaaafaaaafaaaafaaaafaaaafaaaafaaaafaaaafaaaafaaaafaaaafaaaafaaaafaaaafaaaafaaaafaaaafaaaafaaaafaaaafaaaafaaaafaaaafaaaafaaaafaaaafaaaafaaaafaaaafaaaafaaaafaaaafaaaafaaaafaaaafaaaafaaaafaaaafaaaafaaaafaaaafaaaafaaaafaaaafaaaafaaaafaaaafaaaafaaaafaaaafaaaafaaaafaaaafaaaafaaaafaaaafaaaafaaaafaaaafaaaafaaaafaaaafaaaafaaaafaaaafaaaafaaaafaaaafaaaafaaaafaaaafaaaafaaaafaaaafaaaafaaaafaaaafaaaafaaaafaaaafaaaafaaaafaaaafaaaafaaaafaaaafaaaafaaaafaaaafaaaafaaaafaaaafaaaafaaaafaaaafaaaafaaaafaaaafaaaafaaaafaaaafaaaafaaaafaaaafaaaafaaaafaaaafaaaafaaaafaaaafaaaafaaaafaaaafaaaafaaaafaaaafaaaafaaaafaaaafaaaafaaaafaaaafaaaafaaaafaaaafaaaafaaaafaaaafaaaafaaaafaaaafaaaafaaaafaaaafaaaafaaaafaaaafaaaafaaaafaaaafaaaafaaaafaaaafaaaafaaaafaaaafaaaafaaaafaaaafaaaafaaaafaaaafaaaafaaaafaaaafaaaafaaaafaaaafaaaafaaaafaaaafaaaafaaaafaaaafaaaafaaaafaaaafaaaafaaaafaaaafaaaafaaaafaaaafaaaafaaaafaaaafaaaafaaaafaaaafaaaafaaaafaaaafaaaafaaaafaaaafaaaafaaaafaaaafaaaafaaaafaaaafaaaafaaaafaaaafaaaafaaaafaaaafaaaafaaaafaaaafaaaafaaaafaaaafaaaafaaaafaaaafaaaafaaaafaaaafaaaafaaaafaaaafaaaafaaaafaaaafaaaafaaaafaaaafaaaafaaaafaaaafaaaafaaaafaaaafaaaafaaaafaaaafaaaafaaaafaaaafaaaafaaaafaaaafaaaafaaaafaaaafaaaafaaaafaaaafaaaafaaaafaaaafaaaafaaaafaaaafaaaafaaaafaaaafaaaafaaaafaaaafaaaafaaaafaaaafaaaafaaaafaaaafaaaafaaaafaaaafaaaafaaaafaaaafaaaafaaaafaaaafaaaafaaaafaaaafaaaafaaaafaaaafaaaafaaaafaaaafaaaafaaaafaaaafaaaafaaaafaaaafaaaafaaaafaaaafaaaafaaaafaaaafaaaafaaaafaaaafaaaafaaaafaaaafaaaafaaaafaaaafaaaafaaaafaaaafaaaafaaaafaaaafaaaafaaaafaaaafaaaafaaaafaaaafaaaafaaaafaaaafaaaafaaaafaaaafaaaafaaaafaaaafaaaafaaaafaaaafaaaafaaaafaaaafaaaafaaaafaaaafaaaafaaaafaaaafaaaafaaaafaaaafaaaafaaaafaaaafaaaafaaaafaaaafaaaafaaaafaaaafaaaafaaaafaaaafaaaafaaaafaaaafaaaafaaaafaaaafaaaafaaaafaaaafaaaafaaaafaaaafaaaafaaaafaaaafaaaafaaaafaaaafaaaafaaaafaaaafaaaafaaaafaaaafaaaafaaaafaaaafaaaafaaaafaaaafaaaafaaaafaaaafaaaafaaaafaaaafaaaafaaaafaaaafaaaafaaaafaaaafaaaafaaaafaaaafaaaafaaaafaaaafaaaafaaaafaaaafaaaafaaaafaaaafaaaafaaaafaaaafaaaafaaaafaaaafaaaafaaaafaaaafaaaafaaaafaaaafaaaafaaaafaaaafaaaafaaaafaaaafaaaafaaaafaaaafaaaafaaaafaaaafaaaafaaaafaaaafaaaafaaaafaaaafaaaafaaaafaaaafaaaafaaaafaaaafaaaafaaaafaaaafaaaafaaaafaaaafaaaafaaaafaaaafaaaafaaaafaaaafaaaafaaaafaaaafaaaafaaaafaaaafaaaafaaaafaaaafaaaafaaaafaaaafaaaafaaaafaaaafaaaafaaaafaaaafaaaafaaaafaaaafaaaafaaaafaaaafaaaafaaaafaaaafaaaafaaaafaaaafaaaafaaaafaaaafaaaafaaaafaaaafaaaafaaaafaaaafaaaafaaaafaaaafaaaafaaaafaaaafaaaafaaaafaaaafaaaafaaaafaaaafaaaafaaaafaaaafaaaafaaaafaaaafaaaafaaaafaaaafaaaafaaaafaaaafaaaafaaaafaaaafaaaafaaaafaaaafaaaafaaaafaaaafaaaafaaaafaaaafaaaafaaaafaaaafaaaafaaaafaaaafaaaafaaaafaaaafaaaafaaaafaaaafaaaafaaaafaaaafaaaafaaaafaaaafaaaafaaaafaaaafaaaafaaaafaaaafaaaafaaaafaaaafaaaafaaaafaaaafaaaafaaaafaaaafaaaafaaaafaaaafaaaafaaaafaaaafaaaafaaaafaaaafaaaafaaaafaaaafaaaafaaaafaaaafaaaafaaaafaaaafaaaafaaaafaaaafaaaafaaaafaaaafaaaafaaaafaaaafaaaafaaaafaaaafaaaafaaaafaaaafaaaafaaaafaaaafaaaafaaaafaaaafaaaafaaaafaaaafaaaafaaaafaaaafaaaafaaaafaaaafaaaafaaaafaaaafaaaafaaaafaaaafaaaafaaaafaaaafaaaafaaaafaaaafaaaafaaaafaaaafaaaafaaaafaaaafaaaafaaaafaaaafaaaafaaaafaaaafaaaafaaaafaaaafaaaafaaaafaaaafaaaafaaaafaaaafaaaafaaaafaaaafaaaafaaaafaaaafaaaafaaaafaaaafaaaafaaaafaaaafaaaafaaaafaaaafaaaafaaaafaaaafaaaafaaaafaaaafaaaafaaaafaaaafaaaafaaaafaaaafaaaafaaaafaaaafaaaafaaaafaaaafaaaafaaaafaaaafaaaafaaaafaaaafaaaafaaaafaaaafaaaafaaaafaaaafaaaafaaaafaaaafaaaafaaaafaaaafaaaafaaaafaaaafaaaafaaaafaaaafaaaafaaaafaaaafaaaafaaaafaaaafaaaafaaaafaaaafaaaafaaaafaaaafaaaafaaaafaaaafaaaafaaaafaaaafaaaafaaaafaaaafaaaafaaaafaaaafaaaafaaaafaaaafaaaafaaaafaaaafaaaafaaaafaaaafaaaafaaaafaaaafaaaafaaaafaaaafaaaafaaaafaaaafaaaafaaaafaaaafaaaafaaaafaaaafaaaafaaaafaaaafaaaafaaaafaaaafaaaafaaaafaaaafaaaafaaaafaaaafaaaafaaaafaaaafaaaafaaaafaaaafaaaafaaaafaaaafaaaafaaaafaaaafaaaafaaaafaaaafaaaafaaaafaaaafaaaafaaaafaaaafaaaafaaaafaaaafaaaafaaaafaaaafaaaafaaaafaaaafaaaafaaaafaaaafaaaafaaaafaaaafaaaafaaaafaaaafaaaafaaaafaaaafaaaafaaaafaaaafaaaafaaaafaaaafaaaafaaaafaaaafaaaafaaaafaaaafaaaafaaaafaaaafaaaafaaaafaaaafaaaafaaaafaaaafaaaafaaaafaaaafaaaafaaaafaaaafaaaafaaaafaaaafaaaafaaaafaaaafaaaafaaaafaaaafaaaafaaaafaaaafaaaafaaaafaaaafaaaafaaaafaaaafaaaafaaaafaaaafaaaafaaaafaaaafaaaafaaaafaaaafaaaafaaaafaaaafaaaafaaaafaaaafaaaafaaaafaaaafaaaafaaaafaaaafaaaafaaaafaaaafaaaafaaaafaaaafaaaafaaaafaaaafaaaafaaaafaaaafaaaafaaaafaaaafaaaafaaaafaaaafaaaafaaaafaaaafaaaafaaaafaaaafaaaafaaaafaaaafaaaafaaaafaaaafaaaafaaaafaaaafaaaafaaaafaaaafaaaafaaaafaaaafaaaafaaaafaaaafaaaafaaaafaaaafaaaafaaaafaaaafaaaafaaaafaaaafaaaafaaaafaaaafaaaafaaaafaaaafaaaafaaaafaaaafaaaafaaaafaaaafaaaafaaaafaaaafaaaafaaaafaaaafaaaafaaaafaaaafaaaafaaaafaaaafaaaafaaaafaaaafaaaafaaaafaaaafaaaafaaaafaaaafaaaafaaaafaaaafaaaafaaaafaaaafaaaafaaaafaaaafaaaafaaaafaaaafaaaafaaaafaaaafaaaafaaaafaaaafaaaafaaaafaaaafaaaafaaaafaaaafaaaafaaaafaaaafaaaafaaaafaaaafaaaafaaaafaaaafaaaafaaaafaaaafaaaafaaaafaaaafaaaafaaaafaaaafaaaafaaaafaaaafaaaafaaaafaaaafaaaafaaaafaaaafaaaafaaaafaaaafaaaafaaaafaaaafaaaafaaaafaaaafaaaafaaaafaaaafaaaafaaaafaaaafaaaafaaaafaaaafaaaafaaaafaaaafaaaafaaaafaaaafaaaafaaaafaaaafaaaafaaaafaaaafaaaafaaaafaaaafaaaafaaaafaaaafaaaafaaaafaaaafaaaafaaaafaaaafaaaafaaaafaaaafaaaafaaaafaaaafaaaafaaaafaaaafaaaafaaaafaaaafaaaafaaaafaaaafaaaafaaaafaaaafaaaafaaaafaaaafaaaafaaaafaaaafaaaafaaaafaaaafaaaafaaaafaaaafaaaafaaaafaaaafaaaafaaaafaaaafaaaafaaaafaaaafaaaafaaaafaaaafaaaafaaaafaaaafaaaafaaaafaaaafaaaafaaaafaaaafaaaafaaaafaaaafaaaafaaaafaaaafaaaafaaaafaaaafaaaafaaaafaaaafaaaafaaaafaaaafaaaafaaaafaaaafaaaafaaaafaaaafaaaafaaaafaaaafaaaafaaaafaaaafaaaafaaaafaaaafaaaafaaaafaaaafaaaafaaaafaaaafaaaafaaaafaaaafaaaafaaaafaaaafaaaafaaaafaaaafaaaafaaaafaaaafaaaafaaaafaaaafaaaafaaaafaaaafaaaafaaaafaaaafaaaafaaaafaaaafaaaafaaaafaaaafaaaafaaaafaaaafaaaafaaaafaaaafaaaafaaaafaaaafaaaafaaaafaaaafaaaafaaaafaaaafaaaafaaaafaaaafaaaafaaaafaaaafaaaafaaaafaaaafaaaafaaaafaaaafaaaafaaaafaaaafaaaafaaaafaaaafaaaafaaaafaaaafaaaafaaaafaaaafaaaafaaaafaaaafaaaafaaaafaaaafaaaafaaaafaaaafaaaafaaaafaaaafaaaafaaaafaaaafaaaafaaaafaaaafaaaafaaaafaaaafaaaafaaaafaaaafaaaafaaaafaaaafaaaafaaaafaaaafaaaafaaaafaaaafaaaafaaaafaaaafaaaafaaaafaaaafaaaafaaaafaaaafaaaafaaaafaaaafaaaafaaaafaaaafaaaafaaaafaaaafaaaafaaaafaaaafaaaafaaaafaaaafaaaafaaaafaaaafaaaafaaaafaaaafaaaafaaaafaaaafaaaafaaaafaaaafaaaafaaaafaaaafaaaafaaaafaaaafaaaafaaaafaaaafaaaafaaaafaaaafaaaafaaaafaaaafaaaafaaaafaaaafaaaafaaaafaaaafaaaafaaaafaaaafaaaafaaaafaaaafaaaafaaaafaaaafaaaafaaaafaaaafaaaafaaaafaaaafaaaafaaaafaaaafaaaafaaaafaaaafaaaafaaaafaaaafaaaafaaaafaaaafaaaafaaaafaaaafaaaafaaaafaaaafaaaafaaaafaaaafaaaafaaaafaaaafaaaafaaaafaaaafaaaafaaaafaaaafaaaafaaaafaaaafaaaafaaaafaaaafaaaafaaaafaaaafaaaafaaaafaaaafaaaafaaaafaaaafaaaafaaaafaaaafaaaafaaaafaaaafaaaafaaaafaaaafaaaafaaaafaaaafaaaafaaaafaaaafaaaafaaaafaaaafaaaafaaaafaaaafaaaafaaaafaaaafaaaafaaaafaaaafaaaafaaaafaaaafaaaafaaaafaaaafaaaafaaaafaaaafaaaafaaaafaaaafaaaafaaaafaaaafaaaafaaaafaaaafaaaafaaaafaaaafaaaafaaaafaaaafaaaafaaaafaaaafaaaafaaaafaaaafaaaafaaaafaaaafaaaafaaaafaaaafaaaafaaaafaaaafaaaafaaaafaaaafaaaafaaaafaaaafaaaafaaaafaaaafaaaafaaaafaaaafaaaafaaaafaaaafaaaafaaaafaaaafaaaafaaaafaaaafaaaafaaaafaaaafaaaafaaaafaaaafaaaafaaaafaaaafaaaafaaaafaaaafaaaafaaaafaaaafaaaafaaaafaaaafaaaafaaaafaaaafaaaafaaaafaaaafaaaafaaaafaaaafaaaafaaaafaaaafaaaafaaaafaaaafaaaafaaaafaaaafaaaafaaaafaaaafaaaafaaaafaaaafaaaafaaaafaaaafaaaafaaaafaaaafaaaafaaaafaaaafaaaafaaaafaaaafaaaafaaaafaaaafaaaafaaaafaaaafaaaafaaaafaaaafaaaafaaaafaaaafaaaafaaaafaaaafaaaafaaaafaaaafaaaafaaaafaaaafaaaafaaaafaaaafaaaafaaaafaaaafaaaafaaaafaaaafaaaafaaaafaaaafaaaafaaaafaaaafaaaafaaaafaaaafaaaafaaaafaaaafaaaafaaaafaaaafaaaafaaaafaaaafaaaafaaaafaaaafaaaafaaaafaaaafaaaafaaaafaaaafaaaafaaaafaaaafaaaafaaaafaaaafaaaafaaaafaaaafaaaafaaaafaaaafaaaafaaaafaaaafaaaafaaaafaaaafaaaafaaaafaaaafaaaafaaaafaaaafaaaafaaaafaaaafaaaafaaaafaaaafaaaafaaaafaaaafaaaafaaaafaaaafaaaafaaaafaaaafaaaafaaaafaaaafaaaafaaaafaaaafaaaafaaaafaaaafaaaafaaaafaaaafaaaafaaaafaaaafaaaafaaaafaaaafaaaafaaaafaaaafaaaafaaaafaaaafaaaafaaaafaaaafaaaafaaaafaaaafaaaafaaaafaaaafaaaafaaaafaaaafaaaafaaaafaaaafaaaafaaaafaaaafaaaafaaaafaaaafaaaafaaaafaaaafaaaafaaaafaaaafaaaafaaaafaaaafaaaafaaaafaaaafaaaafaaaafaaaafaaaafaaaafaaaafaaaafaaaafaaaafaaaafaaaafaaaafaaaafaaaafaaaafaaaafaaaafaaaafaaaafaaaafaaaafaaaafaaaafaaaafaaaafaaaafaaaafaaaafaaaafaaaafaaaafaaaafaaaafaaaafaaaafaaaafaaaafaaaafaaaafaaaafaaaafaaaafaaaafaaaafaaaafaaaafaaaafaaaafaaaafaaaafaaaafaaaafaaaafaaaafaaaafaaaafaaaafaaaafaaaafaaaafaaaafaaaafaaaafaaaafaaaafaaaafaaaafaaaafaaaafaaaafaaaafaaaafaaaafaaaafaaaafaaaafaaaafaaaafaaaafaaaafaaaafaaaafaaaafaaaafaaaafaaaafaaaafaaaafaaaafaaaafaaaafaaaafaaaafaaaafaaaafaaaafaaaafaaaafaaaafaaaafaaaafaaaafaaaafaaaafaaaafaaaafaaaafaaaafaaaafaaaafaaaafaaaafaaaafaaaafaaaafaaaafaaaafaaaafaaaafaaaafaaaafaaaafaaaafaaaafaaaafaaaafaaaafaaaafaaaafaaaafaaaafaaaafaaaafaaaafaaaafaaaafaaaafaaaafaaaafaaaafaaaafaaaafaaaafaaaafaaaafaaaafaaaafaaaafaaaafaaaafaaaafaaaafaaaafaaaafaaaafaaaafaaaafaaaafaaaafaaaafaaaafaaaafaaaafaaaafaaaafaaaafaaaafaaaafaaaafaaaafaaaafaaaafaaaafaaaafaaaafaaaafaaaafaaaafaaaafaaaafaaaafaaaafaaaafaaaafaaaafaaaafaaaafaaaafaaaafaaeifaaeifaaeifaaeifaaeifaaeifaaeifaaeifaaeifaaeifaaeifaaeifaaeifaaeifaaeifaaeifaaeifaaeifaaeifaaeifaaeifaaeifaaeifaaeifaaeifaaeifaaeifaaeifaaeifaaeifaaeifaaeifaaeifaaeifaaeifaaeifaaeifaaeifaaeifaaeifaaeifaaeifaaeifaaeifaaeifaaeifaaeifaaeifaaaafaaaafaaaafaaaafaaaafaaaafaaaafaaaafaaaafaaaafaaaafaaaafaaaafaaaafaaaafaaaafaaaafaaaafaaaafaaaafaaaafaaaafaaaafaaaafaaaafaaaafaaaafaaaafaaaafaaaafaaaafaaaafaaaafaaaafaaaafaaaafaaaafaaaafaaaafaaaafaaaafaaaafaaaafaaaafaaaafaaaafaaaafaaaafaaabfaaaadjcfhegbigdjchdfaaaafaaaafaaabfaaaafaaabfaaaafaaabfaaaadjccadjcfbdjcbhdjcbifaaaafaaabfaaaafaaaafaaabfaaaafaaaafaaaafaaaafaaaafaaaafaaaafaaaadjbifdjbiffaaabfaaaafaaabfaaaafaaabfaaaafaaabfaaaafaaabfaaaafaaabfaaaafaaabfaaaafaaabfaaaafaaabfaaaafaaabfaaaafaaabfaaaafaaabfaaaafaaabfaaaafaaabfaaaafaaabfaaaafaaabfaaaafaaabfaaaafaaabfaaaafaaabfaaaafaaabfaaaafaaabfaaaafaaabfaaaafaaabfaaaafaaabfaaaafaaabfaaaafaaabfaaaafaaabfaaaafaaabfaaaafaaabfaaaafaaabfaaaafaaabfaaaafaaabfaaaafaaabfaaaafaaabfaaaafaaabfaaaafaaabfaaaafaaabfaaaafaaabfaaaafaaabfaaaafaaabfaaaafaaabfaaaafaaabfaaaafaaabfaaaafaaabfaaaafaaabfaaaafaaabfaaaafaaabfaaaafaaabfaaaafaaabfaaaafaaabfaaaafaaaafaaaafaaaafaaaafaaaafaaaafaaaafaaabfaaaafaaabfaaaafaaaafaaaafaaaafaaabfaaaafaaaafaaaafaaaafaaaafaaaafaaaafaaaafaaaafaaaafaaaafaaaafaaaafaaaafaaaafaaaafaaaafaaaafaaaafaaaafaaaafaaaafaaaafaaaafaaaafaaaafaaaafaaaafaaaafaaaafaaaafaaaafaaaafaaaafaaaafaaaafaaaafaaaafaaaafaaaafaaaafaaaafaaaafaaaafaaaafaaaafaaaafaaaafaaaafaaaafaaaafaaaafaaaafaaaafaaaafaaaafaaaafaaaafaaaafaaaafaaaafaaaafaaaafaaaafaaaafaaaafaaaafaaaafaaaafaaaafaaaafaaaafaaaafaaaafaaaafaaaafaaaafaaaafaaaafaaaafaaaafaaaafaaaafaaaafaaaafaaaafaaaafaaaafaaaafaaaafaaaafaaaafaaaafaaaafaaaafaaaafaaaafaaaafaaaafaaaafaaaafaaaafaaaafaaaafaaaafaaaafaaaafaaaafaaaafaaaafaaaafaaaafaaaafaaaafaaaafaaaafaaaafaaaafaaaafaaaafaaaafaaaafaaaafaaaafaaaafaaaafaaaafaaaafaaaafaaaafaaaafaaaafaaaafaaaafaaaafaaaafaaaafaaaafaaaafaaaafaaaafaaaafaaaafaaaafaaaafaaaafaaaafaaaafaaaafaaaafaaaafaaaafaaaafaaaafaaaafaaaafaaaafaaaafaaaafaaaafaaaafaaaafaaaafaaaafaaaafaaaafaaaafaaaafaaaafaaaafaaaafaaaafaaaafaaaafaaaafaaaafaaaafaaaafaaaafaaaafaaaafaaaafaaaafaaaafaaaafaaaafaaaafaaaafaaaafaaaafaaaafaaaafaaaafaaaafaaaafaaaafaaaafaaaafaaaafaaaafaaaafaaaafaaaafaaaafaaaafaaaafaaaafaaaafaaaafaaaafaaaafaaaafaaaafaaaafaaaafaaaafaaaafaaaafaaaafaaaafaaaafaaaafaaaafaaaafaaaafaaaafaaaafaaaafaaaafaaaafaaaafaaaafaaaafaaaafaaaafaaaafaaaafaaaafaaaafaaaafaaaafaaaafaaaafaaaafaaaafaaaafaaaafaaaafaaaafaaaafaaaafaaaafaaaafaaaafaaaafaaaafaaaafaaaafaaaafaaaafaaaafaaaafaaaafaaaafaaaafaaaafaaaafaaaafaaaafaaaafaaaafaaaafaaaafaaaafaaaafaaaafaaaafaaaafaaaafaaaafaaaafaaaafaaaafaaaafaaaafaaaafaaaafaaaafaaaafaaaafaaaafaaaafaaaafaaaafaaaafaaaafaaaafaaaafaaaafaaaafaaaafaaaafaaaafaaaafaaaafaaaafaaaafaaaafaaaafaaaafaaaafaaaafaaaafaaaafaaaafaaaafaaaafaaaafaaaafaaaafaaaafaaaafaaaafaaaafaaaafaaaafaaaafaaaafaaaafaaaafaaaafaaaafaaaafaaaafaaaafaaaafaaaafaaaafaaaafaaaafaaaafaaaafaaaafaaaafaaaafaaaafaaaafaaaafaaaafaaaafaaaafaaaafaaaafaaaafaaaafaaaafaaaafaaaafaaaafaaaafaaaafaaaafaaaafaaaafaaaafaaaafaaaafaaaafaaaafaaaafaaaafaaaafaaaafaaaafaaaafaaaafaaaafaaaafaaaafaaaafaaaafaaaafaaaafaaaafaaaafaaaafaaaafaaaafaaaafaaaafaaaafaaaafaaaafaaaafaaaafaaaafaaaafaaaafaaaafaaaafaaaafaaaafaaaafaaaafaaaafaaaafaaaafaaaafaaaafaaaafaaaafaaaafaaaafaaaafaaaafaaaafaaaafaaaafaaaafaaaafaaaafaaaafaaaafaaaafaaaafaaaafaaaafaaaafaaaafaaaafaaaafaaaafaaaafaaaafaaaafaaaafaaaafaaaafaaaafaaaafaaaafaaaafaaaafaaaafaaaafaaaafaaaafaaaafaaaafaaaafaaaafaaaafaaaafaaaafaaaafaaaafaaaafaaaafaaaafaaaafaaaafaaaafaaaafaaaafaaaafaaaafaaaafaaaafaaaafaaaafaaaafaaaafaaaafaaaafaaaafaaaafaaaafaaaafaaaafaaaafaaaafaaaafaaaafaaaafaaaafaaaafaaaafaaaafaaaafaaaafaaaafaaaafaaaafaaaafaaaafaaaafaaaafaaaafaaaafaaaafaaaafaaaafaaaafaaaafaaaafaaaafaaaafaaaafaaaafaaaafaaaafaaaafaaaafaaaafaaaafaaaafaaaafaaaafaaaafaaaafaaaafaaaafaaaafaaaafaaaafaaaafaaaafaaaafaaaafaaaafaaaafaaaafaaaafaaaafaaaafaaaafaaaafaaaafaaaafaaaafaaaafaaaafaaaafaaaafaaaafaaaafaaaafaaaafaaaafaaaafaaaafaaaafaaaafaaaafaaaafaaaafaaaafaaaafaaaafaaaafaaaafaaaafaaaafaaaafaaaafaaaafaaaafaaaafaaaafaaaafaaaafaaaafaaaafaaaafaaaafaaaafaaaafaaaafaaaafaaaafaaaafaaaafaaaafaaaafaaaafaaaafaaaafaaaafaaaafaaaafaaaafaaaafaaaafaaaafaaaafaaaafaaaafaaaafaaaafaaaafaaaafaaaafaaaafaaaafaaaafaaaafaaaafaaaafaaaafaaaafaaaafaaaafaaaafaaaafaaaafaaaafaaaafaaaafaaaafaaaafaaaafaaaafaaaafaaaafaaaafaaaafaaaafaaaafaaaafaaaafaaaafaaaafaaaafaaaafaaaafaaaafaaaafaaaafaaaafaaaafaaaafaaaafaaaafaaaafaaaafaaaafaaaafaaaafaaaafaaaafaaaafaaaafaaaafaaaafaaaafaaaafaaaafaaaafaaaafaaaafaaaafaaaafaaaafaaaafaaaafaaaafaaaafaaaafaaaafaaaafaaaafaaaafaaaafaaaafaaaafaaaafaaaafaaaafaaaafaaaafaaaafaaaafaaaafaaaafaaaafaaaafaaaafaaaafaaaafaaaafaaaafaaaafaaaafaaaafaaaafaaaafaaaafaaaafaaaafaaaafaaaafaaaafaaaafaaaafaaaafaaaafaaaafaaaafaaaafaaaafaaaafaaaafaaaafaaaafaaaafaaaafaaaafaaaafaaaafaaaafaaaafaaaafaaaafaaaafaaaafaaaafaaaafaaaafaaaafaaaafaaaafaaaafaaaafaaaafaaaafaaaafaaaafaaaafaaaafaaaafaaaafaaaafaaaafaaaafaaaafaaaafaaaafaaaafaaaafaaaafaaaafaaaafaaaafaaaafaaaafaaaafaaaafaaaafaaaafaaaafaaaafaaaafaaaafaaaafaaaafaaaafaaaafaaaafaaaafaaaafaaaafaaaafaaaafaaaafaaaafaaaafaaaafaaaafaaaafaaaafaaaafaaaafaaaafaaaafaaaafaaaafaaaafaaaafaaaafaaaafaaaafaaaafaaaafaaaafaaaafaaaafaaaafaaaafaaaafaaaafaaaafaaaafaaaafaaaafaaaafaaaafaaaafaaaafaaaafaaaafaaaafaaaafaaaafaaaafaaaafaaaafaaaafaaaafaaaafaaaafaaaafaaaafaaaafaaaafaaaafaaaafaaaafaaaafaaaafaaaafaaaafaaaafaaaafaaaafaaaafaaaafaaaafaaaafaaaafaaaafaaaafaaaafaaaafaaaafaaaafaaaafaaaafaaaafaaaafaaaafaaaafaaaafaaaafaaaafaaaafaaaafaaaafaaaafaaaafaaaafaaaafaaaafaaaafaaaafaaaafaaaafaaaafaaaafaaaafaaaafaaaafaaaafaaaafaaaafaaaafaaaafaaaafaaaafaaaafaaaafaaaafaaaafaaaafaaaafaaaafaaaafaaaafaaaafaaaafaaaafaaaafaaaafaaaafaaaafaaaafaaaafaaaafaaaafaaaafaaaafaaaafaaaafaaaafaaaafaaaafaaaafaaaafaaaafaaaafaaaafaaaafaaaafaaaafaaaafaaaafaaaafaaaafaaaafaaaafaaaafaaaafaaaafaaaafaaaafaaaafaaaafaaaafaaaafaaaafaaaafaaaafaaaafaaaafaaaafaaaafaaaafaaaafaaaafaaaafaaaafaaaafaaaafaaaafaaaafaaaafaaaafaaaafaaaafaaaafaaaafaaaafaaaafaaaafaaaafaaaafaaaafaaaafaaaafaaaafaaaafaaaafaaaafaaaafaaaafaaaafaaaafaaaafaaaafaaaafaaaafaaaafaaaafaaaafaaaafaaaafaaaafaaaafaaaafaaaafaaaafaaaafaaaafaaaafaaaafaaaafaaaafaaaafaaaafaaaafaaaafaaaafaaaafaaaafaaaafaaaafaaaafaaaafaaaafaaaafaaaafaaaafaaaafaaaafaaaafaaaafaaaafaaaafaaaafaaaafaaaafaaaafaaaafaaaafaaaafaaaafaaaafaaaafaaaafaaaafaaaafaaaafaaaafaaaafaaaafaaaafaaaafaaaafaaaafaaaafaaaafaaaafaaaafaaaafaaaafaaaafaaaafaaaafaaaafaaaafaaaafaaaafaaaafaaaafaaaafaaaafaaaafaaaafaaaafaaaafaaaafaaaafaaaafaaaafaaaafaaaafaaaafaaaafaaaafaaaafaaaafaaaafaaaafaaaafaaaafaaaafaaaafaaaafaaaafaaaafaaaafaaaafaaaafaaaafaaaafaaaafaaaafaaaafaaaafaaaafaaaafaaaafaaaafaaaafaaaafaaaafaaaafaaaafaaaafaaaafaaaafaaaafaaaafaaaafaaaafaaaafaaaafaaaafaaaafaaaafaaaafaaaafaaaafaaaafaaaafaaaafaaaafaaaafaaaafaaaafaaaafaaaafaaaafaaaafaaaafaaaafaaaafaaaafaaaafaaaafaaaafaaaafaaaafaaaafaaaafaaaafaaaafaaaafaaaafaaaafaaaafaaaafaaaafaaaafaaaafaaaafaaaafaaaafaaaafaaaafaaaafaaaafaaaafaaaafaaaafaaaafaaaafaaaafaaaafaaaafaaaafaaaafaaaafaaaafaaaafaaaafaaaafaaaafaaaafaaaafaaaafaaaafaaaafaaaafaaaafaaaafaaaafaaaafaaaafaaaafaaaafaaaafaaaafaaaafaaaafaaaafaaaafaaaafaaaafaaaafaaaafaaaafaaaafaaaafaaaafaaaafaaaafaaaafaaaafaaaafaaaafaaaafaaaafaaaafaaaafaaaafaaaafaaaafaaaafaaaafaaaafaaaafaaaafaaaafaaaafaaaafaaaafaaaafaaaafaaaafaaaafaaaafaaaafaaaafaaaafaaaafaaaafaaaafaaaafaaaafaaaafaaaafaaaafaaaafaaaafaaaafaaaafaaaafaaaafaaaafaaaafaaaafaaaafaaaafaaaafaaaafaaaafaaaafaaaafaaaafaaaafaaaafaaaafaaaafaaaafaaaafaaaafaaaafaaaafaaaafaaaafaaaafaaaafaaaafaaaafaaaafaaaafaaaafaaaafaaaafaaaafaaaafaaaafaaaafaaaafaaaafaaaafaaaafaaaafaaaafaaaafaaaafaaaafaaaafaaaafaaaafaaaafaaaafaaaafaaaafaaaafaaaafaaaafaaaafaaaafaaaafaaaafaaaafaaaafaaaafaaaafaaaafaaaafaaaafaaaafaaaafaaaafaaaafaaaafaaaafaaaafaaaafaaaafaaaafaaaafaaaafaaaafaaaafaaaafaaaafaaaafaaaafaaaafaaaafaaaafaaaafaaaafaaaafaaaafaaaafaaaafaaaafaaaafaaaafaaaafaaaafaaaafaaaafaaaafaaaafaaaafaaaafaaaafaaaafaaaafaaaafaaaafaaaafaaaafaaaafaaaafaaaafaaaafaaaafaaaafaaaafaaaafaaaafaaaafaaaafaaaafaaaafaaaafaaaafaaaafaaaafaaaafaaaafaaaafaaaafaaaafaaaafaaaafaaaafaaaafaaaafaaaafaaaafaaaafaaaafaaaafaaaafaaaafaaaafaaaafaaaafaaaafaaaafaaaafaaaafaaaafaaaafaaaafaaaafaaaafaaaafaaaafaaaafaaaafaaaafaaaafaaaafaaaafaaaafaaaafaaaafaaaafaaaafaaaafaaaafaaaafaaaafaaaafaaaafaaaafaaaafaaaafaaaafaaaafaaaafaaaafaaaafaaaafaaaafaaaafaaaafaaaafaaaafaaaafaaaafaaaafaaaafaaaafaaaafaaaafaaaafaaaafaaaafaaaafaaaafaaaafaaaafaaaafaaaafaaaafaaaafaaaafaaaafaaaafaaaafaaaafaaaafaaaafaaaafaaaafaaaafaaaafaaaafaaaafaaaafaaaafaaaafaaaafaaaafaaaafaaaafaaaafaaaafaaaafaaaafaaaafaaaafaaaafaaaafaaaafaaaafaaaafaaaafaaaafaaaafaaaafaaaafaaaafaaaafaaaafaaaafaaaafaaaafaaaafaaaafaaaafaaaafaaaafaaaafaaaafaaaafaaaafaaaafaaaafaaaafaaaafaaaafaaaafaaaafaaaafaaaafaaaafaaaafaaaafaaaafaaaafaaaafaaaafaaaafaaaafaaaafaaaafaaaafaaaafaaaafaaaafaaaafaaaafaaaafaaaafaaaafaaaafaaaafaaaafaaaafaaaafaaaafaaaafaaaafaaaafaaaafaaaafaaaafaaaafaaaafaaaafaaaafaaaafaaaafaaaafaaaafaaaafaaaafaaaafaaaafaaaafaaaafaaaafaaaafaaaafaaaafaaaafaaaafaaaafaaaafaaaafaaaafaaaafaaaafaaaafaaaafaaaafaaaafaaaafaaaafaaaafaaaafaaaafaaaafaaaafaaaafaaaafaaaafaaaafaaaafaaaafaaaafaaaafaaaafaaaafaaaafaaaafaaaafaaaafaaaafaaaafaaaafaaaafaaaafaaaafaaaafaaaafaaaafaaaafaaaafaaaafaaaafaaaafaaaafaaaafaaaafaaaafaaaafaaaafaaaafaaaafaaaafaaaafaaaafaaaafaaaafaaaafaaaafaaaafaaaafaaaafaaaafaaaafaaaafaaaafaaaafaaaafaaaafaaaafaaaafaaaafaaaafaaaafaaaafaaaafaaaafaaaafaaaafaaaafaaaafaaaafaaaafaaaafaaaafaaaafaaaafaaaafaaaafaaaafaaaafaaaafaaaafaaaafaaaafaaaafaaaafaaaafaaaafaaaafaaaafaaaafaaaafaaaafaaaafaaaafaaaafaaaafaaaafaaaafaaaafaaaafaaaafaaaafaaaafaaaafaaaafaaaafaaaafaaaafaaaafaaaafaaaafaaaafaaaafaaaafaaaafaaaafaaaafaaaafaaaafaaaafaaaafaaaafaaaafaaaafaaaafaaaafaaaafaaaafaaaafaaaafaaaafaaaafaaaafaaaafaaaafaaaafaaaafaaaafaaaafaaaafaaaafaaaafaaaafaaaafaaaafaaaafaaaafaaaafaaaafaaaafaaaafaaaafaaaafaaaafaaaafaaaafaaaafaaaafaaaafaaaafaaaafaaaafaaaafaaaafaaaafaaaafaaaafaaaafaaaafaaaafaaaafaaaafaaaafaaaafaaaafaaaafaaaafaaaafaaaafaaaafaaaafaaaafaaaafaaaafaaaafaaaafaaaafaaaafaaaafaaaafaaaafaaaafaaaafaaaafaaaafaaaafaaaafaaaafaaaafaaaafaaaafaaaafaaaafaaaafaaaafaaaafaaaafaaaafaaaafaaaafaaaafaaaafaaaafaaaafaaaafaaaafaaaafaaaafaaaafaaaafaaaafaaaafaaaafaaaafaaaafaaaafaaaafaaaafaaaafaaaafaaaafaaaafaaaafaaaafaaaafaaaafaaaafaaaafaaaafaaaafaaaafaaaafaaaafaaaafaaaafaaaafaaaafaaaafaaaafaaaafaaaafaaaafaaaafaaaafaaaafaaaafaaaafaaaafaaaafaaaafaaaafaaaafaaaafaaaafaaaafaaaafaaaafaaaafaaaafaaaafaaaafaaaafaaaafaaaafaaaafaaaafaaaafaaaafaaaafaaaafaaaafaaaafaaaafaaaafaaaafaaaafaaaafaaaafaaaafaaaafaaaafaaaafaaaafaaaafaaaafaaaafaaaafaaaafaaaafaaaafaaaafaaaafaaaafaaaafaaaafaaaafaaaafaaaafaaaafaaaafaaaafaaaafaaaafaaaafaaaafaaaafaaaafaaaafaaaafaaaafaaaafaaaafaaaafaaaafaaaafaaaafaaaafaaaafaaaafaaaafaaaafaaaafaaaafaaaafaaaafaaaafaaaafaaaafaaaafaaaafaaaafaaaafaaaafaaaafaaaafaaaafaaaafaaaafaaaafaaaafaaaafaaaafaaaafaaaafaaaafaaaafaaaafaaaafaaaafaaaafaaaafaaaafaaaafaaaafaaaafaaaafaaaafaaaafaaaafaaaafaaaafaaaafaaaafaaaafaaaafaaaafaaaafaaaafaaaafaaaafaaaafaaaafaaaafaaaafaaaafaaaafaaaafaaaafaaaafaaaafaaaafaaaafaaaafaaaafaaaafaaaafaaaafaaaafaaaafaaaafaaaafaaaafaaaafaaaafaaaafaaaafaaaafaaaafaaaafaaaafaaaafaaaafaaaafaaaafaaaafaaaafaaaafaaaafaaaafaaaafaaaafaaaafaaaafaaaafaaaafaaaafaaaafaaaafaaaafaaaafaaaafaaaafaaaafaaaafaaaafaaaafaaaafaaaafaaaafaaaafaaaafaaaafaaaafaaaafaaaafaaaafaaaafaaaafaaaafaaaafaaaafaaaafaaaafaaaafaaaafaaaafaaaafaaaafaaaafaaaafaaaafaaaafaaaafaaaafaaaafaaaafaaaafaaaafaaaafaaaafaaaafaaaafaaaafaaaafaaaafaaaafaaaafaaaafaaaafaaaafaaaafaaaafaaaafaaaafaaaafaaaafaaaafaaaafaaaafaaaafaaaafaaaafaaaafaaaafaaaafaaaafaaaafaaaafaaaafaaaafaaaafaaaafaaaafaaaafaaaafaaaafaaaafaaaafaaaafaaaafaaaafaaaafaaaafaaaafaaaafaaaafaaaafaaaafaaaafaaaafaaaafaaaafaaaafaaaafaaaafaaaafaaaafaaaafaaaafaaaafaaaafaaaafaaaafaaaafaaaafaaaafaaaafaaaafaaaafaaaafaaaafaaaafaaaafaaaafaaaafaaaafaaaafaaaafaaaafaaaafaaaafaaaafaaaafaaaafaaaafaaaafaaaafaaaafaaaafaaaafaaaafaaaafaaaafaaaafaaaafaaaafaaaafaaaafaaaafaaaafaaaafaaaafaaaafaaaafaaaafaaaafaaaafaaaafaaaafaaaafaaaafaaaafaaaafaaaafaaaafaaaafaaaafaaaafaaaafaaaafaaaafaaaafaaaafaaaafaaaafaaaafaaaafaaaafaaaafaaaafaaaafaaaafaaaafaaaafaaaafaaaafaaaafaaaafaaaafaaaafaaaafaaaafaaaafaaaafaaaafaaaafaaaafaaaafaaaafaaaafaaaafaaaafaaaafaaaafaaaafaaaafaaaafaaaafaaaafaaaafaaaafaaaafaaaafaaaafaaaafaaaafaaaafaaaafaaaafaaaafaaaafaaaafaaaafaaaafaaaafaaaafaaaafaaaafaaaafaaaafaaaafaaaafaaaafaaaafaaaafaaaafaaaafaaaafaaaafaaaafaaaafaaaafaaaafaaaafaaaafaaaafaaaafaaaafaaaafaaaafaaaafaaaafaaaafaaaafaaaafaaaafaaaafaaaafaaaafaaaafaaaafaaaafaaaafaaaafaaaafaaaafaaaafaaaafaaaafaaaafaaaafaaaafaaaafaaaafaaaafaaaafaaaafaaaafaaaafaaaafaaaafaaaafaaaafaaaafaaaafaaaafaaaafaaaafaaaafaaaafaaaafaaaafaaaafaaaafaaaafaaaafaaaafaaaafaaaafaaaafaaaafaaaafaaaafaaaafaaaafaaaafaaaafaaaafaaaafaaaafaaaafaaaafaaaafaaaafaaaafaaaafaaaafaaaafaaaafaaaafaaaafaaaafaaaafaaaafaaaafaaaafaaaafaaaafaaaafaaaafaaaafaaaafaaaafaaaafaaaafaaaafaaaafaaaafaaaafaaaafaaaafaaaafaaaafaaaafaaaafaaaafaaaafaaaafaaaafaaaafaaaafaaaafaaaafaaaafaaaafaaaafaaaafaaaafaaaafaaaafaaaafaaaafaaaafaaaafaaaafaaaafaaaafaaaafaaaafaaaafaaaafaaaafaaaafaaaafaaaafaaaafaaaafaaaafaaaafaaaafaaaafaaaafaaaafaaaafaaaafaaaafaaaafaaaafaaaafaaaafaaaafaaaafaaaafaaaafaaaafaaaafaaaafaaaafaaaafaaaafaaaafaaaafaaaafaaaafaaaafaaaafaaaafaaaafaaaafaaaafaaaafaaaafaaaafaaaafaaaafaaaafaaaafaaaafaaaafaaaafaaaafaaaafaaaafaaaafaaaafaaaafaaaafaaaafaaaafaaaafaaaafaaaafaaaafaaaafaaaafaaaafaaaafaaaafaaaafaaaafaaaafaaaafaaaafaaaafaaaafaaaafaaaafaaaafaaaafaaaafaaaafaaaafaaaafaaaafaaaafaaaafaaaafaaaafaaaafaaaafaaaafaaaafaaaafaaaafaaaafaaaafaaaafaaaafaaaafaaaafaaaafaaaafaaaafaaaafaaaafaaaafaaaafaaaafaaaafaaaafaaaafaaaafaaaafaaaafaaaafaaaafaaaafaaaafaaaafaaaafaaaafaaaafaaaafaaaafaaaafaaaafaaaafaaaafaaaafaaaafaaaafaaaafaaaafaaaafaaaafaaaafaaaafaaaafaaaafaaaafaaaafaaaafaaaafaaaafaaaafaaaafaaaafaaaafaaaafaaaafaaaafaaaafaaaafaaaafaaaafaaaafaaaafaaaafaaaafaaaafaaaafaaaafaaaafaaaafaaaafaaaafaaaafaaaafaaaafaaaafaaaafaaaafaaaafaaaafaaaafaaaafaaaafaaaafaaaafaaaafaaaafaaaafaaaafaaaafaaaafaaaafaaaafaaaafaaaafaaaafaaaafaaaafaaaafaaaafaaaafaaaafaaaafaaaafaaaafaaaafaaaafaaaafaaaafaaaafaaaafaaaafaaaafaaaafaaaafaaaafaaaafaaaafaaaafaaaafaaaafaaaafaaaafaaaafaaaafaaaafaaaafaaaafaaaafaaaafaaaafaaaafaaaafaaaafaaaafaaaafaaaafaaaafaaaafaaaafaaaafaaaafaaaafaaaafaaaafaaaafaaaafaaaafaaaafaaaafaaaafaaaafaaaafaaaafaaaafaaaafaaaafaaaafaaaafaaaafaaaafaaaafaaaafaaaafaaaafaaaafaaaafaaaafaaaafaaaafaaaafaaaafaaaafaaaafaaaafaaaafaaaafaaaafaaaafaaaafaaaafaaaafaaaafaaaafaaaafaaaafaaaafaaaafaaaafaaaafaaaafaaaafaaaafaaaafaaaafaaaafaaaafaaaafaaaafaaaafaaaafaaaafaaaafaaaafaaaafaaaafaaaafaaaafaaaafaaaafaaaafaaaafaaaafaaaafaaaafaaaafaaaafaaaafaaaafaaaafaaaafaaaafaaaafaaaafaaaafaaaafaaaafaaaafaaaafaaaafaaaafaaaafaaaafaaaafaaaafaaaafaaaafaaaafaaaafaaaafaaaafaaaafaaaafaaaafaaaafaaaafaaaafaaaafaaaafaaaafaaaafaaaafaaaafaaaafaaaafaaaafaaaafaaaafaaaafaaaafaaaafaaaafaaaafaaaafaaaafaaaafaaaafaaaafaaaafaaaafaaaafaaaafaaaafaaaafaaaafaaaafaaaafaaaafaaaafaaaafaaaafaaaafaaaafaaaafaaaafaaaafaaaafaaaafaaaafaaaafaaaafaaaafaaaafaaaafaaaafaaaafaaaafaaaafaaaafaaaafaaaafaaaafaaaafaaaafaaaafaaaafaaaafaaaafaaaafaaaafaaaafaaaafaaaafaaaafaaaafaaaafaaaafaaaafaaaafaaaafaaaafaaaafaaaafaaaafaaaafaaaafaaaafaaaafaaaafaaaafaaaafaaaafaaaafaaaafaaaafaaaafaaaafaaaafaaaafaaaafaaaafaaaafaaaafaaaafaaaafaaaafaaaafaaaafaaaafaaaafaaaafaaaafaaaafaaaafaaaafaaaafaaaafaaaafaaaafaaaafaaaafaaaafaaaafaaaafaaaafaaaafaaaafaaaafaaaafaaaafaaaafaaaafaaaafaaaafaaaafaaaafaaaafaaaafaaaafaaaafaaaafaaaafaaaafaaaafaaaafaaaafaaaafaaaafaaaafaaaafaaaafaaaafaaaafaaaafaaaafaaaafaaaafaaaafaaaafaaaafaaaafaaaafaaaafaaaafaaaafaaaafaaaafaaaafaaaafaaaafaaaafaaaafaaaafaaaafaaaafaaaafaaaafaaaafaaaafaaaafaaaafaaaafaaaafaaaafaaaafaaaafaaaafaaaafaaaafaaaafaaaafaaaafaaaafaaaafaaaafaaaafaaaafaaaafaaaafaaaafaaaafaaaafaaaafaaaafaaaafaaaafaaaafaaaafaaaafaaaafaaaafaaaafaaaafaaaafaaaafaaaafaaaafaaaafaaaafaaaafaaaafaaaafaaaafaaaafaaaafaaaafaaaafaaaafaaaafaaaafaaaafaaaafaaaafaaaafaaaafaaaafaaaafaaaafaaaafaaaafaaaafaaaafaaaafaaaafaaaafaaaafaaaafaaaafaaaafaaaafaaaafaaaafaaaafaaaafaaaafaaaafaaaafaaaafaaaafaaaafaaaafaaaafaaaafaaaafaaaafaaaafaaaafaaaafaaaafaaaafaaaafaaaafaaaafaaaafaaaafaaaafaaaafaaaafaaaafaaaafaaaafaaaafaaaafaaaafaaaafaaaafaaaafaaaafaaaafaaaafaaaafaaaafaaaafaaaafaaaafaaaafaaaafaaaafaaaafaaaafaaaafaaaafaaaafaaaafaaaafaaaafaaaafaaaafaaaafaaaafaaaafaaaafaaaafaaaafaaaafaaaafaaaafaaaafaaaafaaaafaaaafaaaafaaaafaaaafaaaafaaaafaaaafaaaafaaaafaaaafaaaafaaaafaaaafaaaafaaaafaaaafaaaafaaaafaaaafaaaafaaaafaaaafaaaafaaaafaaaafaaaafaaaafaaaafaaaafaaaafaaaafaaaafaaaafaaaafaaaafaaaafaaaafaaaafaaaafaaaafaaaafaaaafaaaafaaaafaaaafaaaafaaaafaaaafaaaafaaaafaaaafaaaafaaaafaaaafaaaafaaaafaaaafaaaafaaaafaaaafaaaafaaaafaaaafaaaafaaaafaaaafaaaafaaaafaaaafaaaafaaaafaaaafaaaafaaaafaaaafaaaafaaaafaaaafaaaafaaaafaaaafaaaafaaaafaaaafaaaafaaaafaaaafaaaafaaaafaaaafaaaafaaaafaaaafaaaafaaaafaaaafaaaafaaaafaaaafaaaafaaaafaaaafaaaafaaaafaaaafaaaafaaaafaaaafaaaafaaaafaaaafaaaafaaaafaaaafaaaafaaaafaaaafaaaafaaaafaaaafaaaafaaaafaaaafaaaafaaaafaaaafaaaafaaaafaaaafaaaafaaaafaaaafaaaafaaaafaaaafaaaafaaaafaaaafaaaafaaaafaaaafaaaafaaaafaaaafaaaafaaaafaaaafaaaafaaaafaaaafaaaafaaaafaaaafaaaafaaaafaaaafaaaafaaaafaaaafaaaafaaaafaaaafaaaafaaaafaaaafaaaafaaaafaaaafaaaafaaaafaaaafaaaafaaaafaaaafaaaafaaaafaaaafaaaafaaaafaaaafaaaafaaaafaaaafaaaafaaaafaaaafaaaafaaaafaaaafaaaafaaaafaaaafaaaafaaaafaaaafaaaafaaaafaaaafaaaafaaaafaaaafaaaafaaaafaaaafaaaafaaaafaaaafaaaafaaaafaaaafaaaafaaaafaaaafaaaafaaaafaaaafaaaafaaaafaaaafaaaafaaaafaaaafaaaafaaaafaaaafaaaafaaaafaaaafaaaafaaaafaaaafaaaafaaaafaaaafaaaafaaaafaaaafaaaafaaaafaaaafaaaafaaaafaaaafaaaafaaaafaaaafaaaafaaaafaaaafaaaafaaaafaaaafaaaafaaaafaaaafaaaafaaaafaaaafaaaafaaaafaaaafaaaafaaaafaaaafaaaafaaaafaaaafaaaafaaaafaaaafaaaafaaaafaaaafaaaafaaaafaaaafaaaafaaaafaaaafaaaafaaaafaaaafaaaafaaaafaaaafaaaafaaaafaaaafaaaafaaaafaaaafaaaafaaaafaaaafaaaafaaaafaaaafaaaafaaaafaaaafaaaafaaaafaaaafaaaafaaaafaaaafaaaafaaaafaaaafaaaafaaaafaaaafaaaafaaaafaaaafaaaafaaaafaaaafaaaafaaaafaaaafaaaafaaaafaaaafaaaafaaaafaaaafaaaafaaaafaaaafaaaafaaaafaaaafaaaafaaaafaaaafaaaafaaaafaaaafaaaafaaaafaaaafaaaafaaaafaaaafaaaafaaaafaaaafaaaafaaaafaaaafaaaafaaaafaaaafaaaafaaaafaaaafaaaafaaaafaaaafaaaafaaaafaaaafaaaafaaaafaaaafaaaafaaaafaaaafaaaafaaaafaaaafaaaafaaaafaaaafaaaafaaaafaaaafaaaafaaaafaaaafaaaafaaaafaaaafaaaafaaaafaaaafaaaafaaaafaaaafaaaafaaaafaaaafaaaafaaaafaaaafaaaafaaaafaaaafaaaafaaaafaaaafaaaafaaaafaaaafaaaafaaaafaaaafaaaafaaaafaaaafaaaafaaaafaaaafaaaafaaaafaaaafaaaafaaaafaaaafaaaafaaaafaaaafaaaafaaaafaaaafaaaafaaaafaaaafaaaafaaaafaaaafaaaafaaaafaaaafaaaafaaaafaaaafaaaafaaaafaaaafaaaafaaaafaaaafaaaafaaaafaaaafaaaafaaaafaaaafaaaafaaaafaaaafaaaafaaaafaaaafaaaafaaaafaaaafaaaafaaaafaaaafaaaafaaaafaaaafaaaafaaaafaaaafaaaafaaaafaaaafaaaafaaaafaaaafaaaafaaaafaaaafaaaafaaaafaaaafaaaafaaaafaaaafaaaafaaaafaaaafaaaafaaaafaaaafaaaafaaaafaaaafaaaafaaaafaaaafaaaafaaaafaaaafaaaafaaaafaaaafaaaafaaaafaaaafaaaafaaaafaaaafaaaafaaaafaaaafaaaafaaaafaaaafaaaafaaaafaaaafaaaafaaaafaaaafaaaafaaaafaaaafaaaafaaaafaaaafaaaafaaaafaaaafaaaafaaaafaaaafaaaafaaaafaaaafaaaafaaaafaaaafaaaafaaaafaaaafaaaafaaaafaaaafaaaafaaaafaaaafaaaafaaaafaaaafaaaafaaaafaaaafaaaafaaaafaaaafaaaafaaaafaaaafaaaafaaaafaaaafaaaafaaaafaaaafaaaafaaaafaaaafaaaafaaaafaaaafaaaafaaaafaaaafaaaafaaaafaaaafaaaafaaaafaaaafaaaafaaaafaaaafaaaafaaaafaaaafaaaafaaaafaaaafaaaafaaaafaaaafaaaafaaaafaaaafaaaafaaaafaaaafaaaafaaaafaaaafaaaafaaaafaaaafaaaafaaaafaaaafaaaafaaaafaaaafaaaafaaaafaaaafaaaafaaaafaaaafaaaafaaaafaaaafaaaafaaaafaaaafaaaafaaaafaaaafaaaafaaaafaaaafaaaafaaaafaaaafaaaafaaaafaaaafaaaafaaaafaaaafaaaafaaaafaaaafaaaafaaaafaaaafaaaafaaaafaaaafaaaafaaaafaaaafaaaafaaaafaaaafaaaafaaaafaaaafaaaafaaaafaaaafaaaafaaaafaaaafaaaafaaaafaaaafaaaafaaaafaaaafaaaafaaaafaaaafaaaafaaaafaaaafaaaafaaaafaaaafaaaafaaaafaaaafaaaafaaaafaaaafaaaafaaaafaaaafaaaafaaaafaaaafaaaafaaaafaaaafaaaafaaaafaaaafaaaafaaaafaaaafaaaafaaaafaaaafaaaafaaaafaaaafaaaafaaaafaaaafaaaafaaaafaaaafaaaafaaaafaaaafaaaafaaaafaaaafaaaafaaaafaaaafaaaafaaaafaaaafaaaafaaaafaaaafaaaafaaaafaaaafaaaafaaaafaaaafaaaafaaaafaaaafaaaafaaaafaaaafaaaafaaaafaaaafaaaafaaaafaaaafaaaafaaaafaaaafaaaafaaaafaaaafaaaafaaaafaaaafaaaafaaaafaaaafaaaafaaaafaaaafaaaafaaaafaaaafaaaafaaaafaaaafaaaafaaaafaaaafaaaafaaaafaaaafaaaafaaaafaaaafaaaafaaaafaaaafaaaafaaaafaaaafaaaafaaaafaaaafaaaafaaaafaaaafaaaafaaaafaaaafaaaafaaaafaaaafaaaafaaaafaaaafaaaafaaaafaaaafaaaafaaaafaaaafaaaafaaaafaaaafaaaafaaaafaaaafaaaafaaaafaaaafaaaafaaaafaaaafaaaafaaaafaaaafaaaafaaaafaaaafaaaafaaaafaaaafaaaafaaaafaaaafaaaafaaaafaaaafaaaafaaaafaaaafaaaafaaaafaaaafaaaafaaaafaaaafaaaafaaaafaaaafaaaafaaaafaaaafaaaafaaaafaaaafaaaafaaaafaaaafaaaafaaaafaaaafaaaafaaaafaaaafaaaafaaaafaaaafaaaafaaaafaaaafaaaafaaaafaaaafaaaafaaaafaaaafaaaafaaaafaaaafaaaafaaaafaaaafaaaafaaaafaaaafaaaafaaaafaaaafaaaafaaaafaaaafaaaafaaaafaaaafaaaafaaaafaaaafaaaafaaaafaaaafaaaafaaaafaaaafaaaafaaaafaaaafaaaafaaaafaaaafaaaafaaaafaaaafaaaafaaaafaaaafaaaafaaaafaaaafaaaafaaaafaaaafaaaafaaaafaaaafaaaafaaaafaaaafaaaafaaaafaaaafaaaafaaaafaaaafaaaafaaaafaaaafaaaafaaaafaaaafaaaafaaaafaaaafaaaafaaaafaaaafaaaafaaaafaaaafaaaafaaaafaaaafaaaafaaaafaaaafaaaafaaaafaaaafaaaafaaaafaaaafaaaafaaaafaaaafaaaafaaaafaaaafaaaafaaaafaaaafaaaafaaaafaaaafaaaafaaaafaaaafaaaafaaaafaaaafaaaafaaaafaaaafaaaafaaaafaaaafaaaafaaaafaaaafaaaafaaaafaaaafaaaafaaaafaaaafaaaafaaaafaaaafaaaafaaaafaaaafaaaafaaaafaaaafaaaafaaaafaaaafaaaafaaaafaaaafaaaafaaaafaaaafaaaafaaaafaaaafaaaafaaaafaaaafaaaafaaaafaaaafaaaafaaaafaaaafaaaafaaaafaaaafaaaafaaaafaaaafaaaafaaaafaaaafaaaafaaaafaaaafaaaafaaaafaaaafaaaafaaaafaaaafaaaafaaaafaaaafaaaafaaaafaaaafaaaafaaaafaaaafaaaafaaaafaaaafaaaafaaaafaaaafaaaafaaaafaaaafaaaafaaaafaaaafaaaafaaaafaaaafaaaafaaaafaaaafaaaafaaaafaaaafaaaafaaaafaaaafaaaafaaaafaaaafaaaafaaaafaaaafaaaafaaaafaaaafaaaafaaaafaaaafaaaafaaaafaaaafaaaafaaaafaaaafaaaafaaaafaaaafaaaafaaaafaaaafaaaafaaaafaaaafaaaafaaaafaaaafaaaafaaaafaaaafaaaafaaaafaaaafaaaafaaaafaaaafaaaafaaaafaaaafaaaafaaaafaaaafaaaafaaaafaaaafaaaafaaaafaaaafaaaafaaaafaaaafaaaafaaaafaaaafaaaafaaaafaaaafaaaafaaaafaaaafaaaafaaaafaaaafaaaafaaaafaaaafaaaafaaaafaaaafaaaafaaaafaaaafaaaafaaaafaaaafaaaafaaaafaaaafaaaafaaaafaaaafaaaafaaaafaaaafaaaafaaaafaaaafaaaafaaaafaaaafaaaafaaaafaaaafaaaafaaaafaaaafaaaafaaaafaaaafaaaafaaaafaaaafaaaafaaaafaaaafaaaafaaaafaaaafaaaafaaaafaaaafaaaafaaaafaaaafaaaafaaaafaaaafaaaafaaaafaaaafaaaafaaaafaaaafaaaafaaaafaaaafaaaafaaaafaaaafaaaafaaaafaaaafaaaafaaaafaaaafaaaafaaaafaaaafaaaafaaaafaaaafaaaafaaaafaaaafaaaafaaaafaaaafaaaafaaaafaaaafaaaafaaaafaaaafaaaafaaaafaaaafaaaafaaaafaaaafaaaafaaaafaaaafaaaafaaaafaaaafaaaafaaaafaaaafaaaafaaaafaaaafaaaafaaaafaaaafaaaafaaaafaaaafaaaafaaaafaaaafaaaafaaaafaaaafaaaafaaaafaaaafaaaafaaaafaaaafaaaafaaaafaaaafaaaafaaaafaaaafaaaafaaaafaaaafaaaafaaaafaaaafaaaafaaaafaaaafaaaafaaaafaaaafaaaafaaaafaaaafaaaafaaaafaaaafaaaafaaaafaaaafaaaafaaaafaaaafaaaafaaaafaaaafaaaafaaaafaaaafaaaafaaaafaaaafaaaafaaaafaaaafaaaafaaaafaaaafaaaafaaaafaaaafaaaafaaaafaaaafaaaafaaaafaaaafaaaafaaaafaaaafaaaafaaaafaaaafaaaafaaaafaaaafaaaafaaaafaaaafaaaafaaaafaaaafaaaafaaaafaaaafaaaafaaaafaaaafaaaafaaaafaaaafaaaafaaaafaaaafaaaafaaaafaaaafaaaafaaaafaaaafaaaafaaaafaaaafaaaafaaaafaaaafaaaafaaaafaaaafaaaafaaaafaaaafaaaafaaaafaaaafaaaafaaaafaaaafaaaafaaaafaaaafaaaafaaaafaaaafaaaafaaaafaaaafaaaafaaaafaaaafaaaafaaaafaaaafaaaafaaaafaaaafaaaafaaaafaaaafaaaafaaaafaaaafaaaafaaaafaaaafaaaafaaaafaaaafaaaafaaaafaaaafaaaafaaaafaaaafaaaafaaaafaaaafaaaafaaaafaaaafaaaafaaaafaaaafaaaafaaaafaaaafaaaafaaaafaaaafaaaafaaaafaaaafaaaafaaaafaaaafaaaafaaaafaaaafaaaafaaaafaaaafaaaafaaaafaaaafaaaafaaaafaaaafaaaafaaaafaaaafaaaafaaaafaaaafaaaafaaaafaaaafaaaafaaaafaaaafaaaafaaaafaaaafaaaafaaaafaaaafaaaafaaaafaaaafaaaafaaaafaaaafaaaafaaaafaaaafaaaafaaaafaaaafaaaafaaaafaaaafaaaafaaaafaaaafaaaafaaaafaaaafaaaafaaaafaaaafaaaafaaaafaaaafaaaafaaaafaaaafaaaafaaaafaaaafaaaafaaaafaaaafaaaafaaaafaaaafaaaafaaaafaaaafaaaafaaaafaaaafaaaafaaaafaaaafaaaafaaaafaaaafaaaafaaaafaaaafaaaafaaaafaaaafaaaafaaaafaaaafaaaafaaaafaaaafaaaafaaaafaaaafaaaafaaaafaaaafaaaafaaaafaaaafaaaafaaaafaaaafaaaafaaaafaaaafaaaafaaaafaaaafaaaafaaaafaaaafaaaafaaaafaaaafaaaafaaaafaaaafaaaafaaaafaaaafaaaafaaaafaaaafaaaafaaaafaaaafaaaafaaaafaaaafaaaafaaaafaaaafaaaafaaaafaaaafaaaafaaaafaaaafaaaafaaaafaaaafaaaafaaaafaaaafaaaafaaaafaaaafaaaafaaaafaaaafaaaafaaaafaaaafaaaafaaaafaaaafaaaafaaaafaaaafaaaafaaaafaaaafaaaafaaaafaaaafaaaafaaaafaaaafaaaafaaaafaaaafaaaafaaaafaaaafaaaafaaaafaaaafaaaafaaaafaaaafaaaafaaaafaaaafaaaafaaaafaaaafaaaafaaaafaaaafaaaafaaaafaaaafaaaafaaaafaaaafaaaafaaaafaaaafaaaafaaaafaaaafaaaafaaaafaaaafaaaafaaaafaaaafaaaafaaaafaaaafaaaafaaaafaaaafaaaafaaaafaaaafaaaafaaaafaaaafaaaafaaaafaaaafaaaafaaaafaaaafaaaafaaaafaaaafaaaafaaaafaaaafaaaafaaaafaaaafaaaafaaaafaaaafaaaafaaaafaaaafaaaafaaaafaaaafaaaafaaaafaaaafaaaafaaaafaaaafaaaafaaaafaaaafaaaafaaaafaaaafaaaafaaaafaaaafaaaafaaaafaaaafaaaafaaaafaaaafaaaafaaaafaaaafaaaafaaaafaaaafaaaafaaaafaaaafaaaafaaaafaaaafaaaafaaaafaaaafaaaafaaaafaaaafaaaafaaaafaaaafaaaafaaaafaaaafaaaafaaaafaaaafaaaafaaaafaaaafaaaafaaaafaaaafaaaafaaaafaaaafaaaafaaaafaaaafaaaafaaaafaaaafaaaafaaaafaaaafaaaafaaaafaaaafaaaafaaaafaaaafaaaafaaaafaaaafaaaafaaaafaaaafaaaafaaaafaaaafaaaafaaaafaaaafaaaafaaaafaaaafaaaafaaaafaaaafaaaafaaaafaaaafaaaafaaaafaaaafaaaafaaaafaaaafaaaafaaaafaaaafaaaafaaaafaaaafaaaafaaaafaaaafaaaafaaaafaaaafaaaafaaaafaaaafaaaafaaaafaaaafaaaafaaaafaaaafaaaafaaaafaaaafaaaafaaaafaaaafaaaafaaaafaaaafaaaafaaaafaaaafaaaafaaaafaaaafaaaafaaaafaaaafaaaafaaaafaaaafaaaafaaaafaaaafaaaafaaaafaaaafaaaafaaaafaaaafaaaafaaaafaaaafaaaafaaaafaaaafaaaafaaaafaaaafaaaafaaaafaaaafaaaafaaaafaaaafaaaafaaaafaaaafaaaafaaaafaaaafaaaafaaaafaaaafaaaafaaaafaaaafaaaafaaaafaaaafaaaafaaaafaaaafaaaafaaaafaaaafaaaafaaaafaaaafaaaafaaaafaaaafaaaafaaaafaaaafaaaafaaaafaaaafaaaafaaaafaaaafaaaafaaaafaaaafaaaafaaaafaaaafaaaafaaaafaaaafaaaafaaaafaaaafaaaafaaaafaaaafaaaafaaaafaaaafaaaafaaaafaaaafaaaafaaaafaaaafaaaafaaaafaaaafaaaafaaaafaaaafaaaafaaaafaaaafaaaafaaaafaaaafaaaafaaaafaaaafaaaafaaaafaaaafaaaafaaaafaaaafaaaafaaaafaaaafaaaafaaaafaaaafaaaafaaaafaaaafaaaafaaaafaaaafaaaafaaaafaaaafaaaafaaaafaaaafaaaafaaaafaaaafaaaafaaaafaaaafaaaafaaaafaaaafaaaafaaaafaaaafaaaafaaaafaaaafaaaafaaaafaaaafaaaafaaaafaaaafaaaafaaaafaaaafaaaafaaaafaaaafaaaafaaaafaaaafaaaafaaaafaaaafaaaafaaaafaaaafaaaafaaaafaaaafaaaafaaaafaaaafaaaafaaaafaaaafaaaafaaaafaaaafaaaafaaaafaaaafaaaafaaaafaaaafaaaafaaaafaaaafaaaafaaaafaaaafaaaafaaaafaaaafaaaafaaaafaaaafaaaafaaaafaaaafaaaafaaaafaaaafaaaafaaaafaaaafaaaafaaaafaaaafaaaafaaaafaaaafaaaafaaaafaaaafaaaafaaaafaaaafaaaafaaaafaaaafaaaafaaaafaaaafaaaafaaaafaaaafaaaafaaaafaaaafaaaafaaaafaaaafaaaafaaaafaaaafaaaafaaaafaaaafaaaafaaaafaaaafaaaafaaaafaaaafaaaafaaaafaaaafaaaafaaaafaaaafaaaafaaaafaaaafaaaafaaaafaaaafaaaafaaaafaaaafaaaafaaaafaaaafaaaafaaaafaaaafaaaafaaaafaaaafaaaafaaaafaaaafaaaafaaaafaaaafaaaafaaaafaaaafaaaafaaaafaaaafaaaafaaaafaaaafaaaafaaaafaaaafaaaafaaaafaaaafaaaafaaaafaaaafaaaafaaaafaaaafaaaafaaaafaaaafaaaafaaaafaaaafaaaafaaaafaaaafaaaafaaaafaaaafaaaafaaaafaaaafaaaafaaaafaaaafaaaafaaaafaaaafaaaafaaaafaaaafaaaafaaaafaaaafaaaafaaaafaaaafaaaafaaaafaaaafaaaafaaaafaaaafaaaafaaaafaaaafaaaafaaaafaaaafaaaafaaaafaaaafaaaafaaaafaaaafaaaafaaaafaaaafaaaafaaaafaaaafaaaafaaaafaaaafaaaafaaaafaaaafaaaafaaaafaaaafaaaafaaaafaaaafaaaafaaaafaaaafaaaafaaaafaaaafaaaafaaaafaaaafaaaafaaaafaaaafaaaafaaaafaaaafaaaafaaaafaaaafaaaafaaaafaaaafaaaafaaaafaaaafaaaafaaaafaaaafaaaafaaaafaaaafaaaafaaaafaaaafaaaafaaaafaaaafaaaafaaaafaaaafaaaafaaaafaaaafaaaafaaaafaaaafaaaafaaaafaaaafaaaafaaaafaaaafaaaafaaaafaaaafaaaafaaaafaaaafaaaafaaaafaaaafaaaafaaaafaaaafaaaafaaaafaaaafaaaafaaaafaaaafaaaafaaaafaaaafaaaafaaaafaaaafaaaafaaaafaaaafaaaafaaaafaaaafaaaafaaaafaaaafaaaafaaaafaaaafaaaafaaaafaaaafaaaafaaaafaaaafaaaafaaaafaaaafaaaafaaaafaaaafaaaafaaaafaaaafaaaafaaaafaaaafaaaafaaaafaaaafaaaafaaaafaaaafaaaafaaaafaaaafaaaafaaaafaaaafaaaafaaaafaaaafaaaafaaaafaaaafaaaafaaaafaaaafaaaafaaaafaaaafaaaafaaaafaaaafaaaafaaaafaaaafaaaafaaaafaaaafaaaafaaaafaaaafaaaafaaaafaaaafaaaafaaaafaaaafaaaafaaaafaaaafaaaafaaaafaaaafaaaafaaaafaaaafaaaafaaaafaaaafaaaafaaaafaaaafaaaafaaaafaaaafaaaafaaaafaaaafaaaafaaaafaaaafaaaafaaaafaaaafaaaafaaaafaaaafaaaafaaaafaaaafaaaafaaaafaaaafaaaafaaaafaaaafaaaafaaaafaaaafaaaafaaaafaaaafaaaafaaaafaaaafaaaafaaaafaaaafaaaafaaaafaaaafaaaafaaaafaaaafaaaafaaaafaaaafaaaafaaaafaaaafaaaafaaaafaaaafaaaafaaaafaaaafaaaafaaaafaaaafaaaafaaaafaaaafaaaafaaaafaaaafaaaafaaaafaaaafaaaafaaaafaaaafaaaafaaaafaaaafaaaafaaaafaaaafaaaafaaaafaaaafaaaafaaaafaaaafaaaafaaaafaaaafaaaafaaaafaaaafaaaafaaaafaaaafaaaafaaaafaaaafaaaafaaaafaaaafaaaafaaaafaaaafaaaafaaaafaaaafaaaafaaaafaaaafaaaafaaaafaaaafaaaafaaaafaaaafaaaafaaaafaaaafaaaafaaaafaaaafaaaafaaaafaaaafaaaafaaaafaaaafaaaafaaaafaaaafaaaafaaaafaaaafaaaafaaaafaaaafaaaafaaaafaaaafaaaafaaaafaaaafaaaafaaaafaaaafaaaafaaaafaaaafaaaafaaaafaaaafaaaafaaaafaaaafaaaafaaaafaaaafaaaafaaaafaaaafaaaafaaaafaaaafaaaafaaaafaaaafaaaafaaaafaaaafaaaafaaaafaaaafaaaafaaaafaaaafaaaafaaaafaaaafaaaafaaaafaaaafaaaafaaaafaaaafaaaafaaaafaaaafaaaafaaaafaaaafaaaafaaaafaaaafaaaafaaaafaaaafaaaafaaaafaaaafaaaafaaaafaaaafaaaafaaaafaaaafaaaafaaaafaaaafaaaafaaaafaaaafaaaafaaaafaaaafaaaafaaaafaaaafaaaafaaaafaaaafaaaafaaaafaaaafaaaafaaaafaaaafaaaafaaaafaaaafaaaafaaaafaaaafaaaafaaaafaaaafaaaafaaaafaaaafaaaafaaaafaaaafaaaafaaaafaaaafaaaafaaaafaaaafaaaafaaaafaaaafaaaafaaaafaaaafaaaafaaaafaaaafaaaafaaaafaaaafaaaafaaaafaaaafaaaafaaaafaaaafaaaafaaaafaaaafaaaafaaaafaaaafaaaafaaaafaaaafaaaafaaaafaaaafaaaafaaaafaaaafaaaafaaaafaaaafaaaafaaaafaaaafaaaafaaaafaaaafaaaafaaaafaaaafaaaafaaaafaaaafaaaafaaaafaaaafaaaafaaaafaaaafaaaafaaaafaaaafaaaafaaaafaaaafaaaafaaaafaaaafaaaafaaaafaaaafaaaafaaaafaaaafaaaafaaaafaaaafaaaafaaaafaaaafaaaafaaaafaaaafaaaafaaaafaaaafaaaafaaaafaaaafaaaafaaaafaaaafaaaafaaaafaaaafaaaafaaaafaaaafaaaafaaaafaaaafaaaafaaaafaaaafaaaafaaaafaaaafaaaafaaaafaaaafaaaafaaaafaaaafaaaafaaaafaaaafaaaafaaaafaaaafaaaafaaaafaaaafaaaafaaaafaaaafaaaafaaaafaaaafaaaafaaaafaaaafaaaafaaaafaaaafaaaafaaaafaaaafaaaafaaaafaaaafaaaafaaaafaaaafaaaafaaaafaaaafaaaafaaaafaaaafaaaafaaaafaaaafaaaafaaaafaaaafaaaafaaaafaaaafaaaafaaaafaaaafaaaafaaaafaaaafaaaafaaaafaaaafaaaafaaaafaaaafaaaafaaaafaaaafaaaafaaaafaaaafaaaafaaaafaaaafaaaafaaaafaaaafaaaafaaaafaaaafaaaafaaaafaaaafaaaafaaaafaaaafaaaafaaaafaaaafaaaafaaaafaaaafaaaafaaaafaaaafaaaafaaaafaaaafaaaafaaaafaaaafaaaafaaaafaaaafaaaafaaaafaaaafaaaafaaaafaaaafaaaafaaaafaaaafaaaafaaaafaaaafaaaafaaaafaaaafaaaafaaaafaaaafaaaafaaaafaaaafaaaafaaaafaaaafaaaafaaaafaaaafaaaafaaaafaaaafaaaafaaaafaaaafaaaafaaaafaaaafaaaafaaaafaaaafaaaafaaaafaaaafaaaafaaaafaaaafaaaafaaaafaaaafaaaafaaaafaaaafaaaafaaaafaaaafaaaafaaaafaaaafaaaafaaaafaaaafaaaafaaaafaaaafaaaafaaaafaaaafaaaafaaaafaaaafaaaafaaaafaaaafaaaafaaaafaaaafaaaafaaaafaaaafaaaafaaaafaaaafaaaafaaaafaaaafaaaafaaaafaaaafaaaafaaaafaaaafaaaafaaaafaaaafaaaafaaaafaaaafaaaafaaaafaaaafaaaafaaaafaaaafaaaafaaaafaaaafaaaafaaaafaaaafaaaafaaaafaaaafaaaafaaaafaaaafaaaafaaaafaaaafaaaafaaaafaaaafaaaafaaaafaaaafaaaafaaaafaaaafaaaafaaaafaaaafaaaafaaaafaaaafaaaafaaaafaaaafaaaafaaaafaaaafaaaafaaaafaaaafaaaafaaaafaaaafaaaafaaaafaaaafaaaafaaaafaaaafaaaafaaaafaaaafaaaafaaaafaaaafaaaafaaaafaaaafaaaafaaaafaaaafaaaafaaaafaaaafaaaafaaaafaaaafaaaafaaaafaaaafaaaafaaaafaaaafaaaafaaaafaaaafaaaafaaaafaaaafaaaafaaaafaaaafaaaafaaaafaaaafaaaafaaaafaaaafaaaafaaaafaaaafaaaafaaaafaaaafaaaafaaaafaaaafaaaafaaaafaaaafaaaafaaaafaaaafaaaafaaaafaaaafaaaafaaaafaaaafaaaafaaaafaaaafaaaafaaaafaaaafaaaafaaaafaaaafaaaafaaaafaaaafaaaafaaaafaaaafaaaafaaaafaaaafaaaafaaaafaaaafaaaafaaaafaaaafaaaafaaaafaaaafaaaafaaaafaaaafaaaafaaaafaaaafaaaafaaaafaaaafaaaafaaaafaaaafaaaafaaaafaaaafaaaafaaaafaaaafaaaafaaaafaaaafaaaafaaaafaaaafaaaafaaaafaaaafaaaafaaaafaaaafaaaafaaaafaaaafaaaafaaaafaaaafaaaafaaaafaaaafaaaafaaaafaaaafaaaafaaaafaaaafaaaafaaaafaaaafaaaafaaaafaaaafaaaafaaaafaaaafaaaafaaaafaaaafaaaafaaaafaaaafaaaafaaaafaaaafaaaafaaaafaaaafaaaafaaaafaaaafaaaafaaaafaaaafaaaafaaaafaaaafaaaafaaaafaaaafaaaafaaaafaaaafaaaafaaaafaaaafaaaafaaaafaaaafaaaafaaaafaaaafaaaafaaaafaaaafaaaafaaaafaaaafaaaafaaaafaaaafaaaafaaaafaaaafaaaafaaaafaaaafaaaafaaaafaaaafaaaafaaaafaaaafaaaafaaaafaaaafaaaafaaaafaaaafaaaafaaaafaaaafaaaafaaaafaaaafaaaafaaaafaaaafaaaafaaaafaaaafaaaafaaaafaaaafaaaafaaaafaaaafaaaafaaaafaaaafaaaafaaaafaaaafaaaafaaaafaaaafaaaafaaaafaaaafaaaafaaaafaaaafaaaafaaaafaaaafaaaafaaaafaaaafaaaafaaaafaaaafaaaafaaaafaaaafaaaafaaaafaaaafaaaafaaaafaaaafaaaafaaaafaaaafaaaafaaaafaaaafaaaafaaaafaaaafaaaafaaaafaaaafaaaafaaaafaaaafaaaafaaaafaaaafaaaafaaaafaaaafaaaafaaaafaaaafaaaafaaaafaaaafaaaafaaaafaaaafaaaafaaaafaaaafaaaafaaaafaaaafaaaafaaaafaaaafaaaafaaaafaaaafaaaafaaaafaaaafaaaafaaaafaaaafaaaafaaaafaaaafaaaafaaaafaaaafaaaafaaaafaaaafaaaafaaaafaaaafaaaafaaaafaaaafaaaafaaaafaaaafaaaafaaaafaaaafaaaafaaaafaaaafaaaafaaaafaaaafaaaafaaaafaaaafaaaafaaaafaaaafaaaafaaaafaaaafaaaafaaaafaaaafaaaafaaaafaaaafaaaafaaaafaaaafaaaafaaaafaaaafaaaafaaaafaaaafaaaafaaaafaaaafaaaafaaaafaaaafaaaafaaaafaaaafaaaafaaaafaaaafaaaafaaaafaaaafaaaafaaaafaaaafaaaafaaaafaaaafaaaafaaaafaaaafaaaafaaaafaaaafaaaafaaaafaaaafaaaafaaaafaaaafaaaafaaaafaaaafaaaafaaaafaaaafaaaafaaaafaaaafaaaafaaaafaaaafaaaafaaaafaaaafaaaafaaaafaaaafaaaafaaaafaaaafaaaafaaaafaaaafaaaafaaaafaaaafaaaafaaaafaaaafaaaafaaaafaaaafaaaafaaaafaaaafaaaafaaaafaaaafaaaafaaaafaaaafaaaafaaaafaaaafaaaafaaaafaaaafaaaafaaaafaaaafaaaafaaaafaaaafaaaafaaaafaaaafaaaafaaaafaaaafaaaafaaaafaaaafaaaafaaaafaaaafaaaafaaaafaaaafaaaafaaaafaaaafaaaafaaaafaaaafaaaafaaaafaaaafaaaafaaaafaaaafaaaafaaaafaaaafaaaafaaaafaaaafaaaafaaaafaaaafaaaafaaaafaaaafaaaafaaaafaaaafaaaafaaaafaaaafaaaafaaaafaaaafaaaafaaaafaaaafaaaafaaaafaaaafaaaafaaaafaaaafaaaafaaaafaaaafaaaafaaaafaaaafaaaafaaaafaaaafaaaafaaaafaaaafaaaafaaaafaaaafaaaafaaaafaaaafaaaafaaaafaaaafaaaafaaaafaaaafaaaafaaaafaaaafaaaafaaaafaaaafaaaafaaaafaaaafaaaafaaaafaaaafaaaafaaaafaaaafaaaafaaaafaaaafaaaafaaaafaaaafaaaafaaaafaaaafaaaafaaaafaaaafaaaafaaaafaaaafaaaafaaaafaaaafaaaafaaaafaaaafaaaafaaaafaaaafaaaafaaaafaaaafaaaafaaaafaaaafaaaafaaaafaaaafaaaafaaaafaaaafaaaafaaaafaaaafaaaafaaaafaaaafaaaafaaaafaaaafaaaafaaaafaaaafaaaafaaaafaaaafaaaafaaaafaaaafaaaafaaaafaaaafaaaafaaaafaaaafaaaafaaaafaaaafaaaafaaaafaaaafaaaafaaaafaaaafaaaafaaaafaaaafaaaafaaaafaaaafaaaafaaaafaaaafaaaafaaaafaaaafaaaafaaaafaaaafaaaafaaaafaaaafaaaafaaaafaaaafaaaafaaaafaaaafaaaafaaaafaaaafaaaafaaaafaaaafaaaafaaaafaaaafaaaafaaaafaaaafaaaafaaaafaaaafaaaafaaaafaaaafaaaafaaaafaaaafaaaafaaaafaaaafaaaafaaaafaaaafaaaafaaaafaaaafaaaafaaaafaaaafaaaafaaaafaaaafaaaafaaaafaaaafaaaafaaaafaaaafaaaafaaaafaaaafaaaafaaaafaaaafaaaafaaaafaaaafaaaafaaaafaaaafaaaafaaaafaaaafaaaafaaaafaaaafaaaafaaaafaaaafaaaafaaaafaaaafaaaafaaaafaaaafaaaafaaaafaaaafaaaafaaaafaaaafaaaafaaaafaaaafaaaafaaaafaaaafaaaafaaaafaaaafaaaafaaaafaaaafaaaafaaaafaaaafaaaafaaaafaaaafaaaafaaaafaaaafaaaafaaaafaaaafaaaafaaaafaaaafaaaafaaaafaaaafaaaafaaaafaaaafaaaafaaaafaaaafaaaafaaaafaaaafaaaafaaaafaaaafaaaafaaaafaaaafaaaafaaaafaaaafaaaafaaaafaaaafaaaafaaaafaaaafaaaafaaaafaaaafaaaafaaaafaaaafaaaafaaaafaaaafaaaafaaaafaaaafaaaafaaaafaaaafaaaafaaaafaaaafaaaafaaaafaaaafaaaafaaaafaaaafaaaafaaaafaaaafaaaafaaaafaaaafaaaafaaaafaaaafaaaafaaaafaaaafaaaafaaaafaaaafaaaafaaaafaaaafaaaafaaaafaaaafaaaafaaaafaaaafaaaafaaaafaaaafaaaafaaaafaaaafaaaafaaaafaaaafaaaafaaaafaaaafaaaafaaaafaaaafaaaafaaaafaaaafaaaafaaaafaaaafaaaafaaaafaaaafaaaafaaaafaaaafaaaafaaaafaaaafaaaafaaaafaaaafaaaafaaaafaaaafaaaafaaaafaaaafaaaafaaaafaaaafaaaafaaaafaaaafaaaafaaaafaaaafaaaafaaaafaaaafaaaafaaaafaaaafaaaafaaaafaaaafaaaafaaaafaaaafaaaafaaaafaaaafaaaafaaaafaaaafaaaafaaaafaaaafaaaafaaaafaaaafaaaafaaaafaaaafaaaafaaaafaaaafaaaafaaaafaaaafaaaafaaaafaaaafaaaafaaaafaaaafaaaafaaaafaaaafaaaafaaaafaaaafaaaafaaaafaaaafaaaafaaaafaaaafaaaafaaaafaaaafaaaafaaaafaaaafaaaafaaaafaaaafaaaafaaaafaaaafaaaafaaaafaaaafaaaafaaaafaaaafaaaafaaaafaaaafaaaafaaaafaaaafaaaafaaaafaaaafaaaafaaaafaaaafaaaafaaaafaaaafaaaafaaaafaaaafaaaafaaaafaaaafaaaafaaaafaaaafaaaafaaaafaaaafaaaafaaaafaaaafaaaafaaaafaaaafaaaafaaaafaaaafaaaafaaaafaaaafaaaafaaaafaaaafaaaafaaaafaaaafaaaafaaaafaaaafaaaafaaaafaaaafaaaafaaaafaaaafaaaafaaaafaaaafaaaafaaaafaaaafaaaafaaaafaaaafaaaafaaaafaaaafaaaafaaaafaaaafaaaafaaaafaaaafaaaafaaaafaaaafaaaafaaaafaaaafaaaafaaaafaaaafaaaafaaaafaaaafaaaafaaaafaaaafaaaafaaaafaaaafaaaafaaaafaaaafaaaafaaaafaaaafaaaafaaaafaaaafaaaafaaaafaaaafaaaafaaaafaaaafaaaafaaaafaaaafaaaafaaaafaaaafaaaafaaaafaaaafaaaafaaaafaaaafaaaafaaaafaaaafaaaafaaaafaaaafaaaafaaaafaaaafaaaafaaaafaaaafaaaafaaaafaaaafaaaafaaaafaaaafaaaafaaaafaaaafaaaafaaaafaaaafaaaafaaaafaaaafaaaafaaaafaaaafaaaafaaaafaaaafaaaafaaaafaaaafaaaafaaaafaaaafaaaafaaaafaaaafaaaafaaaafaaaafaaaafaaaafaaaafaaaafaaaafaaaafaaaafaaaafaaaafaaaafaaaafaaaafaaaafaaaafaaaafaaaafaaaafaaaafaaaafaaaafaaaafaaaafaaaafaaaafaaaafaaaafaaaafaaaafaaaafaaaafaaaafaaaafaaaafaaaafaaaafaaaafaaaafaaaafaaaafaaaafaaaafaaaafaaaafaaaafaaaafaaaafaaaafaaaafaaaafaaaafaaaafaaaafaaaafaaaafaaaafaaaafaaaafaaaafaaaafaaaafaaaafaaaafaaaafaaaafaaaafaaaafaaaafaaaafaaaafaaaafaaaafaaaafaaaafaaaafaaaafaaaafaaaafaaaafaaaafaaaafaaaafaaaafaaaafaaaafaaaafaaaafaaaafaaaafaaaafaaaafaaaafaaaafaaaafaaaafaaaafaaaafaaaafaaaafaaaafaaaafaaaafaaaafaaaafaaaafaaaafaaaafaaaafaaaafaaaafaaaafaaaafaaaafaaaafaaaafaaaafaaaafaaaafaaaafaaaafaaaafaaaafaaaafaaaafaaaafaaaafaaaafaaaafaaaafaaaafaaaafaaaafaaaafaaaafaaaafaaaafaaaafaaaafaaaafaaaafaaaafaaaafaaaafaaaafaaaafaaaafaaaafaaaafaaaafaaaafaaaafaaaafaaaafaaaafaaaafaaaafaaaafaaaafaaaafaaaafaaaafaaaafaaaafaaaafaaaafaaaafaaaafaaaafaaaafaaaafaaaafaaaafaaaafaaaafaaaafaaaafaaaafaaaafaaaafaaaafaaaafaaaafaaaafaaaafaaaafaaaafaaaafaaaafaaaafaaaafaaaafaaaafaaaafaaaafaaaafaaaafaaaafaaaafaaaafaaaafaaaafaaaafaaaafaaaafaaaafaaaafaaaafaaaafaaaafaaaafaaaafaaaafaaaafaaaafaaaafaaaafaaaafaaaafaaaafaaaafaaaafaaaafaaaafaaaafaaaafaaaafaaaafaaaafaaaafaaaafaaaafaaaafaaaafaaaafaaaafaaaafaaaafaaaafaaaafaaaafaaaafaaaafaaaafaaaafaaaafaaaafaaaafaaaafaaaafaaaafaaaafaaaafaaaafaaaafaaaafaaaafaaaafaaaafaaaafaaaafaaaafaaaafaaaafaaaafaaaafaaaafaaaafaaaafaaaafaaaafaaaafaaaafaaaafaaaafaaaafaaaafaaaafaaaafaaaafaaaafaaaafaaaafaaaafaaaafaaaafaaaafaaaafaaaafaaaafaaaafaaaafaaaafaaaafaaaafaaaafaaaafaaaafaaaafaaaafaaaafaaaafaaaafaaaafaaaafaaaafaaaafaaaafaaaafaaaafaaaafaaaafaaaafaaaafaaaafaaaafaaaafaaaafaaaafaaaafaaaafaaaafaaaafaaaafaaaafaaaafaaaafaaaafaaaafaaaafaaaafaaaafaaaafaaaafaaaafaaaafaaaafaaaafaaaafaaaafaaaafaaaafaaaafaaaafaaaafaaaafaaaafaaaafaaaafaaaafaaaafaaaafaaaafaaaafaaaafaaaafaaaafaaaafaaaafaaaafaaaafaaaafaaaafaaaafaaaafaaaafaaaafaaaafaaaafaaaafaaaafaaaafaaaafaaaafaaaafaaaafaaaafaaaafaaaafaaaafaaaafaaaafaaaafaaaafaaaafaaaafaaaafaaaafaaaafaaaafaaaafaaaafaaaafaaaafaaaafaaaafaaaafaaaafaaaafaaaafaaaafaaaafaaaafaaaafaaaafaaaafaaaafaaaafaaaafaaaafaaaafaaaafaaaafaaaafaaaafaaaafaaaafaaaafaaaafaaaafaaaafaaaafaaaafaaaafaaaafaaaafaaaafaaaafaaaafaaaafaaaafaaaafaaaafaaaafaaaafaaaafaaaafaaaafaaaafaaaafaaaafaaaafaaaafaaaafaaaafaaaafaaaafaaaafaaaafaaaafaaaafaaaafaaaafaaaafaaaafaaaafaaaafaaaafaaaafaaaafaaaafaaaafaaaafaaaafaaaafaaaafaaaafaaaafaaaafaaaafaaaafaaaafaaaafaaaafaaaafaaaafaaaafaaaafaaaafaaaafaaaafaaaafaaaafaaaafaaaafaaaafaaaafaaaafaaaafaaaafaaaafaaaafaaaafaaaafaaaafaaaafaaaafaaaafaaaafaaaafaaaafaaaafaaaafaaaafaaaafaaaafaaaafaaaafaaaafaaaafaaaafaaaafaaaafaaaafaaaafaaaafaaaafaaaafaaaafaaaafaaaafaaaafaaaafaaaafaaaafaaaafaaaafaaaafaaaafaaaafaaaafaaaafaaaafaaaafaaaafaaaafaaaafaaaafaaaafaaaafaaaafaaaafaaaafaaaafaaaafaaaafaaaafaaaafaaaafaaaafaaaafaaaafaaaafaaaafaaaafaaaafaaaafaaaafaaaafaaaafaaaafaaaafaaaafaaaafaaaafaaaafaaaafaaaafaaaafaaaafaaaafaaaafaaaafaaaafaaaafaaaafaaaafaaaafaaaafaaaafaaaafaaaafaaaafaaaafaaaafaaaafaaaafaaaafaaaafaaaafaaaafaaaafaaaafaaaafaaaafaaaafaaaafaaaafaaaafaaaafaaaafaaaafaaaafaaaafaaaafaaaafaaaafaaaafaaaafaaaafaaaafaaaafaaaafaaaafaaaafaaaafaaaafaaaafaaaafaaaafaaaafaaaafaaaafaaaafaaaafaaaafaaaafaaaafaaaafaaaafaaaafaaaafaaaafaaaafaaaafaaaafaaaafaaaafaaaafaaaafaaaafaaaafaaaafaaaafaaaafaaaafaaaafaaaafaaaafaaaafaaaafaaaafaaaafaaaafaaaafaaaafaaaafaaaafaaaafaaaafaaaafaaaafaaaafaaaafaaaafaaaafaaaafaaaafaaaafaaaafaaaafaaaafaaaafaaaafaaaafaaaafaaaafaaaafaaaafaaaafaaaafaaaafaaaafaaaafaaaafaaaafaaaafaaaafaaaafaaaafaaaafaaaafaaaafaaaafaaaafaaaafaaaafaaaafaaaafaaaafaaaafaaaafaaaafaaaafaaaafaaaafaaaafaaaafaaaafaaaafaaaafaaaafaaaafaaaafaaaafaaaafaaaafaaaafaaaafaaaafaaaafaaaafaaaafaaaafaaaafaaaafaaaafaaaafaaaafaaaafaaaafaaaafaaaafaaaafaaaafaaaafaaaafaaaafaaaafaaaafaaaafaaaafaaaafaaaafaaaafaaaafaaaafaaaafaaaafaaaafaaaafaaaafaaaafaaaafaaaafaaaafaaaafaaaafaaaafaaaafaaaafaaaafaaaafaaaafaaaafaaaafaaaafaaaafaaaafaaaafaaaafaaaafaaaafaaaafaaaafaaaafaaaafaaaafaaaafaaaafaaaafaaaafaaaafaaaafaaaafaaaafaaaafaaaafaaaafaaaafaaaafaaaafaaaafaaaafaaaafaaaafaaaafaaaafaaaafaaaafaaaafaaaafaaaafaaaafaaaafaaaafaaaafaaaafaaaafaaaafaaaafaaaafaaaafaaaafaaaafaaaafaaaafaaaafaaaafaaaafaaaafaaaafaaaafaaaafaaaafaaaafaaaafaaaafaaaafaaaafaaaafaaaafaaaafaaaafaaaafaaaafaaaafaaaafaaaafaaaafaaaafaaaafaaaafaaaafaaaafaaaafaaaafaaaafaaaafaaaafaaaafaaaafaaaafaaaafaaaafaaaafaaaafaaaafaaaafaaaafaaaafaaaafaaaafaaaafaaaafaaaafaaaafaaaafaaaafaaaafaaaafaaaafaaaafaaaafaaaafaaaafaaaafaaaafaaaafaaaafaaaafaaaafaaaafaaaafaaaafaaaafaaaafaaaafaaaafaaaafaaaafaaaafaaaafaaaafaaaafaaaafaaaafaaaafaaaafaaaafaaaafaaaafaaaafaaaafaaaafaaaafaaaafaaaafaaaafaaaafaaaafaaaafaaaafaaaafaaaafaaaafaaaafaaaafaaaafaaaafaaaafaaaafaaaafaaaafaaaafaaaafaaaafaaaafaaaafaaaafaaaafaaaafaaaafaaaafaaaafaaaafaaaafaaaafaaaafaaaafaaaafaaaafaaaafaaaafaaaafaaaafaaaafaaaafaaaafaaaafaaaafaaaafaaaafaaaafaaaafaaaafaaaafaaaafaaaafaaaafaaaafaaaafaaaafaaaafaaaafaaaafaaaafaaaafaaaafaaaafaaaafaaaafaaaafaaaafaaaafaaaafaaaafaaaafaaaafaaaafaaaafaaaafaaaafaaaafaaaafaaaafaaaafaaaafaaaafaaaafaaaafaaaafaaaafaaaafaaaafaaaafaaaafaaaafaaaafaaaafaaaafaaaafaaaafaaaafaaaafaaaafaaaafaaaafaaaafaaaafaaaafaaaafaaaafaaaafaaaafaaaafaaaafaaaafaaaafaaaafaaaafaaaafaaaafaaaafaaaafaaaafaaaafaaaafaaaafaaaafaaaafaaaafaaaafaaaafaaaafaaaafaaaafaaaafaaaafaaaafaaaafaaaafaaaafaaaafaaaafaaaafaaaafaaaafaaaafaaaafaaaafaaaafaaaafaaaafaaaafaaaafaaaafaaaafaaaafaaaafaaaafaaaafaaaafaaaafaaaafaaaafaaaafaaaafaaaafaaaafaaaafaaaafaaaafaaaafaaaafaaaafaaaafaaaafaaaafaaaafaaaafaaaafaaaafaaaafaaaafaaaafaaaafaaaafaaaafaaaafaaaafaaaafaaaafaaaafaaaafaaaafaaaafaaaafaaaafaaaafaaaafaaaafaaaafaaaafaaaafaaaafaaaafaaaafaaaafaaaafaaaafaaaafaaaafaaaafaaaafaaaafaaaafaaaafaaaafaaaafaaaafaaaafaaaafaaaafaaaafaaaafaaaafaaaafaaaafaaaafaaaafaaaafaaaafaaaafaaaafaaaafaaaafaaaafaaaafaaaafaaaafaaaafaaaafaaaafaaaafaaaafaaaafaaaafaaaafaaaafaaaafaaaafaaaafaaaafaaaafaaaafaaaafaaaafaaaafaaaafaaaafaaaafaaaafaaaafaaaafaaaafaaaafaaaafaaaafaaaafaaaafaaaafaaaafaaaafaaaafaaaafaaaafaaaafaaaafaaaafaaaafaaaafaaaafaaaafaaaafaaaafaaaafaaaafaaaafaaaafaaaafaaaafaaaafaaaafaaaafaaaafaaaafaaaafaaaafaaaafaaaafaaaafaaaafaaaafaaaafaaaafaaaafaaaafaaaafaaaafaaaafaaaafaaaafaaaafaaaafaaaafaaaafaaaafaaaafaaaafaaaafaaaafaaaafaaaafaaaafaaaafaaaafaaaafaaaafaaaafaaaafaaaafaaaafaaaafaaaafaaaafaaaafaaaafaaaafaaaafaaaafaaaafaaaafaaaafaaaafaaaafaaaafaaaafaaaafaaaafaaaafaaaafaaaafaaaafaaaafaaaafaaaafaaaafaaaafaaaafaaaafaaaafaaaafaaaafaaaafaaaafaaaafaaaafaaaafaaaafaaaafaaaafaaaafaaaafaaaafaaaafaaaafaaaafaaaafaaaafaaaafaaaafaaaafaaaafaaaafaaaafaaaafaaaafaaaafaaaafaaaafaaaafaaaafaaaafaaaafaaaafaaaafaaaafaaaafaaaafaaaafaaaafaaaafaaaafaaaafaaaafaaaafaaaafaaaafaaaafaaaafaaaafaaaafaaaafaaaafaaaafaaaafaaaafaaaafaaaafaaaafaaaafaaaafaaaafaaaafaaaafaaaafaaaafaaaafaaaafaaaafaaaafaaaafaaaafaaaafaaaafaaaafaaaafaaaafaaaafaaaafaaaafaaaafaaaafaaaafaaaafaaaafaaaafaaaafaaaafaaaafaaaafaaaafaaaafaaaafaaaafaaaafaaaafaaaafaaaafaaaafaaaafaaaafaaaafaaaafaaaafaaaafaaaafaaaafaaaafaaaafaaaafaaaafaaaafaaaafaaaafaaaafaaaafaaaafaaaafaaaafaaaafaaaafaaaafaaaafaaaafaaaafaaaafaaaafaaaafaaaafaaaafaaaafaaaafaaaafaaaafaaaafaaaafaaaafaaaafaaaafaaaafaaaafaaaafaaaafaaaafaaaafaaaafaaaafaaaafaaaafaaaafaaaafaaaafaaaafaaaafaaaafaaaafaaaafaaaafaaaafaaaafaaaafaaaafaaaafaaaafaaaafaaaafaaaafaaaafaaaafaaaafaaaafaaaafaaaafaaaafaaaafaaaafaaaafaaaafaaaafaaaafaaaafaaaafaaaafaaaafaaaafaaaafaaaafaaaafaaaafaaaafaaaafaaaafaaaafaaaafaaaafaaaafaaaafaaaafaaaafaaaafaaaafaaaafaaaafaaaafaaaafaaaafaaaafaaaafaaaafaaaafaaaafaaaafaaaafaaaafaaaafaaaafaaaafaaaafaaaafaaaafaaaafaaaafaaaafaaaafaaaafaaaafaaaafaaaafaaaafaaaafaaaafaaaafaaaafaaaafaaaafaaaafaaaafaaaafaaaafaaaafaaaafaaaafaaaafaaaafaaaafaaaafaaaafaaaafaaaafaaaafaaaafaaaafaaaafaaaafaaaafaaaafaaaafaaaafaaaafaaaafaaaafaaaafaaaafaaaafaaaafaaaafaaaafaaaafaaaafaaaafaaaafaaaafaaaafaaaafaaaafaaaafaaaafaaaafaaaafaaaafaaaafaaaafaaaafaaaafaaaafaaaafaaaafaaaafaaaafaaaafaaaafaaaafaaaafaaaafaaaafaaaafaaaafaaaafaaaafaaaafaaaafaaaafaaaafaaaafaaaafaaaafaaaafaaaafaaaafaaaafaaaafaaaafaaaafaaaafaaaafaaaafaaaafaaaafaaaafaaaafaaaafaaaafaaaafaaaafaaaafaaaafaaaafaaaafaaaafaaaafaaaafaaaafaaaafaaaafaaaafaaaafaaaafaaaafaaaafaaaafaaaafaaaafaaaafaaaafaaaafaaaafaaaafaaaafaaaafaaaafaaaafaaaafaaaafaaaafaaaafaaaafaaaafaaaafaaaafaaaafaaaafaaaafaaaafaaaafaaaafaaaafaaaafaaaafaaaafaaaafaaaafaaaafaaaafaaaafaaaafaaaafaaaafaaaafaaaafaaaafaaaafaaaafaaaafaaaafaaaafaaaafaaaafaaaafaaaafaaaafaaaafaaaafaaaafaaaafaaaafaaaafaaaafaaaafaaaafaaaafaaaafaaaafaaaafaaaafaaaafaaaafaaaafaaaafaaaafaaaafaaaafaaaafaaaafaaaafaaaafaaaafaaaafaaaafaaaafaaaafaaaafaaaafaaaafaaaafaaaafaaaafaaaafaaaafaaaafaaaafaaaafaaaafaaaafaaaafaaaafaaaafaaaafaaaafaaaafaaaafaaaafaaaafaaaafaaaafaaaafaaaafaaaafaaaafaaaafaaaafaaaafaaaafaaaafaaaafaaaafaaaafaaaafaaaafaaaafaaaafaaaafaaaafaaaafaaaafaaaafaaaafaaaafaaaafaaaafaaaafaaaafaaaafaaaafaaaafaaaafaaaafaaaafaaaafaaaafaaaafaaaafaaaafaaaafaaaafaaaafaaaafaaaafaaaafaaaafaaaafaaaafaaaafaaaafaaaafaaaafaaaafaaaafaaaafaaaafaaaafaaaafaaaafaaaafaaaafaaaafaaaafaaaafaaaafaaaafaaaafaaaafaaaafaaaafaaaafaaaafaaaafaaaafaaaafaaaafaaaafaaaafaaaafaaaafaaaafaaaafaaaafaaaafaaaafaaaafaaaafaaaafaaaafaaaafaaaafaaaafaaaafaaaafaaaafaaaafaaaafaaaafaaaafaaaafaaaafaaaafaaaafaaaafaaaafaaaafaaaafaaaafaaaafaaaafaaaafaaaafaaaafaaaafaaaafaaaafaaaafaaaafaaaafaaaafaaaafaaaafaaaafaaaafaaaafaaaafaaaafaaaafaaaafaaaafaaaafaaaafaaaafaaaafaaaafaaaafaaaafaaaafaaaafaaaafaaaafaaaafaaaafaaaafaaaafaaaafaaaafaaaafaaaafaaaafaaaafaaaafaaaafaaaafaaaafaaaafaaaafaaaafaaaafaaaafaaaafaaaafaaaafaaaafaaaafaaaafaaaafaaaafaaaafaaaafaaaafaaaafaaaafaaaafaaaafaaaafaaaafaaaafaaaafaaaafaaaafaaaafaaaafaaaafaaaafaaaafaaaafaaaafaaaafaaaafaaaafaaaafaaaafaaaafaaaafaaaafaaaafaaaafaaaafaaaafaaaafaaaafaaaafaaaafaaaafaaaafaaaafaaaafaaaafaaaafaaaafaaaafaaaafaaaafaaaafaaaafaaaafaaaafaaaafaaaafaaaafaaaafaaaafaaaafaaaafaaaafaaaafaaaafaaaafaaaafaaaafaaaafaaaafaaaafaaaafaaaafaaaafaaaafaaaafaaaafaaaafaaaafaaaafaaaafaaaafaaaafaaaafaaaafaaaafaaaafaaaafaaaafaaaafaaaafaaaafaaaafaaaafaaaafaaaafaaaafaaaafaaaafaaaafaaaafaaaafaaaafaaaafaaaafaaaafaaaafaaaafaaaafaaaafaaaafaaaafaaaafaaaafaaaafaaaafaaaafaaaafaaaafaaaafaaaafaaaafaaaafaaaafaaaafaaaafaaaafaaaafaaaafaaaafaaaafaaaafaaaafaaaafaaaafaaaafaaaafaaaafaaaafaaaafaaaafaaaafaaaafaaaafaaaafaaaafaaaafaaaafaaaafaaaafaaaafaaaafaaaafaaaafaaaafaaaafaaaafaaaafaaaafaaaafaaaafaaaafaaaafaaaafaaaafaaaafaaaafaaaafaaaafaaaafaaaafaaaafaaaafaaaafaaaafaaaafaaaafaaaafaaaafaaaafaaaafaaaafaaaafaaaafaaaafaaaafaaaafaaaafaaaafaaaafaaaafaaaafaaaafaaaafaaaafaaaafaaaafaaaafaaaafaaaafaaaafaaaafaaaafaaaafaaaafaaaafaaaafaaaafaaaafaaaafaaaafaaaafaaaafaaaafaaaafaaaafaaaafaaaafaaaafaaaafaaaafaaaafaaaafaaaafaaaafaaaafaaaafaaaafaaaafaaaafaaaafaaaafaaaafaaaafaaaafaaaafaaaafaaaafaaaafaaaafaaaafaaaafaaaafaaaafaaaafaaaafaaaafaaaafaaaafaaaafaaaafaaaafaaaafaaaafaaaafaaaafaaaafaaaafaaaafaaaafaaaafaaaafaaaafaaaafaaaafaaaafaaaafaaaafaaaafaaaafaaaafaaaafaaaafaaaafaaaafaaaafaaaafaaaafaaaafaaaafaaaafaaaafaaaafaaaafaaaafaaaafaaaafaaaafaaaafaaaafaaaafaaaafaaaafaaaafaaaafaaaafaaaafaaaafaaaafaaaafaaaafaaaafaaaafaaaafaaaafaaaafaaaafaaaafaaaafaaaafaaaafaaaafaaaafaaaafaaaafaaaafaaaafaaaafaaaafaaaafaaaafaaaafaaaafaaaafaaaafaaaafaaaafaaaafaaaafaaaafaaaafaaaafaaaafaaaafaaaafaaaafaaaafaaaafaaaafaaaafaaaafaaaafaaaafaaaafaaaafaaaafaaaafaaaafaaaafaaaafaaaafaaaafaaaafaaaafaaaafaaaafaaaafaaaafaaaafaaaafaaaafaaaafaaaafaaaafaaaafaaaafaaaafaaaafaaaafaaaafaaaafaaaafaaaafaaaafaaaafaaaafaaaafaaaafaaaafaaaafaaaafaaaafaaaafaaaafaaaafaaaafaaaafaaaafaaaafaaaafaaaafaaaafaaaafaaaafaaaafaaaafaaaafaaaafaaaafaaaafaaaafaaaafaaaafaaaafaaaafaaaafaaaafaaaafaaaafaaaafaaaafaaaafaaaafaaaafaaaafaaaafaaaafaaaafaaaafaaaafaaaafaaaafaaaafaaaafaaaafaaaafaaaafaaaafaaaafaaaafaaaafaaaafaaaafaaaafaaaafaaaafaaaafaaaafaaaafaaaafaaaafaaaafaaaafaaaafaaaafaaaafaaaafaaaafaaaafaaaafaaaafaaaafaaaafaaaafaaaafaaaafaaaafaaaafaaaafaaaafaaaafaaaafaaaafaaaafaaaafaaaafaaaafaaaafaaaafaaaafaaaafaaaafaaaafaaaafaaaafaaaafaaaafaaaafaaaafaaaafaaaafaaaafaaaafaaaafaaaafaaaafaaaafaaaafaaaafaaaafaaaafaaaafaaaafaaaafaaaafaaaafaaaafaaaafaaaafaaaafaaaafaaaafaaaafaaaafaaaafaaaafaaaafaaaafaaaafaaaafaaaafaaaafaaaafaaaafaaaafaaaafaaaafaaaafaaaafaaaafaaaafaaaafaaaafaaaafaaaafaaaafaaaafaaaafaaaafaaaafaaaafaaaafaaaafaaaafaaaafaaaafaaaafaaaafaaaafaaaafaaaafaaaafaaaafaaaafaaaafaaaafaaaafaaaafaaaafaaaafaaaafaaaafaaaafaaaafaaaafaaaafaaaafaaaafaaaafaaaafaaaafaaaafaaaafaaaafaaaafaaaafaaaafaaaafaaaafaaaafaaaafaaaafaaaafaaaafaaaafaaaafaaaafaaaafaaaafaaaafaaaafaaaafaaaafaaaafaaaafaaaafaaaafaaaafaaaafaaaafaaaafaaaafaaaafaaaafaaaafaaaafaaaafaaaafaaaafaaaafaaaafaaaafaaaafaaaafaaaafaaaafaaaafaaaafaaaafaaaafaaaafaaaafaaaafaaaafaaaafaaaafaaaafaaaafaaaafaaaafaaaafaaaafaaaafaaaafaaaafaaaafaaaafaaaafaaaafaaaafaaaafaaaafaaaafaaaafaaaafaaaafaaaafaaaafaaaafaaaafaaaafaaaafaaaafaaaafaaaafaaaafaaaafaaaafaaaafaaaafaaaafaaaafaaaafaaaafaaaafaaaafaaaafaaaafaaaafaaaafaaaafaaaafaaaafaaaafaaaafaaaafaaaafaaaafaaaafaaaafaaaafaaaafaaaafaaaafaaaafaaaafaaaafaaaafaaaafaaaafaaaafaaaafaaaafaaaafaaaafaaaafaaaafaaaafaaaafaaaafaaaafaaaafaaaafaaaafaaaafaaaafaaaafaaaafaaaafaaaafaaaafaaaafaaaafaaaafaaaafaaaafaaaafaaaafaaaafaaaafaaaafaaaafaaaafaaaafaaaafaaaafaaaafaaaafaaaafaaaafaaaafaaaafaaaafaaaafaaaafaaaafaaaafaaaafaaaafaaaafaaaafaaaafaaaafaaaafaaaafaaaafaaaafaaaafaaaafaaaafaaaafaaaafaaaafaaaafaaaafaaaafaaaafaaaafaaaafaaaafaaaafaaaafaaaafaaaafaaaafaaaafaaaafaaaafaaaafaaaafaaaafaaaafaaaafaaaafaaaafaaaafaaaafaaaafaaaafaaaafaaaafaaaafaaaafaaaafaaaafaaaafaaaafaaaafaaaafaaaafaaaafaaaafaaaafaaaafaaaafaaaafaaaafaaaafaaaafaaaafaaaafaaaafaaaafaaaafaaaafaaaafaaaafaaaafaaaafaaaafaaaafaaaafaaaafaaaafaaaafaaaafaaaafaaaafaaaafaaaafaaaafaaaafaaaafaaaafaaaafaaaafaaaafaaaafaaaafaaaafaaaafaaaafaaaafaaaafaaaafaaaafaaaafaaaafaaaafaaaafaaaafaaaafaaaafaaaafaaaafaaaafaaaafaaaafaaaafaaaafaaaafaaaafaaaafaaaafaaaafaaaafaaaafaaaafaaaafaaaafaaaafaaaafaaaafaaaafaaaafaaaafaaaafaaaafaaaafaaaafaaaafaaaafaaaafaaaafaaaafaaaafaaaafaaaafaaaafaaaafaaaafaaaafaaaafaaaafaaaafaaaafaaaafaaaafaaaafaaaafaaaafaaaafaaaafaaaafaaaafaaaafaaaafaaaafaaaafaaaafaaaafaaaafaaaafaaaafaaaafaaaafaaaafaaaafaaaafaaaafaaaafaaaafaaaafaaaafaaaafaaaafaaaafaaaafaaaafaaaafaaaafaaaafaaaafaaaafaaaafaaaafaaaafaaaafaaaafaaaafaaaafaaaafaaaafaaaafaaaafaaaafaaaafaaaafaaaafaaaafaaaafaaaafaaaafaaaafaaaafaaaafaaaafaaaafaaaafaaaafaaaafaaaafaaaafaaaafaaaafaaaafaaaafaaaafaaaafaaaafaaaafaaaafaaaafaaaafaaaafaaaafaaaafaaaafaaaafaaaafaaaafaaaafaaaafaaaafaaaafaaaafaaaafaaaafaaaafaaaafaaaafaaaafaaaafaaaafaaaafaaaafaaaafaaaafaaaafaaaafaaaafaaaafaaaafaaaafaaaafaaaafaaaafaaaafaaaafaaaafaaaafaaaafaaaafaaaafaaaafaaaafaaaafaaaafaaaafaaaafaaaafaaaafaaaafaaaafaaaafaaaafaaaafaaaafaaaafaaaafaaaafaaaafaaaafaaaafaaaafaaaafaaaafaaaafaaaafaaaafaaaafaaaafaaaafaaaafaaaafaaaafaaaafaaaafaaaafaaaafaaaafaaaafaaaafaaaafaaaafaaaafaaaafaaaafaaaafaaaafaaaafaaaafaaaafaaaafaaaafaaaafaaaafaaaafaaaafaaaafaaaafaaaafaaaafaaaafaaaafaaaafaaaafaaaafaaaafaaaafaaaafaaaafaaaafaaaafaaaafaaaafaaaafaaaafaaaafaaaafaaaafaaaafaaaafaaaafaaaafaaaafaaaafaaaafaaaafaaaafaaaafaaaafaaaafaaaafaaaafaaaafaaaafaaaafaaaafaaaafaaaafaaaafaaaafaaaafaaaafaaaafaaaafaaaafaaaafaaaafaaaafaaaafaaaafaaaafaaaafaaaafaaaafaaaafaaaafaaaafaaaafaaaafaaaafaaaafaaaafaaaafaaaafaaaafaaaafaaaafaaaafaaaafaaaafaaaafaaaafaaaafaaaafaaaafaaaafaaaafaaaafaaaafaaaafaaaafaaaafaaaafaaaafaaaafaaaafaaaafaaaafaaaafaaaafaaaafaaaafaaaafaaaafaaaafaaaafaaaafaaaafaaaafaaaafaaaafaaaafaaaafaaaafaaaafaaaafaaaafaaaafaaaafaaaafaaaafaaaafaaaafaaaafaaaafaaaafaaaafaaaafaaaafaaaafaaaafaaaafaaaafaaaafaaaafaaaafaaaafaaaafaaaafaaaafaaaafaaaafaaaafaaaafaaaafaaaafaaaafaaaafaaaafaaaafaaaafaaaafaaaafaaaafaaaafaaaafaaaafaaaafaaaafaaaafaaaafaaaafaaaafaaaafaaaafaaaafaaaafaaaafaaaafaaaafaaaafaaaafaaaafaaaafaaaafaaaafaaaafaaaafaaaafaaaafaaaafaaaafaaaafaaaafaaaafaaaafaaaafaaaafaaaafaaaafaaaafaaaafaaaafaaaafaaaafaaaafaaaafaaaafaaaafaaaafaaaafaaaafaaaafaaaafaaaafaaaafaaaafaaaafaaaafaaaafaaaafaaaafaaaafaaaafaaaafaaaafaaaafaaaafaaaafaaaafaaaafaaaafaaaafaaaafaaaafaaaafaaaafaaaafaaaafaaaafaaaafaaaafaaaafaaaafaaaafaaaafaaaafaaaafaaaafaaaafaaaafaaaafaaaafaaaafaaaafaaaafaaaafaaaafaaaafaaaafaaaafaaaafaaaafaaaafaaaafaaaafaaaafaaaafaaaafaaaafaaaafaaaafaaaafaaaafaaaafaaaafaaaafaaaafaaaafaaaafaaaafaaaafaaaafaaaafaaaafaaaafaaaafaaaafaaaafaaaafaaaafaaaafaaaafaaaafaaaafaaaafaaaafaaaafaaaafaaaafaaaafaaaafaaaafaaaafaaaafaaaafaaaafaaaafaaaafaaaafaaaafaaaafaaaafaaaafaaaafaaaafaaaafaaaafaaaafaaaafaaaafaaaafaaaafaaaafaaaafaaaafaaaafaaaafaaaafaaaafaaaafaaaafaaaafaaaafaaaafaaaafaaaafaaaafaaaafaaaafaaaafaaaafaaaafaaaafaaaafaaaafaaaafaaaafaaaafaaaafaaaafaaaafaaaafaaaafaaaafaaaafaaaafaaaafaaaafaaaafaaaafaaaafaaaafaaaafaaaafaaaafaaaafaaaafaaaafaaaafaaaafaaaafaaaafaaaafaaaafaaaafaaaafaaaafaaaafaaaafaaaafaaaafaaaafaaaafaaaafaaaafaaaafaaaafaaaafaaaafaaaafaaaafaaaafaaaafaaaafaaaafaaaafaaaafaaaafaaaafaaaafaaaafaaaafaaaafaaaafaaaafaaaafaaaafaaaafaaaafaaaafaaaafaaaafaaaafaaaafaaaafaaaafaaaafaaaafaaaafaaaafaaaafaaaafaaaafaaaafaaaafaaaafaaaafaaaafaaaafaaaafaaaafaaaafaaaafaaaafaaaafaaaafaaaafaaaafaaaafaaaafaaaafaaaafaaaafaaaafaaaafaaaafaaaafaaaafaaaafaaaafaaaafaaaafaaaafaaaafaaaafaaaafaaaafaaaafaaaafaaaafaaaafaaaafaaaafaaaafaaaafaaaafaaaafaaaafaaaafaaaafaaaafaaaafaaaafaaaafaaaafaaaafaaaafaaaafaaaafaaaafaaaafaaaafaaaafaaaafaaaafaaaafaaaafaaaafaaaafaaaafaaaafaaaafaaaafaaaafaaaafaaaafaaaafaaaafaaaafaaaafaaaafaaaafaaaafaaaafaaaafaaaafaaaafaaaafaaaafaaaafaaaafaaaafaaaafaaaafaaaafaaaafaaaafaaaafaaaafaaaafaaaafaaaafaaaafaaaafaaaafaaaafaaaafaaaafaaaafaaaafaaaafaaaafaaaafaaaafaaaafaaaafaaaafaaaafaaaafaaaafaaaafaaaafaaaafaaaafaaaafaaaafaaaafaaaafaaaafaaaafaaaafaaaafaaaafaaaafaaaafaaaafaaaafaaaafaaaafaaaafaaaafaaaafaaaafaaaafaaaafaaaafaaaafaaaafaaaafaaaafaaaafaaaafaaaafaaaafaaaafaaaafaaaafaaaafaaaafaaaafaaaafaaaafaaaafaaaafaaaafaaaafaaaafaaaafaaaafaaaafaaaafaaaafaaaafaaaafaaaafaaaafaaaafaaaafaaaafaaaafaaaafaaaafaaaafaaaafaaaafaaaafaaaafaaaafaaaafaaaafaaaafaaaafaaaafaaaafaaaafaaaafaaaafaaaafaaaafaaaafaaaafaaaafaaaafaaaafaaaafaaaafaaaafaaaafaaaafaaaafaaaafaaaafaaaafaaaafaaaafaaaafaaaafaaaafaaaafaaaafaaaafaaaafaaaafaaaafaaaafaaaafaaaafaaaafaaaafaaaafaaaafaaaafaaaafaaaafaaaafaaaafaaaafaaaafaaaafaaaafaaaafaaaafaaaafaaaafaaaafaaaafaaaafaaaafaaaafaaaafaaaafaaaafaaaafaaaafaaaafaaaafaaaafaaaafaaaafaaaafaaaafaaaafaaaafaaaafaaaafaaaafaaaafaaaafaaaafaaaafaaaafaaaafaaaafaaaafaaaafaaaafaaaafaaaafaaaafaaaafaaaafaaaafaaaafaaaafaaaafaaaafaaaafaaaafaaaafaaaafaaaafaaaafaaaafaaaafaaaafaaaafaaaafaaaafaaaafaaaafaaaafaaaafaaaafaaaafaaaafaaaafaaaafaaaafaaaafaaaafaaaafaaaafaaaafaaaafaaaafaaaafaaaafaaaafaaaafaaaafaaaafaaaafaaaafaaaafaaaafaaaafaaaafaaaafaaaafaaaafaaaafaaaafaaaafaaaafaaaafaaaafaaaafaaaafaaaafaaaafaaaafaaaafaaaafaaaafaaaafaaaafaaaafaaaafaaaafaaaafaaaafaaaafaaaafaaaafaaaafaaaafaaaafaaaafaaaafaaaafaaaafaaaafaaaafaaaafaaaafaaaafaaaafaaaafaaaafaaaafaaaafaaaafaaaafaaaafaaaafaaaafaaaafaaaafaaaafaaaafaaaafaaaafaaaafaaaafaaaafaaaafaaaafaaaafaaaafaaaafaaaafaaaafaaaafaaaafaaaafaaaafaaaafaaaafaaaafaaaafaaaafaaaafaaaafaaaafaaaafaaaafaaaafaaaafaaaafaaaafaaaafaaaafaaaafaaaafaaaafaaaafaaaafaaaafaaaafaaaafaaaafaaaafaaaafaaaafaaaafaaaafaaaafaaaafaaaafaaaafaaaafaaaafaaaafaaaafaaaafaaaafaaaafaaaafaaaafaaaafaaaafaaaafaaaafaaaafaaaafaaaafaaaafaaaafaaaafaaaafaaaafaaaafaaaafaaaafaaaafaaaafaaaafaaaafaaaafaaaafaaaafaaaafaaaafaaaafaaaafaaaafaaaafaaaafaaaafaaaafaaaafaaaafaaaafaaaafaaaafaaaafaaaafaaaafaaaafaaaafaaaafaaaafaaaafaaaafaaaafaaaafaaaafaaaafaaaafaaaafaaaafaaaafaaaafaaaafaaaafaaaafaaaafaaaafaaaafaaaafaaaafaaaafaaaafaaaafaaaafaaaafaaaafaaaafaaaafaaaafaaaafaaaafaaaafaaaafaaaafaaaafaaaafaaaafaaaafaaaafaaaafaaaafaaaafaaaafaaaafaaaafaaaafaaaafaaaafaaaafaaaafaaaafaaaafaaaafaaaafaaaafaaaafaaaafaaaafaaaafaaaafaaaafaaaafaaaafaaaafaaaafaaaafaaaafaaaafaaaafaaaafaaaafaaaafaaaafaaaafaaaafaaaafaaaafaaaafaaaafaaaafaaaafaaaafaaaafaaaafaaaafaaaafaaaafaaaafaaaafaaaafaaaafaaaafaaaafaaaafaaaafaaaafaaaafaaaafaaaafaaaafaaaafaaaafaaaafaaaafaaaafaaaafaaaafaaaafaaaafaaaafaaaafaaaafaaaafaaaafaaaafaaaafaaaafaaaafaaaafaaaafaaaafaaaafaaaafaaaafaaaafaaaafaaaafaaaafaaaafaaaafaaaafaaaafaaaafaaaafaaaafaaaafaaaafaaaafaaaafaaaafaaaafaaaafaaaafaaaafaaaafaaaafaaaafaaaafaaaafaaaafaaaafaaaafaaaafaaaafaaaafaaaafaaaafaaaafaaaafaaaafaaaafaaaafaaaafaaaafaaaafaaaafaaaafaaaafaaaafaaaafaaaafaaaafaaaafaaaafaaaafaaaafaaaafaaaafaaaafaaaafaaaafaaaafaaaafaaaafaaaafaaaafaaaafaaaafaaaafaaaafaaaafaaaafaaaafaaaafaaaafaaaafaaaafaaaafaaaafaaaafaaaafaaaafaaaafaaaafaaaafaaaafaaaafaaaafaaaafaaaafaaaafaaaafaaaafaaaafaaaafaaaafaaaafaaaafaaaafaaaafaaaafaaaafaaaafaaaafaaaafaaaafaaaafaaaafaaaafaaaafaaaafaaaafaaaafaaaafaaaafaaaafaaaafaaaafaaaafaaaafaaaafaaaafaaaafaaaafaaaafaaaafaaaafaaaafaaaafaaaafaaaafaaaafaaaafaaaafaaaafaaaafaaaafaaaafaaaafaaaafaaaafaaaafaaaafaaaafaaaafaaaafaaaafaaaafaaaafaaaafaaaafaaaafaaaafaaaafaaaafaaaafaaaafaaaafaaaafaaaafaaaafaaaafaaaafaaaafaaaafaaaafaaaafaaaafaaaafaaaafaaaafaaaafaaaafaaaafaaaafaaaafaaaafaaaafaaaafaaaafaaaafaaaafaaaafaaaafaaaafaaaafaaaafaaaafaaaafaaaafaaaafaaaafaaaafaaaafaaaafaaaafaaaafaaaafaaaafaaaafaaaafaaaafaaaafaaaafaaaafaaaafaaaafaaaafaaaafaaaafaaaafaaaafaaaafaaaafaaaafaaaafaaaafaaaafaaaafaaaafaaaafaaaafaaaafaaaafaaaafaaaafaaaafaaaafaaaafaaaafaaaafaaaafaaaafaaaafaaaafaaaafaaaafaaaafaaaafaaaafaaaafaaaafaaaafaaaafaaaafaaaafaaaafaaaafaaaafaaaafaaaafaaaafaaaafaaaafaaaafaaaafaaaafaaaafaaaafaaaafaaaafaaaafaaaafaaaafaaaafaaaafaaaafaaaafaaaafaaaafaaaafaaaafaaaafaaaafaaaafaaaafaaaafaaaafaaaafaaaafaaaafaaaafaaaafaaaafaaaafaaaafaaaafaaaafaaaafaaaafaaaafaaaafaaaafaaaafaaaafaaaafaaaafaaaafaaaafaaaafaaaafaaaafaaaafaaaafaaaafaaaafaaaafaaaafaaaafaaaafaaaafaaaafaaaafaaaafaaaafaaaafaaaafaaaafaaaafaaaafaaaafaaaafaaaafaaaafaaaafaaaafaaaafaaaafaaaafaaaafaaaafaaaafaaaafaaaafaaaafaaaafaaaafaaaafaaaafaaaafaaaafaaaafaaaafaaaafaaaafaaaafaaaafaaaafaaaafaaaafaaaafaaaafaaaafaaaafaaaafaaaafaaaafaaaafaaaafaaaafaaaafaaaafaaaafaaaafaaaafaaaafaaaafaaaafaaaafaaaafaaaafaaaafaaaafaaaafaaaafaaaafaaaafaaaafaaaafaaaafaaaafaaaafaaaafaaaafaaaafaaaafaaaafaaaafaaaafaaaafaaaafaaaafaaaafaaaafaaaafaaaafaaaafaaaafaaaafaaaafaaaafaaaafaaaafaaaafaaaafaaaafaaaafaaaafaaaafaaaafaaaafaaaafaaaafaaaafaaaafaaaafaaaafaaaafaaaafaaaafaaaafaaaafaaaafaaaafaaaafaaaafaaaafaaaafaaaafaaaafaaaafaaaafaaaafaaaafaaaafaaaafaaaafaaaafaaaafaaaafaaaafaaaafaaaafaaaafaaaafaaaafaaaafaaaafaaaafaaaafaaaafaaaafaaaafaaaafaaaafaaaafaaaafaaaafaaaafaaaafaaaafaaaafaaaafaaaafaaaafaaaafaaaafaaaafaaaafaaaafaaaafaaaafaaaafaaaafaaaafaaaafaaaafaaaafaaaafaaaafaaaafaaaafaaaafaaaafaaaafaaaafaaaafaaaafaaaafaaaafaaaafaaaafaaaafaaaafaaaafaaaafaaaafaaaafaaaafaaaafaaaafaaaafaaaafaaaafaaaafaaaafaaaafaaaafaaaafaaaafaaaafaaaafaaaafaaaafaaaafaaaafaaaafaaaafaaaafaaaafaaaafaaaafaaaafaaaafaaaafaaaafaaaafaaaafaaaafaaaafaaaafaaaafaaaafaaaafaaaafaaaafaaaafaaaafaaaafaaaafaaaafaaaafaaaafaaaafaaaafaaaafaaaafaaaafaaaafaaaafaaaafaaaafaaaafaaaafaaaafaaaafaaaafaaaafaaaafaaaafaaaafaaaafaaaafaaaafaaaafaaaafaaaafaaaafaaaafaaaafaaaafaaaafaaaafaaaafaaaafaaaafaaaafaaaafaaaafaaaafaaaafaaaafaaaafaaaafaaaafaaaafaaaafaaaafaaaafaaaafaaaafaaaafaaaafaaaafaaaafaaaafaaaafaaaafaaaafaaaafaaaafaaaafaaaafaaaafaaaafaaaafaaaafaaaafaaaafaaaafaaaafaaaafaaaafaaaafaaaafaaaafaaaafaaaafaaaafaaaafaaaafaaaafaaaafaaaafaaaafaaaafaaaafaaaafaaaafaaaafaaaafaaaafaaaafaaaafaaaafaaaafaaaafaaaafaaaafaaaafaaaafaaaafaaaafaaaafaaaafaaaafaaaafaaaafaaaafaaaafaaaafaaaafaaaafaaaafaaaafaaaafaaaafaaaafaaaafaaaafaaaafaaaafaaaafaaaafaaaafaaaafaaaafaaaafaaaafaaaafaaaafaaaafaaaafaaaafaaaafaaaafaaaafaaaafaaaafaaaafaaaafaaaafaaaafaaaafaaaafaaaafaaaafaaaafaaaafaaaafaaaafaaaafaaaafaaaafaaaafaaaafaaaafaaaafaaaafaaaafaaaafaaaafaaaafaaaafaaaafaaaafaaaafaaaafaaaafaaaafaaaafaaaafaaaafaaaafaaaafaaaafaaaafaaaafaaaafaaaafaaaafaaaafaaaafaaaafaaaafaaaafaaaafaaaafaaaafaaaafaaaafaaaafaaaafaaaafaaaafaaaafaaaafaaaafaaaafaaaafaaaafaaaafaaaafaaaafaaaafaaaafaaaafaaaafaaaafaaaafaaaafaaaafaaaafaaaafaaaafaaaafaaaafaaaafaaaafaaaafaaaafaaaafaaaafaaaafaaaafaaaafaaaafaaaafaaaafaaaafaaaafaaaafaaaafaaaafaaaafaaaafaaaafaaaafaaaafaaaafaaaafaaaafaaaafaaaafaaaafaaaafaaaafaaaafaaaafaaaafaaaafaaaafaaaafaaaafaaaafaaaafaaaafaaaafaaaafaaaafaaaafaaaafaaaafaaaafaaaafaaaafaaaafaaaafaaaafaaaafaaaafaaaafaaaafaaaafaaaafaaaafaaaafaaaafaaaafaaaafaaaafaaaafaaaafaaaafaaaafaaaafaaaafaaaafaaaafaaaafaaaafaaaafaaaafaaaafaaaafaaaafaaaafaaaafaaaafaaaafaaaafaaaafaaaafaaaafaaaafaaaafaaaafaaaafaaaafaaaafaaaafaaaafaaaafaaaafaaaafaaaafaaaafaaaafaaaafaaaafaaaafaaaafaaaafaaaafaaaafaaaafaaaafaaaafaaaafaaaafaaaafaaaafaaaafaaaafaaaafaaaafaaaafaaaafaaaafaaaafaaaafaaaafaaaafaaaafaaaafaaaafaaaafaaaafaaaafaaaafaaaafaaaafaaaafaaaafaaaafaaaafaaaafaaaafaaaafaaaafaaaafaaaafaaaafaaaafaaaafaaaafaaaafaaaafaaaafaaaafaaaafaaaafaaaafaaaafaaaafaaaafaaaafaaaafaaaafaaaafaaaafaaaafaaaafaaaafaaaafaaaafaaaafaaaafaaaafaaaafaaaafaaaafaaaafaaaafaaaafaaaafaaaafaaaafaaaafaaaafaaaafaaaafaaaafaaaafaaaafaaaafaaaafaaaafaaaafaaaafaaaafaaaafaaaafaaaafaaaafaaaafaaaafaaaafaaaafaaaafaaaafaaaafaaaafaaaafaaaafaaaafaaaafaaaafaaaafaaaafaaaafaaaafaaaafaaaafaaaafaaaafaaaafaaaafaaaafaaaafaaaafaaaafaaaafaaaafaaaafaaaafaaaafaaaafaaaafaaaafaaaafaaaafaaaafaaaafaaaafaaaafaaaafaaaafaaaafaaaafaaaafaaaafaaaafaaaafaaaafaaaafaaaafaaaafaaaafaaaafaaaafaaaafaaaafaaaafaaaafaaaafaaaafaaaafaaaafaaaafaaaafaaaafaaaafaaaafaaaafaaaafaaaafaaaafaaaafaaaafaaaafaaaafaaaafaaaafaaaafaaaafaaaafaaaafaaaafaaaafaaaafaaaafaaaafaaaafaaaafaaaafaaaafaaaafaaaafaaaafaaaafaaaafaaaafaaaafaaaafaaaafaaaafaaaafaaaafaaaafaaaafaaaafaaaafaaaafaaaafaaaafaaaafaaaafaaaafaaaafaaaafaaaafaaaafaaaafaaaafaaaafaaaafaaaafaaaafaaaafaaaafaaaafaaaafaaaafaaaafaaaafaaaafaaaafaaaafaaaafaaaafaaaafaaaafaaaafaaaafaaaafaaaafaaaafaaaafaaaafaaaafaaaafaaaafaaaafaaaafaaaafaaaafaaaafaaaafaaaafaaaafaaaafaaaafaaaafaaaafaaaafaaaafaaaafaaaafaaaafaaaafaaaafaaaafaaaafaaaafaaaafaaaafaaaafaaaafaaaafaaaafaaaafaaaafaaaafaaaafaaaafaaaafaaaafaaaafaaaafaaaafaaaafaaaafaaaafaaaafaaaafaaaafaaaafaaaafaaaafaaaafaaaafaaaafaaaafaaaafaaaafaaaafaaaafaaaafaaaafaaaafaaaafaaaafaaaafaaaafaaaafaaaafaaaafaaaafaaaafaaaafaaaafaaaafaaaafaaaafaaaafaaaafaaaafaaaafaaaafaaaafaaaafaaaafaaaafaaaafaaaafaaaafaaaafaaaafaaaafaaaafaaaafaaaafaaaafaaaafaaaafaaaafaaaafaaaafaaaafaaaafaaaafaaaafaaaafaaaafaaaafaaaafaaaafaaaafaaaafaaaafaaaafaaaafaaaafaaaafaaaafaaaafaaaafaaaafaaaafaaaafaaaafaaaafaaaafaaaafaaaafaaaafaaaafaaaafaaaafaaaafaaaafaaaafaaaafaaaafaaaafaaaafaaaafaaaafaaaafaaaafaaaafaaaafaaaafaaaafaaaafaaaafaaaafaaaafaaaafaaaafaaaafaaaafaaaafaaaafaaaafaaaafaaaafaaaafaaaafaaaafaaaafaaaafaaaafaaaafaaaafaaaafaaaafaaaafaaaafaaaafaaaafaaaafaaaafaaaafaaaafaaaafaaaafaaaafaaaafaaaafaaaafaaaafaaaafaaaafaaaafaaaafaaaafaaaafaaaafaaaafaaaafaaaafaaaafaaaafaaaafaaaafaaaafaaaafaaaafaaaafaaaafaaaafaaaafaaaafaaaafaaaafaaaafaaaafaaaafaaaafaaaafaaaafaaaafaaaafaaaafaaaafaaaafaaaafaaaafaaaafaaaafaaaafaaaafaaaafaaaafaaaafaaaafaaaafaaaafaaaafaaaafaaaafaaaafaaaafaaaafaaaafaaaafaaaafaaaafaaaafaaaafaaaafaaaafaaaafaaaafaaaafaaaafaaaafaaaafaaaafaaaafaaaafaaaafaaaafaaaafaaaafaaaafaaaafaaaafaaaafaaaafaaaafaaaafaaaafaaaafaaaafaaaafaaaafaaaafaaaafaaaafaaaafaaaafaaaafaaaafaaaafaaaafaaaafaaaafaaaafaaaafaaaafaaaafaaaafaaaafaaaafaaaafaaaafaaaafaaaafaaaafaaaafaaaafaaaafaaaafaaaafaaaafaaaafaaaafaaaafaaaafaaaafaaaafaaaafaaaafaaaafaaaafaaaafaaaafaaaafaaaafaaaafaaaafaaaafaaaafaaaafaaaafaaaafaaaafaaaafaaaafaaaafaaaafaaaafaaaafaaaafaaaafaaaafaaaafaaaafaaaafaaaafaaaafaaaafaaaafaaaafaaaafaaaafaaaafaaaafaaaafaaaafaaaafaaaafaaaafaaaafaaaafaaaafaaaafaaaafaaaafaaaafaaaafaaaafaaaafaaaafaaaafaaaafaaaafaaaafaaaafaaaafaaaafaaaafaaaafaaaafaaaafaaaafaaaafaaaafaaaafaaaafaaaafaaaafaaaafaaaafaaaafaaaafaaaafaaaafaaaafaaaafaaaafaaaafaaaafaaaafaaaafaaaafaaaafaaaafaaaafaaaafaaaafaaaafaaaafaaaafaaaafaaaafaaaafaaaafaaaafaaaafaaaafaaaafaaaafaaaafaaaafaaaafaaaafaaaafaaaafaaaafaaaafaaaafaaaafaaaafaaaafaaaafaaaafaaaafaaaafaaaafaaaafaaaafaaaafaaaafaaaafaaaafaaaafaaaafaaaafaaaafaaaafaaaafaaaafaaaafaaaafaaaafaaaafaaaafaaaafaaaafaaaafaaaafaaaafaaaafaaaafaaaafaaaafaaaafaaaafaaaafaaaafaaaafaaaafaaaafaaaafaaaafaaaafaaaafaaaafaaaafaaaafaaaafaaaafaaaafaaaafaaaafaaaafaaaafaaaafaaaafaaaafaaaafaaaafaaaafaaaafaaaafaaaafaaaafaaaafaaaafaaaafaaaafaaaafaaaafaaaafaaaafaaaafaaaafaaaafaaaafaaaafaaaafaaaafaaaafaaaafaaaafaaaafaaaafaaaafaaaafaaaafaaaafaaaafaaaafaaaafaaaafaaaafaaaafaaaafaaaafaaaafaaaafaaaafaaaafaaaafaaaafaaaafaaaafaaaafaaaafaaaafaaaafaaaafaaaafaaaafaaaafaaaafaaaafaaaafaaaafaaaafaaaafaaaafaaaafaaaafaaaafaaaafaaaafaaaafaaaafaaaafaaaafaaaafaaaafaaaafaaaafaaaafaaaafaaaafaaaafaaaafaaaafaaaafaaaafaaaafaaaafaaaafaaaafaaaafaaaafaaaafaaaafaaaafaaaafaaaafaaaafaaaafaaaafaaaafaaaafaaaafaaaafaaaafaaaafaaaafaaaafaaaafaaaafaaaafaaaafaaaafaaaafaaaafaaaafaaaafaaaafaaaafaaaafaaaafaaaafaaaafaaaafaaaafaaaafaaaafaaaafaaaafaaaafaaaafaaaafaaaafaaaafaaaafaaaafaaaafaaaafaaaafaaaafaaaafaaaafaaaafaaaafaaaafaaaafaaaafaaaafaaaafaaaafaaaafaaaafaaaafaaaafaaaafaaaafaaaafaaaafaaaafaaaafaaaafaaaafaaaafaaaafaaaafaaaafaaaafaaaafaaaafaaaafaaaafaaaafaaaafaaaafaaaafaaaafaaaafaaaafaaaafaaaafaaaafaaaafaaaafaaaafaaaafaaaafaaaafaaaafaaaafaaaafaaaafaaaafaaaafaaaafaaaafaaaafaaaafaaaafaaaafaaaafaaaafaaaafaaaafaaaafaaaafaaaafaaaafaaaafaaaafaaaafaaaafaaaafaaaafaaaafaaaafaaaafaaaafaaaafaaaafaaaafaaaafaaaafaaaafaaaafaaaafaaaafaaaafaaaafaaaafaaaafaaaafaaaafaaaafaaaafaaaafaaaafaaaafaaaafaaaafaaaafaaaafaaaafaaaafaaaafaaaafaaaafaaaafaaaafaaaafaaaafaaaafaaaafaaaafaaaafaaaafaaaafaaaafaaaafaaaafaaaafaaaafaaaafaaaafaaaafaaaafaaaafaaaafaaaafaaaafaaaafaaaafaaaafaaaafaaaafaaaafaaaafaaaafaaaafaaaafaaaafaaaafaaaafaaaafaaaafaaaafaaaafaaaafaaaafaaaafaaaafaaaafaaaafaaaafaaaafaaaafaaaafaaaafaaaafaaaafaaaafaaaafaaaafaaaafaaaafaaaafaaaafaaaafaaaafaaaafaaaafaaaafaaaafaaaafaaaafaaaafaaaafaaaafaaaafaaaafaaaafaaaafaaaafaaaafaaaafaaaafaaaafaaaafaaaafaaaafaaaafaaaafaaaafaaaafaaaafaaaafaaaafaaaafaaaafaaaafaaaafaaaafaaaafaaaafaaaafaaaafaaaafaaaafaaaafaaaafaaaafaaaafaaaafaaaafaaaafaaaafaaaafaaaafaaaafaaaafaaaafaaaafaaaafaaaafaaaafaaaafaaaafaaaafaaaafaaaafaaaafaaaafaaaafaaaafaaaafaaaafaaaafaaaafaaaafaaaafaaaafaaaafaaaafaaaafaaaafaaaafaaaafaaaafaaaafaaaafaaaafaaaafaaaafaaaafaaaafaaaafaaaafaaaafaaaafaaaafaaaafaaaafaaaafaaaafaaaafaaaafaaaafaaaafaaaafaaaafaaaafaaaafaaaafaaaafaaaafaaaafaaaafaaaafaaaafaaaafaaaafaaaafaaaafaaaafaaaafaaaafaaaafaaaafaaaafaaaafaaaafaaaafaaaafaaaafaaaafaaaafaaaafaaaafaaaafaaaafaaaafaaaafaaaafaaaafaaaafaaaafaaaafaaaafaaaafaaaafaaaafaaaafaaaafaaaafaaaafaaaafaaaafaaaafaaaafaaaafaaaafaaaafaaaafaaaafaaaafaaaafaaaafaaaafaaaafaaaafaaaafaaaafaaaafaaaafaaaafaaaafaaaafaaaafaaaafaaaafaaaafaaaafaaaafaaaafaaaafaaaafaaaafaaaafaaaafaaaafaaaafaaaafaaaafaaaafaaaafaaaafaaaafaaaafaaaafaaaafaaaafaaaafaaaafaaaafaaaafaaaafaaaafaaaafaaaafaaaafaaaafaaaafaaaafaaaafaaaafaaaafaaaafaaaafaaaafaaaafaaaafaaaafaaaafaaaafaaaafaaaafaaaafaaaafaaaafaaaafaaaafaaaafaaaafaaaafaaaafaaaafaaaafaaaafaaaafaaaafaaaafaaaafaaaafaaaafaaaafaaaafaaaafaaaafaaaafaaaafaaaafaaaafaaaafaaaafaaaafaaaafaaaafaaaafaaaafaaaafaaaafaaaafaaaafaaaafaaaafaaaafaaaafaaaafaaaafaaaafaaaafaaaafaaaafaaaafaaaafaaaafaaaafaaaafaaaafaaaafaaaafaaaafaaaafaaaafaaaafaaaafaaaafaaaafaaaafaaaafaaaafaaaafaaaafaaaafaaaafaaaafaaaafaaaafaaaafaaaafaaaafaaaafaaaafaaaafaaaafaaaafaaaafaaaafaaaafaaaafaaaafaaaafaaaafaaaafaaaafaaaafaaaafaaaafaaaafaaaafaaaafaaaafaaaafaaaafaaaafaaaafaaaafaaaafaaaafaaaafaaaafaaaafaaaafaaaafaaaafaaaafaaaafaaaafaaaafaaaafaaaafaaaafaaaafaaaafaaaafaaaafaaaafaaaafaaaafaaaafaaaafaaaafaaaafaaaafaaaafaaaafaaaafaaaafaaaafaaaafaaaafaaaafaaaafaaaafaaaafaaaafaaaafaaaafaaaafaaaafaaaafaaaafaaaafaaaafaaaafaaaafaaaafaaaafaaaafaaaafaaaafaaaafaaaafaaaafaaaafaaaafaaaafaaaafaaaafaaaafaaaafaaaafaaaafaaaafaaaafaaaafaaaafaaaafaaaafaaaafaaaafaaaafaaaafaaaafaaaafaaaafaaaafaaaafaaaafaaaafaaaafaaaafaaaafaaaafaaaafaaaafaaaafaaaafaaaafaaaafaaaafaaaafaaaafaaaafaaaafaaaafaaaafaaaafaaaafaaaafaaaafaaaafaaaafaaaafaaaafaaaafaaaafaaaafaaaafaaaafaaaafaaaafaaaafaaaafaaaafaaaafaaaafaaaafaaaafaaaafaaaafaaaafaaaafaaaafaaaafaaaafaaaafaaaafaaaafaaaafaaaafaaaafaaaafaaaafaaaafaaaafaaaafaaaafaaaafaaaafaaaafaaaafaaaafaaaafaaaafaaaafaaaafaaaafaaaafaaaafaaaafaaaafaaaafaaaafaaaafaaaafaaaafaaaafaaaafaaaafaaaafaaaafaaaafaaaafaaaafaaaafaaaafaaaafaaaafaaaafaaaafaaaafaaaafaaaafaaaafaaaafaaaafaaaafaaaafaaaafaaaafaaaafaaaafaaaafaaaafaaaafaaaafaaaafaaaafaaaafaaaafaaaafaaaafaaaafaaaafaaaafaaaafaaaafaaaafaaaafaaaafaaaafaaaafaaaafaaaafaaaafaaaafaaaafaaaafaaaafaaaafaaaafaaaafaaaafaaaafaaaafaaaafaaaafaaaafaaaafaaaafaaaafaaaafaaaafaaaafaaaafaaaafaaaafaaaafaaaafaaaafaaaafaaaafaaaafaaaafaaaafaaaafaaaafaaaafaaaafaaaafaaaafaaaafaaaafaaaafaaaafaaaafaaaafaaaafaaaafaaaafaaaafaaaafaaaafaaaafaaaafaaaafaaaafaaaafaaaafaaaafaaaafaaaafaaaafaaaafaaaafaaaafaaaafaaaafaaaafaaaafaaaafaaaafaaaafaaaafaaaafaaaafaaaafaaaafaaaafaaaafaaaafaaaafaaaafaaaafaaaafaaaafaaaafaaaafaaaafaaaafaaaafaaaafaaaafaaaafaaaafaaaafaaaafaaaafaaaafaaaafaaaafaaaafaaaafaaaafaaaafaaaafaaaafaaaafaaaafaaaafaaaafaaaafaaaafaaaafaaaafaaaafaaaafaaaafaaaafaaaafaaaafaaaafaaaafaaaafaaaafaaaafaaaafaaaafaaaafaaaafaaaafaaaafaaaafaaaafaaaafaaaafaaaafaaaafaaaafaaaafaaaafaaaafaaaafaaaafaaaafaaaafaaaafaaaafaaaafaaaafaaaafaaaafaaaafaaaafaaaafaaaafaaaafaaaafaaaafaaaafaaaafaaaafaaaafaaaafaaaafaaaafaaaafaaaafaaaafaaaafaaaafaaaafaaaafaaaafaaaafaaaafaaaafaaaafaaaafaaaafaaaafaaaafaaaafaaaafaaaafaaaafaaaafaaaafaaaafaaaafaaaafaaaafaaaafaaaafaaaafaaaafaaaafaaaafaaaafaaaafaaaafaaaafaaaafaaaafaaaafaaaafaaaafaaaafaaaafaaaafaaaafaaaafaaaafaaaafaaaafaaaafaaaafaaaafaaaafaaaafaaaafaaaafaaaafaaaafaaaafaaaafaaaafaaaafaaaafaaaafaaaafaaaafaaaafaaaafaaaafaaaafaaaafaaaafaaaafaaaafaaaafaaaafaaaafaaaafaaaafaaaafaaaafaaaafaaaafaaaafaaaafaaaafaaaafaaaafaaaafaaaafaaaafaaaafaaaafaaaafaaaafaaaafaaaafaaaafaaaafaaaafaaaafaaaafaaaafaaaafaaaafaaaafaaaafaaaafaaaafaaaafaaaafaaaafaaaafaaaafaaaafaaaafaaaafaaaafaaaafaaaafaaaafaaaafaaaafaaaafaaaafaaaafaaaafaaaafaaaafaaaafaaaafaaaafaaaafaaaafaaaafaaaafaaaafaaaafaaaafaaaafaaaafaaaafaaaafaaaafaaaafaaaafaaaafaaaafaaaafaaaafaaaafaaaafaaaafaaaafaaaafaaaafaaaafaaaafaaaafaaaafaaaafaaaafaaaafaaaafaaaafaaaafaaaafaaaafaaaafaaaafaaaafaaaafaaaafaaaafaaaafaaaafaaaafaaaafaaaafaaaafaaaafaaaafaaaafaaaafaaaafaaaafaaaafaaaafaaaafaaaafaaaafaaaafaaaafaaaafaaaafaaaafaaaafaaaafaaaafaaaafaaaafaaaafaaaafaaaafaaaafaaaafaaaafaaaafaaaafaaaafaaaafaaaafaaaafaaaafaaaafaaaafaaaafaaaafaaaafaaaafaaaafaaaafaaaafaaaafaaaafaaaafaaaafaaaafaaaafaaaafaaaafaaaafaaaafaaaafaaaafaaaafaaaafaaaafaaaafaaaafaaaafaaaafaaaafaaaafaaaafaaaafaaaafaaaafaaaafaaaafaaaafaaaafaaaafaaaafaaaafaaaafaaaafaaaafaaaafaaaafaaaafaaaafaaaafaaaafaaaafaaaafaaaafaaaafaaaafaaaafaaaafaaaafaaaafaaaafaaaafaaaafaaaafaaaafaaaafaaaafaaaafaaaafaaaafaaaafaaaafaaaafaaaafaaaafaaaafaaaafaaaafaaaafaaaafaaaafaaaafaaaafaaaafaaaafaaaafaaaafaaaafaaaafaaaafaaaafaaaafaaaafaaaafaaaafaaaafaaaafaaaafaaaafaaaafaaaafaaaafaaaafaaaafaaaafaaaafaaaafaaaafaaaafaaaafaaaafaaaafaaaafaaaafaaaafaaaafaaaafaaaafaaaafaaaafaaaafaaaafaaaafaaaafaaaafaaaafaaaafaaaafaaaafaaaafaaaafaaaafaaaafaaaafaaaafaaaafaaaafaaaafaaaafaaaafaaaafaaaafaaaafaaaafaaaafaaaafaaaafaaaafaaaafaaaafaaaafaaaafaaaafaaaafaaaafaaaafaaaafaaaafaaaafaaaafaaaafaaaafaaaafaaaafaaaafaaaafaaaafaaaafaaaafaaaafaaaafaaaafaaaafaaaafaaaafaaaafaaaafaaaafaaaafaaaafaaaafaaaafaaaafaaaafaaaafaaaafaaaafaaaafaaaafaaaafaaaafaaaafaaaafaaaafaaaafaaaafaaaafaaaafaaaafaaaafaaaafaaaafaaaafaaaafaaaafaaaafaaaafaaaafaaaafaaaafaaaafaaaafaaaafaaaafaaaafaaaafaaaafaaaafaaaafaaaafaaaafaaaafaaaafaaaafaaaafaaaafaaaafaaaafaaaafaaaafaaaafaaaafaaaafaaaafaaaafaaaafaaaafaaaafaaaafaaaafaaaafaaaafaaaafaaaafaaaafaaaafaaaafaaaafaaaafaaaafaaaafaaaafaaaafaaaafaaaafaaaafaaaafaaaafaaaafaaaafaaaafaaaafaaaafaaaafaaaafaaaafaaaafaaaafaaaafaaaafaaaafaaaafaaaafaaaafaaaafaaaafaaaafaaaafaaaafaaaafaaaafaaaafaaaafaaaafaaaafaaaafaaaafaaaafaaaafaaaafaaaafaaaafaaaafaaaafaaaafaaaafaaaafaaaafaaaafaaaafaaaafaaaafaaaafaaaafaaaafaaaafaaaafaaaafaaaafaaaafaaaafaaaafaaaafaaaafaaaafaaaafaaaafaaaafaaaafaaaafaaaafaaaafaaaafaaaafaaaafaaaafaaaafaaaafaaaafaaaafaaaafaaaafaaaafaaaafaaaafaaaafaaaafaaaafaaaafaaaafaaaafaaaafaaaafaaaafaaaafaaaafaaaafaaaafaaaafaaaafaaaafaaaafaaaafaaaafaaaafaaaafaaaafaaaafaaaafaaaafaaaafaaaafaaaafaaaafaaaafaaaafaaaafaaaafaaaafaaaafaaaafaaaafaaaafaaaafaaaafaaaafaaaafaaaafaaaafaaaafaaaafaaaafaaaafaaaafaaaafaaaafaaaafaaaafaaaafaaaafaaaafaaaafaaaafaaaafaaaafaaaafaaaafaaaafaaaafaaaafaaaafaaaafaaaafaaaafaaaafaaaafaaaafaaaafaaaafaaaafaaaafaaaafaaaafaaaafaaaafaaaafaaaafaaaafaaaafaaaafaaaafaaaafaaaafaaaafaaaafaaaafaaaafaaaafaaaafaaaafaaaafaaaafaaaafaaaafaaaafaaaafaaaafaaaafaaaafaaaafaaaafaaaafaaaafaaaafaaaafaaaafaaaafaaaafaaaafaaaafaaaafaaaafaaaafaaaafaaaafaaaafaaaafaaaafaaaafaaaafaaaafaaaafaaaafaaaafaaaafaaaafaaaafaaaafaaaafaaaafaaaafaaaafaaaafaaaafaaaafaaaafaaaafaaaafaaaafaaaafaaaafaaaafaaaafaaaafaaaafaaaafaaaafaaaafaaaafaaaafaaaafaaaafaaaafaaaafaaaafaaaafaaaafaaaafaaaafaaaafaaaafaaaafaaaafaaaafaaaafaaaafaaaafaaaafaaaafaaaafaaaafaaaafaaaafaaaafaaaafaaaafaaaafaaaafaaaafaaaafaaaafaaaafaaaafaaaafaaaafaaaafaaaafaaaafaaaafaaaafaaaafaaaafaaaafaaaafaaaafaaaafaaaafaaaafaaaafaaaafaaaafaaaafaaaafaaaafaaaafaaaafaaaafaaaafaaaafaaaafaaaafaaaafaaaafaaaafaaaafaaaafaaaafaaaafaaaafaaaafaaaafaaaafaaaafaaaafaaaafaaaafaaaafaaaafaaaafaaaafaaaafaaaafaaaafaaaafaaaafaaaafaaaafaaaafaaaafaaaafaaaafaaaafaaaafaaaafaaaafaaaafaaaafaaaafaaaafaaaafaaaafaaaafaaaafaaaafaaaafaaaafaaaafaaaafaaaafaaaafaaaafaaaafaaaafaaaafaaaafaaaafaaaafaaaafaaaafaaaafaaaafaaaafaaaafaaaafaaaafaaaafaaaafaaaafaaaafaaaafaaaafaaaafaaaafaaaafaaaafaaaafaaaafaaaafaaaafaaaafaaaafaaaafaaaafaaaafaaaafaaaafaaaafaaaafaaaafaaaafaaaafaaaafaaaafaaaafaaaafaaaafaaaafaaaafaaaafaaaafaaaafaaaafaaaafaaaafaaaafaaaafaaaafaaaafaaaafaaaafaaaafaaaafaaaafaaaafaaaafaaaafaaaafaaaafaaaafaaaafaaaafaaaafaaaafaaaafaaaafaaaafaaaafaaaafaaaafaaaafaaaafaaaafaaaafaaaafaaaafaaaafaaaafaaaafaaaafaaaafaaaafaaaafaaaafaaaafaaaafaaaafaaaafaaaafaaaafaaaafaaaafaaaafaaaafaaaafaaaafaaaafaaaafaaaafaaaafaaaafaaaafaaaafaaaafaaaafaaaafaaaafaaaafaaaafaaaafaaaafaaaafaaaafaaaafaaaafaaaafaaaafaaaafaaaafaaaafaaaafaaaafaaaafaaaafaaaafaaaafaaaafaaaafaaaafaaaafaaaafaaaafaaaafaaaafaaaafaaaafaaaafaaaafaaaafaaaafaaaafaaaafaaaafaaaafaaaafaaaafaaaafaaaafaaaafaaaafaaaafaaaafaaaafaaaafaaaafaaaafaaaafaaaafaaaafaaaafaaaafaaaafaaaafaaaafaaaafaaaafaaaafaaaafaaaafaaaafaaaafaaaafaaaafaaaafaaaafaaaafaaaafaaaafaaaafaaaafaaaafaaaafaaaafaaaafaaaafaaaafaaaafaaaafaaaafaaaafaaaafaaaafaaaafaaaafaaaafaaaafaaaafaaaafaaaafaaaafaaaafaaaafaaaafaaaafaaaafaaaafaaaafaaaafaaaafaaaafaaaafaaaafaaaafaaaafaaaafaaaafaaaafaaaafaaaafaaaafaaaafaaaafaaaafaaaafaaaafaaaafaaaafaaaafaaaafaaaafaaaafaaaafaaaafaaaafaaaafaaaafaaaafaaaafaaaafaaaafaaaafaaaafaaaafaaaafaaaafaaaafaaaafaaaafaaaafaaaafaaaafaaaafaaaafaaaafaaaafaaaafaaaafaaaafaaaafaaaafaaaafaaaafaaaafaaaafaaaafaaaafaaaafaaaafaaaafaaaafaaaafaaaafaaaafaaaafaaaafaaaafaaaafaaaafaaaafaaaafaaaafaaaafaaaafaaaafaaaafaaaafaaaafaaaafaaaafaaaafaaaafaaaafaaaafaaaafaaaafaaaafaaaafaaaafaaaafaaaafaaaafaaaafaaaafaaaafaaaafaaaafaaaafaaaafaaaafaaaafaaaafaaaafaaaafaaaafaaaafaaaafaaaafaaaafaaaafaaaafaaaafaaaafaaaafaaaafaaaafaaaafaaaafaaaafaaaafaaaafaaaafaaaafaaaafaaaafaaaafaaaafaaaafaaaafaaaafaaaafaaaafaaaafaaaafaaaafaaaafaaaafaaaafaaaafaaaafaaaafaaaafaaaafaaaafaaaafaaaafaaaafaaaafaaaafaaaafaaaafaaaafaaaafaaaafaaaafaaaafaaaafaaaafaaaafaaaafaaaafaaaafaaaafaaaafaaaafaaaafaaaafaaaafaaaafaaaafaaaafaaaafaaaafaaaafaaaafaaaafaaaafaaaafaaaafaaaafaaaafaaaafaaaafaaaafaaaafaaaafaaaafaaaafaaaafaaaafaaaafaaaafaaaafaaaafaaaafaaaafaaaafaaaafaaaafaaaafaaaafaaaafaaaafaaaafaaaafaaaafaaaafaaaafaaaafaaaafaaaafaaaafaaaafaaaafaaaafaaaafaaaafaaaafaaaafaaaafaaaafaaaafaaaafaaaafaaaafaaaafaaaafaaaafaaaafaaaafaaaafaaaafaaaafaaaafaaaafaaaafaaaafaaaafaaaafaaaafaaaafaaaafaaaafaaaafaaaafaaaafaaaafaaaafaaaafaaaafaaaafaaaafaaaafaaaafaaaafaaaafaaaafaaaafaaaafaaaafaaaafaaaafaaaafaaaafaaaafaaaafaaaafaaaafaaaafaaaafaaaafaaaafaaaafaaaafaaaafaaaafaaaafaaaafaaaafaaaafaaaafaaaafaaaafaaaafaaaafaaaafaaaafaaaafaaaafaaaafaaaafaaaafaaaafaaaafaaaafaaaafaaaafaaaafaaaafaaaafaaaafaaaafaaaafaaaafaaaafaaaafaaaafaaaafaaaafaaaafaaaafaaaafaaaafaaaafaaaafaaaafaaaafaaaafaaaafaaaafaaaafaaaafaaaafaaaafaaaafaaaafaaaafaaaafaaaafaaaafaaaafaaaafaaaafaaaafaaaafaaaafaaaafaaaafaaaafaaaafaaaafaaaafaaaafaaaafaaaafaaaafaaaafaaaafaaaafaaaafaaaafaaaafaaaafaaaafaaaafaaaafaaaafaaaafaaaafaaaafaaaafaaaafaaaafaaaafaaaafaaaafaaaafaaaafaaaafaaaafaaaafaaaafaaaafaaaafaaaafaaaafaaaafaaaafaaaafaaaafaaaafaaaafaaaafaaaafaaaafaaaafaaaafaaaafaaaafaaaafaaaafaaaafaaaafaaaafaaaafaaaafaaaafaaaafaaaafaaaafaaaafaaaafaaaafaaaafaaaafaaaafaaaafaaaafaaaafaaaafaaaafaaaafaaaafaaaafaaaafaaaafaaaafaaaafaaaafaaaafaaaafaaaafaaaafaaaafaaaafaaaafaaaafaaaafaaaafaaaafaaaafaaaafaaaafaaaafaaaafaaaafaaaafaaaafaaaafaaaafaaaafaaaafaaaafaaaafaaaafaaaafaaaafaaaafaaaafaaaafaaaafaaaafaaaafaaaafaaaafaaaafaaaafaaaafaaaafaaaafaaaafaaaafaaaafaaaafaaaafaaaafaaaafaaaafaaaafaaaafaaaafaaaafaaaafaaaafaaaafaaaafaaaafaaaafaaaafaaaafaaaafaaaafaaaafaaaafaaaafaaaafaaaafaaaafaaaafaaaafaaaafaaaafaaaafaaaafaaaafaaaafaaaafaaaafaaaafaaaafaaaafaaaafaaaafaaaafaaaafaaaafaaaafaaaafaaaafaaaafaaaafaaaafaaaafaaaafaaaafaaaafaaaafaaaafaaaafaaaafaaaafaaaafaaaafaaaafaaaafaaaafaaaafaaaafaaaafaaaafaaaafaaaafaaaafaaaafaaaafaaaafaaaafaaaafaaaafaaaafaaaafaaaafaaaafaaaafaaaafaaaafaaaafaaaafaaaafaaaafaaaafaaaafaaaafaaaafaaaafaaaafaaaafaaaafaaaafaaaafaaaafaaaafaaaafaaaafaaaafaaaafaaaafaaaafaaaafaaaafaaaafaaaafaaaafaaaafaaaafaaaafaaaafaaaafaaaafaaaafaaaafaaaafaaaafaaaafaaaafaaaafaaaafaaaafaaaafaaaafaaaafaaaafaaaafaaaafaaaafaaaafaaaafaaaafaaaafaaaafaaaafaaaafaaaafaaaafaaaafaaaafaaaafaaaafaaaafaaaafaaaafaaaafaaaafaaaafaaaafaaaafaaaafaaaafaaaafaaaafaaaafaaaafaaaafaaaafaaaafaaaafaaaafaaaafaaaafaaaafaaaafaaaafaaaafaaaafaaaafaaaafaaaafaaaafaaaafaaaafaaaafaaaafaaaafaaaafaaaafaaaafaaaafaaaafaaaafaaaafaaaafaaaafaaaafaaaafaaaafaaaafaaaafaaaafaaaafaaaafaaaafaaaafaaaafaaaafaaaafaaaafaaaafaaaafaaaafaaaafaaaafaaaafaaaafaaaafaaaafaaaafaaaafaaaafaaaafaaaafaaaafaaaafaaaafaaaafaaaafaaaafaaaafaaaafaaaafaaaafaaaafaaaafaaaafaaaafaaaafaaaafaaaafaaaafaaaafaaaafaaaafaaaafaaaafaaaafaaaafaaaafaaaafaaaafaaaafaaaafaaaafaaaafaaaafaaaafaaaafaaaafaaaafaaaafaaaafaaaafaaaafaaaafaaaafaaaafaaaafaaaafaaaafaaaafaaaafaaaafaaaafaaaafaaaafaaaafaaaafaaaafaaaafaaaafaaaafaaaafaaaafaaaafaaaafaaaafaaaafaaaafaaaafaaaafaaaafaaaafaaaafaaaafaaaafaaaafaaaafaaaafaaaafaaaafaaaafaaaafaaaafaaaafaaaafaaaafaaaafaaaafaaaafaaaafaaaafaaaafaaaafaaaafaaaafaaaafaaaafaaaafaaaafaaaafaaaafaaaafaaaafaaaafaaaafaaaafaaaafaaaafaaaafaaaafaaaafaaaafaaaafaaaafaaaafaaaafaaaafaaaafaaaafaaaafaaaafaaaafaaaafaaaafaaaafaaaafaaaafaaaafaaaafaaaafaaaafaaaafaaaafaaaafaaaafaaaafaaaafaaaafaaaafaaaafaaaafaaaafaaaafaaaafaaaafaaaafaaaafaaaafaaaafaaaafaaaafaaaafaaaafaaaafaaaafaaaafaaaafaaaafaaaafaaaafaaaafaaaafaaaafaaaafaaaafaaaafaaaafaaaafaaaafaaaafaaaafaaaafaaaafaaaafaaaafaaaafaaaafaaaafaaaafaaaafaaaafaaaafaaaafaaaafaaaafaaaafaaaafaaaafaaaafaaaafaaaafaaaafaaaafaaaafaaaafaaaafaaaafaaaafaaaafaaaafaaaafaaaafaaaafaaaafaaaafaaaafaaaafaaaafaaaafaaaafaaaafaaaafaaaafaaaafaaaafaaaafaaaafaaaafaaaafaaaafaaaafaaaafaaaafaaaafaaaafaaaafaaaafaaaafaaaafaaaafaaaafaaaafaaaafaaaafaaaafaaaafaaaafaaaafaaaafaaaafaaaafaaaafaaaafaaaafaaaafaaaafaaaafaaaafaaaafaaaafaaaafaaaafaaaafaaaafaaaafaaaafaaaafaaaafaaaafaaaafaaaafaaaafaaaafaaaafaaaafaaaafaaaafaaaafaaaafaaaafaaaafaaaafaaaafaaaafaaaafaaaafaaaafaaaafaaaafaaaafaaaafaaaafaaaafaaaafaaaafaaaafaaaafaaaafaaaafaaaafaaaafaaaafaaaafaaaafaaaafaaaafaaaafaaaafaaaafaaaafaaaafaaaafaaaafaaaafaaaafaaaafaaaafaaaafaaaafaaaafaaaafaaaafaaaafaaaafaaaafaaaafaaaafaaaafaaaafaaaafaaaafaaaafaaaafaaaafaaaafaaaafaaaafaaaafaaaafaaaafaaaafaaaafaaaafaaaafaaaafaaaafaaaafaaaafaaaafaaaafaaaafaaaafaaaafaaaafaaaafaaaafaaaafaaaafaaaafaaaafaaaafaaaafaaaafaaaafaaaafaaaafaaaafaaaafaaaafaaaafaaaafaaaafaaaafaaaafaaaafaaaafaaaafaaaafaaaafaaaafaaaafaaaafaaaafaaaafaaaafaaaafaaaafaaaafaaaafaaaafaaaafaaaafaaaafaaaafaaaafaaaafaaaafaaaafaaaafaaaafaaaafaaaafaaaafaaaafaaaafaaaafaaaafaaaafaaaafaaaafaaaafaaaafaaaafaaaafaaaafaaaafaaaafaaaafaaaafaaaafaaaafaaaafaaaafaaaafaaaafaaaafaaaafaaaafaaaafaaaafaaaafaaaafaaaafaaaafaaaafaaaafaaaafaaaafaaaafaaaafaaaafaaaafaaaafaaaafaaaafaaaafaaaafaaaafaaaafaaaafaaaafaaaafaaaafaaaafaaaafaaaafaaaafaaaafaaaafaaaafaaaafaaaafaaaafaaaafaaaafaaaafaaaafaaaafaaaafaaaafaaaafaaaafaaaafaaaafaaaafaaaafaaaafaaaafaaaafaaaafaaaafaaaafaaaafaaaafaaaafaaaafaaaafaaaafaaaafaaaafaaaafaaaafaaaafaaaafaaaafaaaafaaaafaaaafaaaafaaaafaaaafaaaafaaaafaaaafaaaafaaaafaaaafaaaafaaaafaaaafaaaafaaaafaaaafaaaafaaaafaaaafaaaafaaaafaaaafaaaafaaaafaaaafaaaafaaaafaaaafaaaafaaaafaaaafaaaafaaaafaaaafaaaafaaaafaaaafaaaafaaaafaaaafaaaafaaaafaaaafaaaafaaaafaaaafaaaafaaaafaaaafaaaafaaaafaaaafaaaafaaaafaaaafaaaafaaaafaaaafaaaafaaaafaaaafaaaafaaaafaaaafaaaafaaaafaaaafaaaafaaaafaaaafaaaafaaaafaaaafaaaafaaaafaaaafaaaafaaaafaaaafaaaafaaaafaaaafaaaafaaaafaaaafaaaafaaaafaaaafaaaafaaaafaaaafaaaafaaaafaaaafaaaafaaaafaaaafaaaafaaaafaaaafaaaafaaaafaaaafaaaafaaaafaaaafaaaafaaaafaaaafaaaafaaaafaaaafaaaafaaaafaaaafaaaafaaaafaaaafaaaafaaaafaaaafaaaafaaaafaaaafaaaafaaaafaaaafaaaafaaaafaaaafaaaafaaaafaaaafaaaafaaaafaaaafaaaafaaaafaaaafaaaafaaaafaaaafaaaafaaaafaaaafaaaafaaaafaaaafaaaafaaaafaaaafaaaafaaaafaaaafaaaafaaaafaaaafaaaafaaaafaaaafaaaafaaaafaaaafaaaafaaaafaaaafaaaafaaaafaaaafaaaafaaaafaaaafaaaafaaaafaaaafaaaafaaaafaaaafaaaafaaaafaaaafaaaafaaaafaaaafaaaafaaaafaaaafaaaafaaaafaaaafaaaafaaaafaaaafaaaafaaaafaaaafaaaafaaaafaaaafaaaafaaaafaaaafaaaafaaaafaaaafaaaafaaaafaaaafaaaafaaaafaaaafaaaafaaaafaaaafaaaafaaaafaaaafaaaafaaaafaaaafaaaafaaaafaaaafaaaafaaaafaaaafaaaafaaaafaaaafaaaafaaaafaaaafaaaafaaaafaaaafaaaafaaaafaaaafaaaafaaaafaaaafaaaafaaaafaaaafaaaafaaaafaaaafaaaafaaaafaaaafaaaafaaaafaaaafaaaafaaaafaaaafaaaafaaaafaaaafaaaafaaaafaaaafaaaafaaaafaaaafaaaafaaaafaaaafaaaafaaaafaaaafaaaafaaaafaaaafaaaafaaaafaaaafaaaafaaaafaaaafaaaafaaaafaaaafaaaafaaaafaaaafaaaafaaaafaaaafaaaafaaaafaaaafaaaafaaaafaaaafaaaafaaaafaaaafaaaafaaaafaaaafaaaafaaaafaaaafaaaafaaaafaaaafaaaafaaaafaaaafaaaafaaaafaaaafaaaafaaaafaaaafaaaafaaaafaaaafaaaafaaaafaaaafaaaafaaaafaaaafaaaafaaaafaaaafaaaafaaaafaaaafaaaafaaaafaaaafaaaafaaaafaaaafaaaafaaaafaaaafaaaafaaaafaaaafaaaafaaaafaaaafaaaafaaaafaaaafaaaafaaaafaaaafaaaafaaaafaaaafaaaafaaaafaaaafaaaafaaaafaaaafaaaafaaaafaaaafaaaafaaaafaaaafaaaafaaaafaaaafaaaafaaaafaaaafaaaafaaaafaaaafaaaafaaaafaaaafaaaafaaaafaaaafaaaafaaaafaaaafaaaafaaaafaaaafaaaafaaaafaaaafaaaafaaaafaaaafaaaafaaaafaaaafaaaafaaaafaaaafaaaafaaaafaaaafaaaafaaaafaaaafaaaafaaaafaaaafaaaafaaaafaaaafaaaafaaaafaaaafaaaafaaaafaaaafaaaafaaaafaaaafaaaafaaaafaaaafaaaafaaaafaaaafaaaafaaaafaaaafaaaafaaaafaaaafaaaafaaaafaaaafaaaafaaaafaaaafaaaafaaaafaaaafaaaafaaaafaaaafaaaafaaaafaaaafaaaafaaaafaaaafaaaafaaaafaaaafaaaafaaaafaaaafaaaafaaaafaaaafaaaafaaaafaaaafaaaafaaaafaaaafaaaafaaaafaaaafaaaafaaaafaaaafaaaafaaaafaaaafaaaafaaaafaaaafaaaafaaaafaaaafaaaafaaaafaaaafaaaafaaaafaaaafaaaafaaaafaaaafaaaafaaaafaaaafaaaafaaaafaaaafaaaafaaaafaaaafaaaafaaaafaaaafaaaafaaaafaaaafaaaafaaaafaaaafaaaafaaaafaaaafaaaafaaaafaaaafaaaafaaaafaaaafaaaafaaaafaaaafaaaafaaaafaaaafaaaafaaaafaaaafaaaafaaaafaaaafaaaafaaaafaaaafaaaafaaaafaaaafaaaafaaaafaaaafaaaafaaaafaaaafaaaafaaaafaaaafaaaafaaaafaaaafaaaafaaaafaaaafaaaafaaaafaaaafaaaafaaaafaaaafaaaafaaaafaaaafaaaafaaaafaaaafaaaafaaaafaaaafaaaafaaaafaaaafaaaafaaaafaaaafaaaafaaaafaaaafaaaafaaaafaaaafaaaafaaaafaaaafaaaafaaaafaaaafaaaafaaaafaaaafaaaafaaaafaaaafaaaafaaaafaaaafaaaafaaaafaaaafaaaafaaaafaaaafaaaafaaaafaaaafaaaafaaaafaaaafaaaafaaaafaaaafaaaafaaaafaaaafaaaafaaaafaaaafaaaafaaaafaaaafaaaafaaaafaaaafaaaafaaaafaaaafaaaafaaaafaaaafaaaafaaaafaaaafaaaafaaaafaaaafaaaafaaaafaaaafaaaafaaaafaaaafaaaafaaaafaaaafaaaafaaaafaaaafaaaafaaaafaaaafaaaafaaaafaaaafaaaafaaaafaaaafaaaafaaaafaaaafaaaafaaaafaaaafaaaafaaaafaaaafaaaafaaaafaaaafaaaafaaaafaaaafaaaafaaaafaaaafaaaafaaaafaaaafaaaafaaaafaaaafaaaafaaaafaaaafaaaafaaaafaaaafaaaafaaaafaaaafaaaafaaaafaaaafaaaafaaaafaaaafaaaafaaaafaaaafaaaafaaaafaaaafaaaafaaaafaaaafaaaafaaaafaaaafaaaafaaaafaaaafaaaafaaaafaaaafaaaafaaaafaaaafaaaafaaaafaaaafaaaafaaaafaaaafaaaafaaaafaaaafaaaafaaaafaaaafaaaafaaaafaaaafaaaafaaaafaaaafaaaafaaaafaaaafaaaafaaaafaaaafaaaafaaaafaaaafaaaafaaaafaaaafaaaafaaaafaaaafaaaafaaaafaaaafaaaafaaaafaaaafaaaafaaaafaaaafaaaafaaaafaaaafaaaafaaaafaaaafaaaafaaaafaaaafaaaafaaaafaaaafaaaafaaaafaaaafaaaafaaaafaaaafaaaafaaaafaaaafaaaafaaaafaaaafaaaafaaaafaaaafaaaafaaaafaaaafaaaafaaaafaaaafaaaafaaaafaaaafaaaafaaaafaaaafaaaafaaaafaaaafaaaafaaaafaaaafaaaafaaaafaaaafaaaafaaaafaaaafaaaafaaaafaaaafaaaafaaaafaaaafaaaafaaaafaaaafaaaafaaaafaaaafaaaafaaaafaaaafaaaafaaaafaaaafaaaafaaaafaaaafaaaafaaaafaaaafaaaafaaaafaaaafaaaafaaaafaaaafaaaafaaaafaaaafaaaafaaaafaaaafaaaafaaaafaaaafaaaafaaaafaaaafaaaafaaaafaaaafaaaafaaaafaaaafaaaafaaaafaaaafaaaafaaaafaaaafaaaafaaaafaaaafaaaafaaaafaaaafaaaafaaaafaaaafaaaafaaaafaaaafaaaafaaaafaaaafaaaafaaaafaaaafaaaafaaaafaaaafaaaafaaaafaaaafaaaafaaaafaaaafaaaafaaaafaaaafaaaafaaaafaaaafaaaafaaaafaaaafaaaafaaaafaaaafaaaafaaaafaaaafaaaafaaaafaaaafaaaafaaaafaaaafaaaafaaaafaaaafaaaafaaaafaaaafaaaafaaaafaaaafaaaafaaaafaaaafaaaafaaaafaaaafaaaafaaaafaaaafaaaafaaaafaaaafaaaafaaaafaaaafaaaafaaaafaaaafaaaafaaaafaaaafaaaafaaaafaaaafaaaafaaaafaaaafaaaafaaaafaaaafaaaafaaaafaaaafaaaafaaaafaaaafaaaafaaaafaaaafaaaafaaaafaaaafaaaafaaaafaaaafaaaafaaaafaaaafaaaafaaaafaaaafaaaafaaaafaaaafaaaafaaaafaaaafaaaafaaaafaaaafaaaafaaaafaaaafaaaafaaaafaaaafaaaafaaaafaaaafaaaafaaaafaaaafaaaafaaaafaaaafaaaafaaaafaaaafaaaafaaaafaaaafaaaafaaaafaaaafaaaafaaaafaaaafaaaafaaaafaaaafaaaafaaaafaaaafaaaafaaaafaaaafaaaafaaaafaaaafaaaafaaaafaaaafaaaafaaaafaaaafaaaafaaaafaaaafaaaafaaaafaaaafaaaafaaaafaaaafaaaafaaaafaaaafaaaafaaaafaaaafaaaafaaaafaaaafaaaafaaaafaaaafaaaafaaaafaaaafaaaafaaaafaaaafaaaafaaaafaaaafaaaafaaaafaaaafaaaafaaaafaaaafaaaafaaaafaaaafaaaafaaaafaaaafaaaafaaaafaaaafaaaafaaaafaaaafaaaafaaaafaaaafaaaafaaaafaaaafaaaafaaaafaaaafaaaafaaaafaaaafaaaafaaaafaaaafaaaafaaaafaaaafaaaafaaaafaaaafaaaafaaaafaaaafaaaafaaaafaaaafaaaafaaaafaaaafaaaafaaaafaaaafaaaafaaaafaaaafaaaafaaaafaaaafaaaafaaaafaaaafaaaafaaaafaaaafaaaafaaaafaaaafaaaafaaaafaaaafaaaafaaaafaaaafaaaafaaaafaaaafaaaafaaaafaaaafaaaafaaaafaaaafaaaafaaaafaaaafaaaafaaaafaaaafaaaafaaaafaaaafaaaafaaaafaaaafaaaafaaaafaaaafaaaafaaaafaaaafaaaafaaaafaaaafaaaafaaaafaaaafaaaafaaaafaaaafaaaafaaaafaaaafaaaafaaaafaaaafaaaafaaaafaaaafaaaafaaaafaaaafaaaafaaaafaaaafaaaafaaaafaaaafaaaafaaaafaaaafaaaafaaaafaaaafaaaafaaaafaaaafaaaafaaaafaaaafaaaafaaaafaaaafaaaafaaaafaaaafaaaafaaaafaaaafaaaafaaaafaaaafaaaafaaaafaaaafaaaafaaaafaaaafaaaafaaaafaaaafaaaafaaaafaaaafaaaafaaaafaaaafaaaafaaaafaaaafaaaafaaaafaaaafaaaafaaaafaaaafaaaafaaaafaaaafaaaafaaaafaaaafaaaafaaaafaaaafaaaafaaaafaaaafaaaafaaaafaaaafaaaafaaaafaaaafaaaafaaaafaaaafaaaafaaaafaaaafaaaafaaaafaaaafaaaafaaaafaaaafaaaafaaaafaaaafaaaafaaaafaaaafaaaafaaaafaaaafaaaafaaaafaaaafaaaafaaaafaaaafaaaafaaaafaaaafaaaafaaaafaaaafaaaafaaaafaaaafaaaafaaaafaaaafaaaafaaaafaaaafaaaafaaaafaaaafaaaafaaaafaaaafaaaafaaaafaaaafaaaafaaaafaaaafaaaafaaaafaaaafaaaafaaaafaaaafaaaafaaaafaaaafaaaafaaaafaaaafaaaafaaaafaaaafaaaafaaaafaaaafaaaafaaaafaaaafaaaafaaaafaaaafaaaafaaaafaaaafaaaafaaaafaaaafaaaafaaaafaaaafaaaafaaaafaaaafaaaafaaaafaaaafaaaafaaaafaaaafaaaafaaaafaaaafaaaafaaaafaaaafaaaafaaaafaaaafaaaafaaaafaaaafaaaafaaaafaaaafaaaafaaaafaaaafaaaafaaaafaaaafaaaafaaaafaaaafaaaafaaaafaaaafaaaafaaaafaaaafaaaafaaaafaaaafaaaafaaaafaaaafaaaafaaaafaaaafaaaafaaaafaaaafaaaafaaaafaaaafaaaafaaaafaaaafaaaafaaaafaaaafaaaafaaaafaaaafaaaafaaaafaaaafaaaafaaaafaaaafaaaafaaaafaaaafaaaafaaaafaaaafaaaafaaaafaaaafaaaafaaaafaaaafaaaafaaaafaaaafaaaafaaaafaaaafaaaafaaaafaaaafaaaafaaaafaaaafaaaafaaaafaaaafaaaafaaaafaaaafaaaafaaaafaaaafaaaafaaaafaaaafaaaafaaaafaaaafaaaafaaaafaaaafaaaafaaaafaaaafaaaafaaaafaaaafaaaafaaaafaaaafaaaafaaaafaaaafaaaafaaaafaaaafaaaafaaaafaaaafaaaafaaaafaaaafaaaafaaaafaaaafaaaafaaaafaaaafaaaafaaaafaaaafaaaafaaaafaaaafaaaafaaaafaaaafaaaafaaaafaaaafaaaafaaaafaaaafaaaafaaaafaaaafaaaafaaaafaaaafaaaafaaaafaaaafaaaafaaaafaaaafaaaafaaaafaaaafaaaafaaaafaaaafaaaafaaaafaaaafaaaafaaaafaaaafaaaafaaaafaaaafaaaafaaaafaaaafaaaafaaaafaaaafaaaafaaaafaaaafaaaafaaaafaaaafaaaafaaaafaaaafaaaafaaaafaaaafaaaafaaaafaaaafaaaafaaaafaaaafaaaafaaaafaaaafaaaafaaaafaaaafaaaafaaaafaaaafaaaafaaaafaaaafaaaafaaaafaaaafaaaafaaaafaaaafaaaafaaaafaaaafaaaafaaaafaaaafaaaafaaaafaaaafaaaafaaaafaaaafaaaafaaaafaaaafaaaafaaaafaaaafaaaafaaaafaaaafaaaafaaaafaaaafaaaafaaaafaaaafaaaafaaaafaaaafaaaafaaaafaaaafaaaafaaaafaaaafaaaafaaaafaaaafaaaafaaaafaaaafaaaafaaaafaaaafaaaafaaaafaaaafaaaafaaaafaaaafaaaafaaaafaaaafaaaafaaaafaaaafaaaafaaaafaaaafaaaafaaaafaaaafaaaafaaaafaaaafaaaafaaaafaaaafaaaafaaaafaaaafaaaafaaaafaaaafaaaafaaaafaaaafaaaafaaaafaaaafaaaafaaaafaaaafaaaafaaaafaaaafaaaafaaaafaaaafaaaafaaaafaaaafaaaafaaaafaaaafaaaafaaaafaaaafaaaafaaaafaaaafaaaafaaaafaaaafaaaafaaaafaaaafaaaafaaaafaaaafaaaafaaaafaaaafaaaafaaaafaaaafaaaafaaaafaaaafaaaafaaaafaaaafaaaafaaaafaaaafaaaafaaaafaaaafaaaafaaaafaaaafaaaafaaaafaaaafaaaafaaaafaaaafaaaafaaaafaaaafaaaafaaaafaaaafaaaafaaaafaaaafaaaafaaaafaaaafaaaafaaaafaaaafaaaafaaaafaaaafaaaafaaaafaaaafaaaafaaaafaaaafaaaafaaaafaaaafaaaafaaaafaaaafaaaafaaaafaaaafaaaafaaaafaaaafaaaafaaaafaaaafaaaafaaaafaaaafaaaafaaaafaaaafaaaafaaaafaaaafaaaafaaaafaaaafaaaafaaaafaaaafaaaafaaaafaaaafaaaafaaaafaaaafaaaafaaaafaaaafaaaafaaaafaaaafaaaafaaaafaaaafaaaafaaaafaaaafaaaafaaaafaaaafaaaafaaaafaaaafaaaafaaaafaaaafaaaafaaaafaaaafaaaafaaaafaaaafaaaafaaaafaaaafaaaafaaaafaaaafaaaafaaaafaaaafaaaafaaaafaaaafaaaafaaaafaaaafaaaafaaaafaaaafaaaafaaaafaaaafaaaafaaaafaaaafaaaafaaaafaaaafaaaafaaaafaaaafaaaafaaaafaaaafaaaafaaaafaaaafaaaafaaaafaaaafaaaafaaaafaaaafaaaafaaaafaaaafaaaafaaaafaaaafaaaafaaaafaaaafaaaafaaaafaaaafaaaafaaaafaaaafaaaafaaaafaaaafaaaafaaaafaaaafaaaafaaaafaaaafaaaafaaaafaaaafaaaafaaaafaaaafaaaafaaaafaaaafaaaafaaaafaaaafaaaafaaaafaaaafaaaafaaaafaaaafaaaafaaaafaaaafaaaafaaaafaaaafaaaafaaaafaaaafaaaafaaaafaaaafaaaafaaaafaaaafaaaafaaaafaaaafaaaafaaaafaaaafaaaafaaaafaaaafaaaafaaaafaaaafaaaafaaaafaaaafaaaafaaaafaaaafaaaafaaaafaaaafaaaafaaaafaaaafaaaafaaaafaaaafaaaafaaaafaaaafaaaafaaaafaaaafaaaafaaaafaaaafaaaafaaaafaaaafaaaafaaaafaaaafaaaafaaaafaaaafaaaafaaaafaaaafaaaafaaaafaaaafaaaafaaaafaaaafaaaafaaaafaaaafaaaafaaaafaaaafaaaafaaaafaaaafaaaafaaaafaaaafaaaafaaaafaaaafaaaafaaaafaaaafaaaafaaaafaaaafaaaafaaaafaaaafaaaafaaaafaaaafaaaafaaaafaaaafaaaafaaaafaaaafaaaafaaaafaaaafaaaafaaaafaaaafaaaafaaaafaaaafaaaafaaaafaaaafaaaafaaaafaaaafaaaafaaaafaaaafaaaafaaaafaaaafaaaafaaaafaaaafaaaafaaaafaaaafaaaafaaaafaaaafaaaafaaaafaaaafaaaafaaaafaaaafaaaafaaaafaaaafaaaafaaaafaaaafaaaafaaaafaaaafaaaafaaaafaaaafaaaafaaaafaaaafaaaafaaaafaaaafaaaafaaaafaaaafaaaafaaaafaaaafaaaafaaaafaaaafaaaafaaaafaaaafaaaafaaaafaaaafaaaafaaaafaaaafaaaafaaaafaaaafaaaafaaaafaaaafaaaafaaaafaaaafaaaafaaaafaaaafaaaafaaaafaaaafaaaafaaaafaaaafaaaafaaaafaaaafaaaafaaaafaaaafaaaafaaaafaaaafaaaafaaaafaaaafaaaafaaaafaaaafaaaafaaaafaaaafaaaafaaaafaaaafaaaafaaaafaaaafaaaafaaaafaaaafaaaafaaaafaaaafaaaafaaaafaaaafaaaafaaaafaaaafaaaafaaaafaaaafaaaafaaaafaaaafaaaafaaaafaaaafaaaafaaaafaaaafaaaafaaaafaaaafaaaafaaaafaaaafaaaafaaaafaaaafaaaafaaaafaaaafaaaafaaaafaaaafaaaafaaaafaaaafaaaafaaaafaaaafaaaafaaaafaaaafaaaafaaaafaaaafaaaafaaaafaaaafaaaafaaaafaaaafaaaafaaaafaaaafaaaafaaaafaaaafaaaafaaaafaaaafaaaafaaaafaaaafaaaafaaaafaaaafaaaafaaaafaaaafaaaafaaaafaaaafaaaafaaaafaaaafaaaafaaaafaaaafaaaafaaaafaaaafaaaafaaaafaaaafaaaafaaaafaaaafaaaafaaaafaaaafaaaafaaaafaaaafaaaafaaaafaaaafaaaafaaaafaaaafaaaafaaaafaaaafaaaafaaaafaaaafaaaafaaaafaaaafaaaafaaaafaaaafaaaafaaaafaaaafaaaafaaaafaaaafaaaafaaaafaaaafaaaafaaaafaaaafaaaafaaaafaaaafaaaafaaaafaaaafaaaafaaaafaaaafaaaafaaaafaaaafaaaafaaaafaaaafaaaafaaaafaaaafaaaafaaaafaaaafaaaafaaaafaaaafaaaafaaaafaaaafaaaafaaaafaaaafaaaafaaaafaaaafaaaafaaaafaaaafaaaafaaaafaaaafaaaafaaaafaaaafaaaafaaaafaaaafaaaafaaaafaaaafaaaafaaaafaaaafaaaafaaaafaaaafaaaafaaaafaaaafaaaafaaaafaaaafaaaafaaaafaaaafaaaafaaaafaaaafaaaafaaaafaaaafaaaafaaaafaaaafaaaafaaaafaaaafaaaafaaaafaaaafaaaafaaaafaaaafaaaafaaaafaaaafaaaafaaaafaaaafaaaafaaaafaaaafaaaafaaaafaaaafaaaafaaaafaaaafaaaafaaaafaaaafaaaafaaaafaaaafaaaafaaaafaaaafaaaafaaaafaaaafaaaafaaaafaaaafaaaafaaaafaaaafaaaafaaaafaaaafaaaafaaaafaaaafaaaafaaaafaaaafaaaafaaaafaaaafaaaafaaaafaaaafaaaafaaaafaaaafaaaafaaaafaaaafaaaafaaaafaaaafaaaafaaaafaaaafaaaafaaaafaaaafaaaafaaaafaaaafaaaafaaaafaaaafaaaafaaaafaaaafaaaafaaaafaaaafaaaafaaaafaaaafaaaafaaaafaaaafaaaafaaaafaaaafaaaafaaaafaaaafaaaafaaaafaaaafaaaafaaaafaaaafaaaafaaaafaaaafaaaafaaaafaaaafaaaafaaaafaaaafaaaafaaaafaaaafaaaafaaaafaaaafaaaafaaaafaaaafaaaafaaaafaaaafaaaafaaaafaaaafaaaafaaaafaaaafaaaafaaaafaaaafaaaafaaaafaaaafaaaafaaaafaaaafaaaafaaaafaaaafaaaafaaaafaaaafaaaafaaaafaaaafaaaafaaaafaaaafaaaafaaaafaaaafaaaafaaaafaaaafaaaafaaaafaaaafaaaafaaaafaaaafaaaafaaaafaaaafaaaafaaaafaaaafaaaafaaaafaaaafaaaafaaaafaaaafaaaafaaaafaaaafaaaafaaaafaaaafaaaafaaaafaaaafaaaafaaaafaaaafaaaafaaaafaaaafaaaafaaaafaaaafaaaafaaaafaaaafaaaafaaaafaaaafaaaafaaaafaaaafaaaafaaaafaaaafaaaafaaaafaaaafaaaafaaaafaaaafaaaafaaaafaaaafaaaafaaaafaaaafaaaafaaaafaaaafaaaafaaaafaaaafaaaafaaaafaaaafaaaafaaaafaaaafaaaafaaaafaaaafaaaafaaaafaaaafaaaafaaaafaaaafaaaafaaaafaaaafaaaafaaaafaaaafaaaafaaaafaaaafaaaafaaaafaaaafaaaafaaaafaaaafaaaafaaaafaaaafaaaafaaaafaaaafaaaafaaaafaaaafaaaafaaaafaaaafaaaafaaaafaaaafaaaafaaaafaaaafaaaafaaaafaaaafaaaafaaaafaaaafaaaafaaaafaaaafaaaafaaaafaaaafaaaafaaaafaaaafaaaafaaaafaaaafaaaafaaaafaaaafaaaafaaaafaaaafaaaafaaaafaaaafaaaafaaaafaaaafaaaafaaaafaaaafaaaafaaaafaaaafaaaafaaaafaaaafaaaafaaaafaaaafaaaafaaaafaaaafaaaafaaaafaaaafaaaafaaaafaaaafaaaafaaaafaaaafaaaafaaaafaaaafaaaafaaaafaaaafaaaafaaaafaaaafaaaafaaaafaaaafaaaafaaaafaaaafaaaafaaaafaaaafaaaafaaaafaaaafaaaafaaaafaaaafaaaafaaaafaaaafaaaafaaaafaaaafaaaafaaaafaaaafaaaafaaaafaaaafaaaafaaaafaaaafaaaafaaaafaaaafaaaafaaaafaaaafaaaafaaaafaaaafaaaafaaaafaaaafaaaafaaaafaaaafaaaafaaaafaaaafaaaafaaaafaaaafaaaafaaaafaaaafaaaafaaaafaaaafaaaafaaaafaaaafaaaafaaaafaaaafaaaafaaaafaaaafaaaafaaaafaaaafaaaafaaaafaaaafaaaafaaaafaaaafaaaafaaaafaaaafaaaafaaaafaaaafaaaafaaaafaaaafaaaafaaaafaaaafaaaafaaaafaaaafaaaafaaaafaaaafaaaafaaaafaaaafaaaafaaaafaaaafaaaafaaaafaaaafaaaafaaaafaaaafaaaafaaaafaaaafaaaafaaaafaaaafaaaafaaaafaaaafaaaafaaaafaaaafaaaafaaaafaaaafaaaafaaaafaaaafaaaafaaaafaaaafaaaafaaaafaaaafaaaafaaaafaaaafaaaafaaaafaaaafaaaafaaaafaaaafaaaafaaaafaaaafaaaafaaaafaaaafaaaafaaaafaaaafaaaafaaaafaaaafaaaafaaaafaaaafaaaafaaaafaaaafaaaafaaaafaaaafaaaafaaaafaaaafaaaafaaaafaaaafaaaafaaaafaaaafaaaafaaaafaaaafaaaafaaaafaaaafaaaafaaaafaaaafaaaafaaaafaaaafaaaafaaaafaaaafaaaafaaaafaaaafaaaafaaaafaaaafaaaafaaaafaaaafaaaafaaaafaaaafaaaafaaaafaaaafaaaafaaaafaaaafaaaafaaaafaaaafaaaafaaaafaaaafaaaafaaaafaaaafaaaafaaaafaaaafaaaafaaaafaaaafaaaafaaaafaaaafaaaafaaaafaaaafaaaafaaaafaaaafaaaafaaaafaaaafaaaafaaaafaaaafaaaafaaaafaaaafaaaafaaaafaaaafaaaafaaaafaaaafaaaafaaaafaaaafaaaafaaaafaaaafaaaafaaaafaaaafaaaafaaaafaaaafaaaafaaaafaaaafaaaafaaaafaaaafaaaafaaaafaaaafaaaafaaaafaaaafaaaafaaaafaaaafaaaafaaaafaaaafaaaafaaaafaaaafaaaafaaaafaaaafaaaafaaaafaaaafaaaafaaaafaaaafaaaafaaaafaaaafaaaafaaaafaaaafaaaafaaaafaaaafaaaafaaaafaaaafaaaafaaaafaaaafaaaafaaaafaaaafaaaafaaaafaaaafaaaafaaaafaaaafaaaafaaaafaaaafaaaafaaaafaaaafaaaafaaaafaaaafaaaafaaaafaaaafaaaafaaaafaaaafaaaafaaaafaaaafaaaafaaaafaaaafaaaafaaaafaaaafaaaafaaaafaaaafaaaafaaaafaaaafaaaafaaaafaaaafaaaafaaaafaaaafaaaafaaaafaaaafaaaafaaaafaaaafaaaafaaaafaaaafaaaafaaaafaaaafaaaafaaaafaaaafaaaafaaaafaaaafaaaafaaaafaaaafaaaafaaaafaaaafaaaafaaaafaaaafaaaafaaaafaaaafaaaafaaaafaaaafaaaafaaaafaaaafaaaafaaaafaaaafaaaafaaaafaaaafaaaafaaaafaaaafaaaafaaaafaaaafaaaafaaaafaaaafaaaafaaaafaaaafaaaafaaaafaaaafaaaafaaaafaaaafaaaafaaaafaaaafaaaafaaaafaaaafaaaafaaaafaaaafaaaafaaaafaaaafaaaafaaaafaaaafaaaafaaaafaaaafaaaafaaaafaaaafaaaafaaaafaaaafaaaafaaaafaaaafaaaafaaaafaaaafaaaafaaaafaaaafaaaafaaaafaaaafaaaafaaaafaaaafaaaafaaaafaaaafaaaafaaaafaaaafaaaafaaaafaaaafaaaafaaaafaaaafaaaafaaaafaaaafaaaafaaaafaaaafaaaafaaaafaaaafaaaafaaaafaaaafaaaafaaaafaaaafaaaafaaaafaaaafaaaafaaaafaaaafaaaafaaaafaaaafaaaafaaaafaaaafaaaafaaaafaaaafaaaafaaaafaaaafaaaafaaaafaaaafaaaafaaaafaaaafaaaafaaaafaaaafaaaafaaaafaaaafaaaafaaaafaaaafaaaafaaaafaaaafaaaafaaaafaaaafaaaafaaaafaaaafaaaafaaaafaaaafaaaafaaaafaaaafaaaafaaaafaaaafaaaafaaaafaaaafaaaafaaaafaaaafaaaafaaaafaaaafaaaafaaaafaaaafaaaafaaaafaaaafaaaafaaaafaaaafaaaafaaaafaaaafaaaafaaaafaaaafaaaafaaaafaaaafaaaafaaaafaaaafaaaafaaaafaaaafaaaafaaaafaaaafaaaafaaaafaaaafaaaafaaaafaaaafaaaafaaaafaaaafaaaafaaaafaaaafaaaafaaaafaaaafaaaafaaaafaaaafaaaafaaaafaaaafaaaafaaaafaaaafaaaafaaaafaaaafaaaafaaaafaaaafaaaafaaaafaaaafaaaafaaaafaaaafaaaafaaaafaaaafaaaafaaaafaaaafaaaafaaaafaaaafaaaafaaaafaaaafaaaafaaaafaaaafaaaafaaaafaaaafaaaafaaaafaaaafaaaafaaaafaaaafaaaafaaaafaaaafaaaafaaaafaaaafaaaafaaaafaaaafaaaafaaaafaaaafaaaafaaaafaaaafaaaafaaaafaaaafaaaafaaaafaaaafaaaafaaaafaaaafaaaafaaaafaaaafaaaafaaaafaaaafaaaafaaaafaaaafaaaafaaaafaaaafaaaafaaaafaaaafaaaafaaaafaaaafaaaafaaaafaaaafaaaafaaaafaaaafaaaafaaaafaaaafaaaafaaaafaaaafaaaafaaaafaaaafaaaafaaaafaaaafaaaafaaaafaaaafaaaafaaaafaaaafaaaafaaaafaaaafaaaafaaaafaaaafaaaafaaaafaaaafaaaafaaaafaaaafaaaafaaaafaaaafaaaafaaaafaaaafaaaafaaaafaaaafaaaafaaaafaaaafaaaafaaaafaaaafaaaafaaaafaaaafaaaafaaaafaaaafaaaafaaaafaaaafaaaafaaaafaaaafaaaafaaaafaaaafaaaafaaaafaaaafaaaafaaaafaaaafaaaafaaaafaaaafaaaafaaaafaaaafaaaafaaaafaaaafaaaafaaaafaaaafaaaafaaaafaaaafaaaafaaaafaaaafaaaafaaaafaaaafaaaafaaaafaaaafaaaafaaaafaaaafaaaafaaaafaaaafaaaafaaaafaaaafaaaafaaaafaaaafaaaafaaaafaaaafaaaafaaaafaaaafaaaafaaaafaaaafaaaafaaaafaaaafaaaafaaaafaaaafaaaafaaaafaaaafaaaafaaaafaaaafaaaafaaaafaaaafaaaafaaaafaaaafaaaafaaaafaaaafaaaafaaaafaaaafaaaafaaaafaaaafaaaafaaaafaaaafaaaafaaaafaaaafaaaafaaaafaaaafaaaafaaaafaaaafaaaafaaaafaaaafaaaafaaaafaaaafaaaafaaaafaaaafaaaafaaaafaaaafaaaafaaaafaaaafaaaafaaaafaaaafaaaafaaaafaaaafaaaafaaaafaaaafaaaafaaaafaaaafaaaafaaaafaaaafaaaafaaaafaaaafaaaafaaaafaaaafaaaafaaaafaaaafaaaafaaaafaaaafaaaafaaaafaaaafaaaafaaaafaaaafaaaafaaaafaaaafaaaafaaaafaaaafaaaafaaaafaaaafaaaafaaaafaaaafaaaafaaaafaaaafaaaafaaaafaaaafaaaafaaaafaaaafaaaafaaaafaaaafaaaafaaaafaaaafaaaafaaaafaaaafaaaafaaaafaaaafaaaafaaaafaaaafaaaafaaaafaaaafaaaafaaaafaaaafaaaafaaaafaaaafaaaafaaaafaaaafaaaafaaaafaaaafaaaafaaaafaaaafaaaafaaaafaaaafaaaafaaaafaaaafaaaafaaaafaaaafaaaafaaaafaaaafaaaafaaaafaaaafaaaafaaaafaaaafaaaafaaaafaaaafaaaafaaaafaaaafaaaafaaaafaaaafaaaafaaaafaaaafaaaafaaaafaaaafaaaafaaaafaaaafaaaafaaaafaaaafaaaafaaaafaaaafaaaafaaaafaaaafaaaafaaaafaaaafaaaafaaaafaaaafaaaafaaaafaaaafaaaafaaaafaaaafaaaafaaaafaaaafaaaafaaaafaaaafaaaafaaaafaaaafaaaafaaaafaaaafaaaafaaaafaaaafaaaafaaaafaaaafaaaafaaaafaaaafaaaafaaaafaaaafaaaafaaaafaaaafaaaafaaaafaaaafaaaafaaaafaaaafaaaafaaaafaaaafaaaafaaaafaaaafaaaafaaaafaaaafaaaafaaaafaaaafaaaafaaaafaaaafaaaafaaaafaaaafaaaafaaaafaaaafaaaafaaaafaaaafaaaafaaaafaaaafaaaafaaaafaaaafaaaafaaaafaaaafaaaafaaaafaaaafaaaafaaaafaaaafaaaafaaaafaaaafaaaafaaaafaaaafaaaafaaaafaaaafaaaafaaaafaaaafaaaafaaaafaaaafaaaafaaaafaaaafaaaafaaaafaaaafaaaafaaaafaaaafaaaafaaaafaaaafaaaafaaaafaaaafaaaafaaaafaaaafaaaafaaaafaaaafaaaafaaaafaaaafaaaafaaaafaaaafaaaafaaaafaaaafaaaafaaaafaaaafaaaafaaaafaaaafaaaafaaaafaaaafaaaafaaaafaaaafaaaafaaaafaaaafaaaafaaaafaaaafaaaafaaaafaaaafaaaafaaaafaaaafaaaafaaaafaaaafaaaafaaaafaaaafaaaafaaaafaaaafaaaafaaaafaaaafaaaafaaaafaaaafaaaafaaaafaaaafaaaafaaaafaaaafaaaafaaaafaaaafaaaafaaaafaaaafaaaafaaaafaaaafaaaafaaaafaaaafaaaafaaaafaaaafaaaafaaaafaaaafaaaafaaaafaaaafaaaafaaaafaaaafaaaafaaaafaaaafaaaafaaaafaaaafaaaafaaaafaaaafaaaafaaaafaaaafaaaafaaaafaaaafaaaafaaaafaaaafaaaafaaaafaaaafaaaafaaaafaaaafaaaafaaaafaaaafaaaafaaaafaaaafaaaafaaaafaaaafaaaafaaaafaaaafaaaafaaaafaaaafaaaafaaaafaaaafaaaafaaaafaaaafaaaafaaaafaaaafaaaafaaaafaaaafaaaafaaaafaaaafaaaafaaaafaaaafaaaafaaaafaaaafaaaafaaaafaaaafaaaafaaaafaaaafaaaafaaaafaaaafaaaafaaaafaaaafaaaafaaaafaaaafaaaafaaaafaaaafaaaafaaaafaaaafaaaafaaaafaaaafaaaafaaaafaaaafaaaafaaaafaaaafaaaafaaaafaaaafaaaafaaaafaaaafaaaafaaaafaaaafaaaafaaaafaaaafaaaafaaaafaaaafaaaafaaaafaaaafaaaafaaaafaaaafaaaafaaaafaaaafaaaafaaaafaaaafaaaafaaaafaaaafaaaafaaaafaaaafaaaafaaaafaaaafaaaafaaaafaaaafaaaafaaaafaaaafaaaafaaaafaaaafaaaafaaaafaaaafaaaafaaaafaaaafaaaafaaaafaaaafaaaafaaaafaaaafaaaafaaaafaaaafaaaafaaaafaaaafaaaafaaaafaaaafaaaafaaaafaaaafaaaafaaaafaaaafaaaafaaaafaaaafaaaafaaaafaaaafaaaafaaaafaaaafaaaafaaaafaaaafaaaafaaaafaaaafaaaafaaaafaaaafaaaafaaaafaaaafaaaafaaaafaaaafaaaafaaaafaaaafaaaafaaaafaaaafaaaafaaaafaaaafaaaafaaaafaaaafaaaafaaaafaaaafaaaafaaaafaaaafaaaafaaaafaaaafaaaafaaaafaaaafaaaafaaaafaaaafaaaafaaaafaaaafaaaafaaaafaaaafaaaafaaaafaaaafaaaafaaaafaaaafaaaafaaaafaaaafaaaafaaaafaaaafaaaafaaaafaaaafaaaafaaaafaaaafaaaafaaaafaaaafaaaafaaaafaaaafaaaafaaaafaaaafaaaafaaaafaaaafaaaafaaaafaaaafaaaafaaaafaaaafaaaafaaaafaaaafaaaafaaaafaaaafaaaafaaaafaaaafaaaafaaaafaaaafaaaafaaaafaaaafaaaafaaaafaaaafaaaafaaaafaaaafaaaafaaaafaaaafaaaafaaaafaaaafaaaafaaaafaaaafaaaafaaaafaaaafaaaafaaaafaaaafaaaafaaaafaaaafaaaafaaaafaaaafaaaafaaaafaaaafaaaafaaaafaaaafaaaafaaaafaaaafaaaafaaaafaaaafaaaafaaaafaaaafaaaafaaaafaaaafaaaafaaaafaaaafaaaafaaaafaaaafaaaafaaaafaaaafaaaafaaaafaaaafaaaafaaaafaaaafaaaafaaaafaaaafaaaafaaaafaaaafaaaafaaaafaaaafaaaafaaaafaaaafaaaafaaaafaaaafaaaafaaaafaaaafaaaafaaaafaaaafaaaafaaaafaaaafaaaafaaaafaaaafaaaafaaaafaaaafaaaafaaaafaaaafaaaafaaaafaaaafaaaafaaaafaaaafaaaafaaaafaaaafaaaafaaaafaaaafaaaafaaaafaaaafaaaafaaaafaaaafaaaafaaaafaaaafaaaafaaaafaaaafaaaafaaaafaaaafaaaafaaaafaaaafaaaafaaaafaaaafaaaafaaaafaaaafaaaafaaaafaaaafaaaafaaaafaaaafaaaafaaaafaaaafaaaafaaaafaaaafaaaafaaaafaaaafaaaafaaaafaaaafaaaafaaaafaaaafaaaafaaaafaaaafaaaafaaaafaaaafaaaafaaaafaaaafaaaafaaaafaaaafaaaafaaaafaaaafaaaafaaaafaaaafaaaafaaaafaaaafaaaafaaaafaaaafaaaafaaaafaaaafaaaafaaaafaaaafaaaafaaaafaaaafaaaafaaaafaaaafaaaafaaaafaaaafaaaafaaaafaaaafaaaafaaaafaaaafaaaafaaaafaaaafaaaafaaaafaaaafaaaafaaaafaaaafaaaafaaaafaaaafaaaafaaaafaaaafaaaafaaaafaaaafaaaafaaaafaaaafaaaafaaaafaaaafaaaafaaaafaaaafaaaafaaaafaaaafaaaafaaaafaaaafaaaafaaaafaaaafaaaafaaaafaaaafaaaafaaaafaaaafaaaafaaaafaaaafaaaafaaaafaaaafaaaafaaaafaaaafaaaafaaaafaaaafaaaafaaaafaaaafaaaafaaaafaaaafaaaafaaaafaaaafaaaafaaaafaaaafaaaafaaaafaaaafaaaafaaaafaaaafaaaafaaaafaaaafaaaafaaaafaaaafaaaafaaaafaaaafaaaafaaaafaaaafaaaafaaaafaaaafaaaafaaaafaaaafaaaafaaaafaaaafaaaafaaaafaaaafaaaafaaaafaaaafaaaafaaaafaaaafaaaafaaaafaaaafaaaafaaaafaaaafaaaafaaaafaaaafaaaafaaaafaaaafaaaafaaaafaaaafaaaafaaaafaaaafaaaafaaaafaaaafaaaafaaaafaaaafaaaafaaaafaaaafaaaafaaaafaaaafaaaafaaaafaaaafaaaafaaaafaaaafaaaafaaaafaaaafaaaafaaaafaaaafaaaafaaaafaaaafaaaafaaaafaaaafaaaafaaaafaaaafaaaafaaaafaaaafaaaafaaaafaaaafaaaafaaaafaaaafaaaafaaaafaaaafaaaafaaaafaaaafaaaafaaaafaaaafaaaafaaaafaaaafaaaafaaaafaaaafaaaafaaaafaaaafaaaafaaaafaaaafaaaafaaaafaaaafaaaafaaaafaaaafaaaafaaaafaaaafaaaafaaaafaaaafaaaafaaaafaaaafaaaafaaaafaaaafaaaafaaaafaaaafaaaafaaaafaaaafaaaafaaaafaaaafaaaafaaaafaaaafaaaafaaaafaaaafaaaafaaaafaaaafaaaafaaaafaaaafaaaafaaaafaaaafaaaafaaaafaaaafaaaafaaaafaaaafaaaafaaaafaaaafaaaafaaaafaaaafaaaafaaaafaaaafaaaafaaaafaaaafaaaafaaaafaaaafaaaafaaaafaaaafaaaafaaaafaaaafaaaafaaaafaaaafaaaafaaaafaaaafaaaafaaaafaaaafaaaafaaaafaaaafaaaafaaaafaaaafaaaafaaaafaaaafaaaafaaaafaaaafaaaafaaaafaaaafaaaafaaaafaaaafaaaafaaaafaaaafaaaafaaaafaaaafaaaafaaaafaaaafaaaafaaaafaaaafaaaafaaaafaaaafaaaafaaaafaaaafaaaafaaaafaaaafaaaafaaaafaaaafaaaafaaaafaaaafaaaafaaaafaaaafaaaafaaaafaaaafaaaafaaaafaaaafaaaafaaaafaaaafaaaafaaaafaaaafaaaafaaaafaaaafaaaafaaaafaaaafaaaafaaaafaaaafaaaafaaaafaaaafaaaafaaaafaaaafaaaafaaaafaaaafaaaafaaaafaaaafaaaafaaaafaaaafaaaafaaaafaaaafaaaafaaaafaaaafaaaafaaaafaaaafaaaafaaaafaaaafaaaafaaaafaaaafaaaafaaaafaaaafaaaafaaaafaaaafaaaafaaaafaaaafaaaafaaaafaaaafaaaafaaaafaaaafaaaafaaaafaaaafaaaafaaaafaaaafaaaafaaaafaaaafaaaafaaaafaaaafaaaafaaaafaaaafaaaafaaaafaaaafaaaafaaaafaaaafaaaafaaaafaaaafaaaafaaaafaaaafaaaafaaaafaaaafaaaafaaaafaaaafaaaafaaaafaaaafaaaafaaaafaaaafaaaafaaaafaaaafaaaafaaaafaaaafaaaafaaaafaaaafaaaafaaaafaaaafaaaafaaaafaaaafaaaafaaaafaaaafaaaafaaaafaaaafaaaafaaaafaaaafaaaafaaaafaaaafaaaafaaaafaaaafaaaafaaaafaaaafaaaafaaaafaaaafaaaafaaaafaaaafaaaafaaaafaaaafaaaafaaaafaaaafaaaafaaaafaaaafaaaafaaaafaaaafaaaafaaaafaaaafaaaafaaaafaaaafaaaafaaaafaaaafaaaafaaaafaaaafaaaafaaaafaaaafaaaafaaaafaaaafaaaafaaaafaaaafaaaafaaaafaaaafaaaafaaaafaaaafaaaafaaaafaaaafaaaafaaaafaaaafaaaafaaaafaaaafaaaafaaaafaaaafaaaafaaaafaaaafaaaafaaaafaaaafaaaafaaaafaaaafaaaafaaaafaaaafaaaafaaaafaaaafaaaafaaaafaaaafaaaafaaaafaaaafaaaafaaaafaaaafaaaafaaaafaaaafaaaafaaaafaaaafaaaafaaaafaaaafaaaafaaaafaaaafaaaafaaaafaaaafaaaafaaaafaaaafaaaafaaaafaaaafaaaafaaaafaaaafaaaafaaaafaaaafaaaafaaaafaaaafaaaafaaaafaaaafaaaafaaaafaaaafaaaafaaaafaaaafaaaafaaaafaaaafaaaafaaaafaaaafaaaafaaaafaaaafaaaafaaaafaaaafaaaafaaaafaaaafaaaafaaaafaaaafaaaafaaaafaaaafaaaafaaaafaaaafaaaafaaaafaaaafaaaafaaaafaaaafaaaafaaaafaaaafaaaafaaaafaaaafaaaafaaaafaaaafaaaafaaaafaaaafaaaafaaaafaaaafaaaafaaaafaaaafaaaafaaaafaaaafaaaafaaaafaaaafaaaafaaaafaaaafaaaafaaaafaaaafaaaafaaaafaaaafaaaafaaaafaaaafaaaafaaaafaaaafaaaafaaaafaaaafaaaafaaaafaaaafaaaafaaaafaaaafaaaafaaaafaaaafaaaafaaaafaaaafaaaafaaaafaaaafaaaafaaaafaaaafaaaafaaaafaaaafaaaafaaaafaaaafaaaafaaaafaaaafaaaafaaaafaaaafaaaafaaaafaaaafaaaafaaaafaaaafaaaafaaaafaaaafaaaafaaaafaaaafaaaafaaaafaaaafaaaafaaaafaaaafaaaafaaaafaaaafaaaafaaaafaaaafaaaafaaaafaaaafaaaafaaaafaaaafaaaafaaaafaaaafaaaafaaaafaaaafaaaafaaaafaaaafaaaafaaaafaaaafaaaafaaaafaaaafaaaafaaaafaaaafaaaafaaaafaaaafaaaafaaaafaaaafaaaafaaaafaaaafaaaafaaaafaaaafaaaafaaaafaaaafaaaafaaaafaaaafaaaafaaaafaaaafaaaafaaaafaaaafaaaafaaaafaaaafaaaafaaaafaaaafaaaafaaaafaaaafaaaafaaaafaaaafaaaafaaaafaaaafaaaafaaaafaaaafaaaafaaaafaaaafaaaafaaaafaaaafaaaafaaaafaaaafaaaafaaaafaaaafaaaafaaaafaaaafaaaafaaaafaaaafaaaafaaaafaaaafaaaafaaaafaaaafaaaafaaaafaaaafaaaafaaaafaaaafaaaafaaaafaaaafaaaafaaaafaaaafaaaafaaaafaaaafaaaafaaaafaaaafaaaafaaaafaaaafaaaafaaaafaaaafaaaafaaaafaaaafaaaafaaaafaaaafaaaafaaaafaaaafaaaafaaaafaaaafaaaafaaaafaaaafaaaafaaaafaaaafaaaafaaaafaaaafaaaafaaaafaaaafaaaafaaaafaaaafaaaafaaaafaaaafaaaafaaaafaaaafaaaafaaaafaaaafaaaafaaaafaaaafaaaafaaaafaaaafaaaafaaaafaaaafaaaafaaaafaaaafaaaafaaaafaaaafaaaafaaaafaaaafaaaafaaaafaaaafaaaafaaaafaaaafaaaafaaaafaaaafaaaafaaaafaaaafaaaafaaaafaaaafaaaafaaaafaaaafaaaafaaaafaaaafaaaafaaaafaaaafaaaafaaaafaaaafaaaafaaaafaaaafaaaafaaaafaaaafaaaafaaaafaaaafaaaafaaaafaaaafaaaafaaaafaaaafaaaafaaaafaaaafaaaafaaaafaaaafaaaafaaaafaaaafaaaafaaaafaaaafaaaafaaaafaaaafaaaafaaaafaaaafaaaafaaaafaaaafaaaafaaaafaaaafaaaafaaaafaaaafaaaafaaaafaaaafaaaafaaaafaaaafaaaafaaaafaaaafaaaafaaaafaaaafaaaafaaaafaaaafaaaafaaaafaaaafaaaafaaaafaaaafaaaafaaaafaaaafaaaafaaaafaaaafaaaafaaaafaaaafaaaafaaaafaaaafaaaafaaaafaaaafaaaafaaaafaaaafaaaafaaaafaaaafaaaafaaaafaaaafaaaafaaaafaaaafaaaafaaaafaaaafaaaafaaaafaaaafaaaafaaaafaaaafaaaafaaaafaaaafaaaafaaaafaaaafaaaafaaaafaaaafaaaafaaaafaaaafaaaafaaaafaaaafaaaafaaaafaaaafaaaafaaaafaaaafaaaafaaaafaaaafaaaafaaaafaaaafaaaafaaaafaaaafaaaafaaaafaaaafaaaafaaaafaaaafaaaafaaaafaaaafaaaafaaaafaaaafaaaafaaaafaaaafaaaafaaaafaaaafaaaafaaaafaaaafaaaafaaaafaaaafaaaafaaaafaaaafaaaafaaaafaaaafaaaafaaaafaaaafaaaafaaaafaaaafaaaafaaaafaaaafaaaafaaaafaaaafaaaafaaaafaaaafaaaafaaaafaaaafaaaafaaaafaaaafaaaafaaaafaaaafaaaafaaaafaaaafaaaafaaaafaaaafaaaafaaaafaaaafaaaafaaaafaaaafaaaafaaaafaaaafaaaafaaaafaaaafaaaafaaaafaaaafaaaafaaaafaaaafaaaafaaaafaaaafaaaafaaaafaaaafaaaafaaaafaaaafaaaafaaaafaaaafaaaafaaaafaaaafaaaafaaaafaaaafaaaafaaaafaaaafaaaafaaaafaaaafaaaafaaaafaaaafaaaafaaaafaaaafaaaafaaaafaaaafaaaafaaaafaaaafaaaafaaaafaaaafaaaafaaaafaaaafaaaafaaaafaaaafaaaafaaaafaaaafaaaafaaaafaaaafaaaafaaaafaaaafaaaafaaaafaaaafaaaafaaaafaaaafaaaafaaaafaaaafaaaafaaaafaaaafaaaafaaaafaaaafaaaafaaaafaaaafaaaafaaaafaaaafaaaafaaaafaaaafaaaafaaaafaaaafaaaafaaaafaaaafaaaafaaaafaaaafaaaafaaaafaaaafaaaafaaaafaaaafaaaafaaaafaaaafaaaafaaaafaaaafaaaafaaaafaaaafaaaafaaaafaaaafaaaafaaaafaaaafaaaafaaaafaaaafaaaafaaaafaaaafaaaafaaaafaaaafaaaafaaaafaaaafaaaafaaaafaaaafaaaafaaaafaaaafaaaafaaaafaaaafaaaafaaaafaaaafaaaafaaaafaaaafaaaafaaaafaaaafaaaafaaaafaaaafaaaafaaaafaaaafaaaafaaaafaaaafaaaafaaaafaaaafaaaafaaaafaaaafaaaafaaaafaaaafaaaafaaaafaaaafaaaafaaaafaaaafaaaafaaaafaaaafaaaafaaaafaaaafaaaafaaaafaaaafaaaafaaaafaaaafaaaafaaaafaaaafaaaafaaaafaaaafaaaafaaaafaaaafaaaafaaaafaaaafaaaafaaaafaaaafaaaafaaaafaaaafaaaafaaaafaaaafaaaafaaaafaaaafaaaafaaaafaaaafaaaafaaaafaaaafaaaafaaaafaaaafaaaafaaaafaaaafaaaafaaaafaaaafaaaafaaaafaaaafaaaafaaaafaaaafaaaafaaaafaaaafaaaafaaaafaaaafaaaafaaaafaaaafaaaafaaaafaaaafaaaafaaaafaaaafaaaafaaaafaaaafaaaafaaaafaaaafaaaafaaaafaaaafaaaafaaaafaaaafaaaafaaaafaaaafaaaafaaaafaaaafaaaafaaaafaaaafaaaafaaaafaaaafaaaafaaaafaaaafaaaafaaaafaaaafaaaafaaaafaaaafaaaafaaaafaaaafaaaafaaaafaaaafaaaafaaaafaaaafaaaafaaaafaaaafaaaafaaaafaaaafaaaafaaaafaaaafaaaafaaaafaaaafaaaafaaaafaaaafaaaafaaaafaaaafaaaafaaaafaaaafaaaafaaaafaaaafaaaafaaaafaaaafaaaafaaaafaaaafaaaafaaaafaaaafaaaafaaaafaaaafaaaafaaaafaaaafaaaafaaaafaaaafaaaafaaaafaaaafaaaafaaaafaaaafaaaafaaaafaaaafaaaafaaaafaaaafaaaafaaaafaaaafaaaafaaaafaaaafaaaafaaaafaaaafaaaafaaaafaaaafaaaafaaaafaaaafaaaafaaaafaaaafaaaafaaaafaaaafaaaafaaaafaaaafaaaafaaaafaaaafaaaafaaaafaaaafaaaafaaaafaaaafaaaafaaaafaaaafaaaafaaaafaaaafaaaafaaaafaaaafaaaafaaaafaaaafaaaafaaaafaaaafaaaafaaaafaaaafaaaafaaaafaaaafaaaafaaaafaaaafaaaafaaaafaaaafaaaafaaaafaaaafaaaafaaaafaaaafaaaafaaaafaaaafaaaafaaaafaaaafaaaafaaaafaaaafaaaafaaaafaaaafaaaafaaaafaaaafaaaafaaaafaaaafaaaafaaaafaaaafaaaafaaaafaaaafaaaafaaaafaaaafaaaafaaaafaaaafaaaafaaaafaaaafaaaafaaaafaaaafaaaafaaaafaaaafaaaafaaaafaaaafaaaafaaaafaaaafaaaafaaaafaaaafaaaafaaaafaaaafaaaafaaaafaaaafaaaafaaaafaaaafaaaafaaaafaaaafaaaafaaaafaaaafaaaafaaaafaaaafaaaafaaaafaaaafaaaafaaaafaaaafaaaafaaaafaaaafaaaafaaaafaaaafaaaafaaaafaaaafaaaafaaaafaaaafaaaafaaaafaaaafaaaafaaaafaaaafaaaafaaaafaaaafaaaafaaaafaaaafaaaafaaaafaaaafaaaafaaaafaaaafaaaafaaaafaaaafaaaafaaaafaaaafaaaafaaaafaaaafaaaafaaaafaaaafaaaafaaaafaaaafaaaafaaaafaaaafaaaafaaaafaaaafaaaafaaaafaaaafaaaafaaaafaaaafaaaafaaaafaaaafaaaafaaaafaaaafaaaafaaaafaaaafaaaafaaaafaaaafaaaafaaaafaaaafaaaafaaaafaaaafaaaafaaaafaaaafaaaafaaaafaaaafaaaafaaaafaaaafaaaafaaaafaaaafaaaafaaaafaaaafaaaafaaaafaaaafaaaafaaaafaaaafaaaafaaaafaaaafaaaafaaaafaaaafaaaafaaaafaaaafaaaafaaaafaaaafaaaafaaaafaaaafaaaafaaaafaaaafaaaafaaaafaaaafaaaafaaaafaaaafaaaafaaaafaaaafaaaafaaaafaaaafaaaafaaaafaaaafaaaafaaaafaaaafaaaafaaaafaaaafaaaafaaaafaaaafaaaafaaaafaaaafaaaafaaaafaaaafaaaafaaaafaaaafaaaafaaaafaaaafaaaafaaaafaaaafaaaafaaaafaaaafaaaafaaaafaaaafaaaafaaaafaaaafaaaafaaaafaaaafaaaafaaaafaaaafaaaafaaaafaaaafaaaafaaaafaaaafaaaafaaaafaaaafaaaafaaaafaaaafaaaafaaaafaaaafaaaafaaaafaaaafaaaafaaaafaaaafaaaafaaaafaaaafaaaafaaaafaaaafaaaafaaaafaaaafaaaafaaaafaaaafaaaafaaaafaaaafaaaafaaaafaaaafaaaafaaaafaaaafaaaafaaaafaaaafaaaafaaaafaaaafaaaafaaaafaaaafaaaafaaaafaaaafaaaafaaaafaaaafaaaafaaaafaaaafaaaafaaaafaaaafaaaafaaaafaaaafaaaafaaaafaaaafaaaafaaaafaaaafaaaafaaaafaaaafaaaafaaaafaaaafaaaafaaaafaaaafaaaafaaaafaaaafaaaafaaaafaaaafaaaafaaaafaaaafaaaafaaaafaaaafaaaafaaaafaaaafaaaafaaaafaaaafaaaafaaaafaaaafaaaafaaaafaaaafaaaafaaaafaaaafaaaafaaaafaaaafaaaafaaaafaaaafaaaafaaaafaaaafaaaafaaaafaaaafaaaafaaaafaaaafaaaafaaaafaaaafaaaafaaaafaaaafaaaafaaaafaaaafaaaafaaaafaaaafaaaafaaaafaaaafaaaafaaaafaaaafaaaafaaaafaaaafaaaafaaaafaaaafaaaafaaaafaaaafaaaafaaaafaaaafaaaafaaaafaaaafaaaafaaaafaaaafaaaafaaaafaaaafaaaafaaaafaaaafaaaafaaaafaaaafaaaafaaaafaaaafaaaafaaaafaaaafaaaafaaaafaaaafaaaafaaaafaaaafaaaafaaaafaaaafaaaafaaaafaaaafaaaafaaaafaaaafaaaafaaaafaaaafaaaafaaaafaaaafaaaafaaaafaaaafaaaafaaaafaaaafaaaafaaaafaaaafaaaafaaaafaaaafaaaafaaaafaaaafaaaafaaaafaaaafaaaafaaaafaaaafaaaafaaaafaaaafaaaafaaaafaaaafaaaafaaaafaaaafaaaafaaaafaaaafaaaafaaaafaaaafaaaafaaaafaaaafaaaafaaaafaaaafaaaafaaaafaaaafaaaafaaaafaaaafaaaafaaaafaaaafaaaafaaaafaaaafaaaafaaaafaaaafaaaafaaaafaaaafaaaafaaaafaaaafaaaafaaaafaaaafaaaafaaaafaaaafaaaafaaaafaaaafaaaafaaaafaaaafaaaafaaaafaaaafaaaafaaaafaaaafaaaafaaaafaaaafaaaafaaaafaaaafaaaafaaaafaaaafaaaafaaaafaaaafaaaafaaaafaaaafaaaafaaaafaaaafaaaafaaaafaaaafaaaafaaaafaaaafaaaafaaaafaaaafaaaafaaaafaaaafaaaafaaaafaaaafaaaafaaaafaaaafaaaafaaaafaaaafaaaafaaaafaaaafaaaafaaaafaaaafaaaafaaaafaaaafaaaafaaaafaaaafaaaafaaaafaaaafaaaafaaaafaaaafaaaafaaaafaaaafaaaafaaaafaaaafaaaafaaaafaaaafaaaafaaaafaaaafaaaafaaaafaaaafaaaafaaaafaaaafaaaafaaaafaaaafaaaafaaaafaaaafaaaafaaaafaaaafaaaafaaaafaaaafaaaafaaaafaaaafaaaafaaaafaaaafaaaafaaaafaaaafaaaafaaaafaaaafaaaafaaaafaaaafaaaafaaaafaaaafaaaafaaaafaaaafaaaafaaaafaaaafaaaafaaaafaaaafaaaafaaaafaaaafaaaafaaaafaaaafaaaafaaaafaaaafaaaafaaaafaaaafaaaafaaaafaaaafaaaafaaaafaaaafaaaafaaaafaaaafaaaafaaaafaaaafaaaafaaaafaaaafaaaafaaaafaaaafaaaafaaaafaaaafaaaafaaaafaaaafaaaafaaaafaaaafaaaafaaaafaaaafaaaafaaaafaaaafaaaafaaaafaaaafaaaafaaaafaaaafaaaafaaaafaaaafaaaafaaaafaaaafaaaafaaaafaaaafaaaafaaaafaaaafaaaafaaaafaaaafaaaafaaaafaaaafaaaafaaaafaaaafaaaafaaaafaaaafaaaafaaaafaaaafaaaafaaaafaaaafaaaafaaaafaaaafaaaafaaaafaaaafaaaafaaaafaaaafaaaafaaaafaaaafaaaafaaaafaaaafaaaafaaaafaaaafaaaafaaaafaaaafaaaafaaaafaaaafaaaafaaaafaaaafaaaafaaaafaaaafaaaafaaaafaaaafaaaafaaaafaaaafaaaafaaaafaaaafaaaafaaaafaaaafaaaafaaaafaaaafaaaafaaaafaaaafaaaafaaaafaaaafaaaafaaaafaaaafaaaafaaaafaaaafaaaafaaaafaaaafaaaafaaaafaaaafaaaafaaaafaaaafaaaafaaaafaaaafaaaafaaaafaaaafaaaafaaaafaaaafaaaafaaaafaaaafaaaafaaaafaaaafaaaafaaaafaaaafaaaafaaaafaaaafaaaafaaaafaaaafaaaafaaaafaaaafaaaafaaaafaaaafaaaafaaaafaaaafaaaafaaaafaaaafaaaafaaaafaaaafaaaafaaaafaaaafaaaafaaaafaaaafaaaafaaaafaaaafaaaafaaaafaaaafaaaafaaaafaaaafaaaafaaaafaaaafaaaafaaaafaaaafaaaafaaaafaaaafaaaafaaaafaaaafaaaafaaaafaaaafaaaafaaaafaaaafaaaafaaaafaaaafaaaafaaaafaaaafaaaafaaaafaaaafaaaafaaaafaaaafaaaafaaaafaaaafaaaafaaaafaaaafaaaafaaaafaaaafaaaafaaaafaaaafaaaafaaaafaaaafaaaafaaaafaaaafaaaafaaaafaaaafaaaafaaaafaaaafaaaafaaaafaaaafaaaafaaaafaaaafaaaafaaaafaaaafaaaafaaaafaaaafaaaafaaaafaaaafaaaafaaaafaaaafaaaafaaaafaaaafaaaafaaaafaaaafaaaafaaaafaaaafaaaafaaaafaaaafaaaafaaaafaaaafaaaafaaaafaaaafaaaafaaaafaaaafaaaafaaaafaaaafaaaafaaaafaaaafaaaafaaaafaaaafaaaafaaaafaaaafaaaafaaaafaaaafaaaafaaaafaaaafaaaafaaaafaaaafaaaafaaaafaaaafaaaafaaaafaaaafaaaafaaaafaaaafaaaafaaaafaaaafaaaafaaaafaaaafaaaafaaaafaaaafaaaafaaaafaaaafaaaafaaaafaaaafaaaafaaaafaaaafaaaafaaaafaaaafaaaafaaaafaaaafaaaafaaaafaaaafaaaafaaaafaaaafaaaafaaaafaaaafaaaafaaaafaaaafaaaafaaaafaaaafaaaafaaaafaaaafaaaafaaaafaaaafaaaafaaaafaaaafaaaafaaaafaaaafaaaafaaaafaaaafaaaafaaaafaaaafaaaafaaaafaaaafaaaafaaaafaaaafaaaafaaaafaaaafaaaafaaaafaaaafaaaafaaaafaaaafaaaafaaaafaaaafaaaafaaaafaaaafaaaafaaaafaaaafaaaafaaaafaaaafaaaafaaaafaaaafaaaafaaaafaaaafaaaafaaaafaaaafaaaafaaaafaaaafaaaafaaaafaaaafaaaafaaaafaaaafaaaafaaaafaaaafaaaafaaaafaaaafaaaafaaaafaaaafaaaafaaaafaaaafaaaafaaaafaaaafaaaafaaaafaaaafaaaafaaaafaaaafaaaafaaaafaaaafaaaafaaaafaaaafaaaafaaaafaaaafaaaafaaaafaaaafaaaafaaaafaaaafaaaafaaaafaaaafaaaafaaaafaaaafaaaafaaaafaaaafaaaafaaaafaaaafaaaafaaaafaaaafaaaafaaaafaaaafaaaafaaaafaaaafaaaafaaaafaaaafaaaafaaaafaaaafaaaafaaaafaaaafaaaafaaaafaaaafaaaafaaaafaaaafaaaafaaaafaaaafaaaafaaaafaaaafaaaafaaaafaaaafaaaafaaaafaaaafaaaafaaaafaaaafaaaafaaaafaaaafaaaafaaaafaaaafaaaafaaaafaaaafaaaafaaaafaaaafaaaafaaaafaaaafaaaafaaaafaaaafaaaafaaaafaaaafaaaafaaaafaaaafaaaafaaaafaaaafaaaafaaaafaaaafaaaafaaaafaaaafaaaafaaaafaaaafaaaafaaaafaaaafaaaafaaaafaaaafaaaafaaaafaaaafaaaafaaaafaaaafaaaafaaaafaaaafaaaafaaaafaaaafaaaafaaaafaaaafaaaafaaaafaaaafaaaafaaaafaaaafaaaafaaaafaaaafaaaafaaaafaaaafaaaafaaaafaaaafaaaafaaaafaaaafaaaafaaaafaaaafaaaafaaaafaaaafaaaafaaaafaaaafaaaafaaaafaaaafaaaafaaaafaaaafaaaafaaaafaaaafaaaafaaaafaaaafaaaafaaaafaaaafaaaafaaaafaaaafaaaafaaaafaaaafaaaafaaaafaaaafaaaafaaaafaaaafaaaafaaaafaaaafaaaafaaaafaaaafaaaafaaaafaaaafaaaafaaaafaaaafaaaafaaaafaaaafaaaafaaaafaaaafaaaafaaaafaaaafaaaafaaaafaaaafaaaafaaaafaaaafaaaafaaaafaaaafaaaafaaaafaaaafaaaafaaaafaaaafaaaafaaaafaaaafaaaafaaaafaaaafaaaafaaaafaaaafaaaafaaaafaaaafaaaafaaaafaaaafaaaafaaaafaaaafaaaafaaaafaaaafaaaafaaaafaaaafaaaafaaaafaaaafaaaafaaaafaaaafaaaafaaaafaaaafaaaafaaaafaaaafaaaafaaaafaaaafaaaafaaaafaaaafaaaafaaaafaaaafaaaafaaaafaaaafaaaafaaaafaaaafaaaafaaaafaaaafaaaafaaaafaaaafaaaafaaaafaaaafaaaafaaaafaaaafaaaafaaaafaaaafaaaafaaaafaaaafaaaafaaaafaaaafaaaafaaaafaaaafaaaafaaaafaaaafaaaafaaaafaaaafaaaafaaaafaaaafaaaafaaaafaaaafaaaafaaaafaaaafaaaafaaaafaaaafaaaafaaaafaaaafaaaafaaaafaaaafaaaafaaaafaaaafaaaafaaaafaaaafaaaafaaaafaaaafaaaafaaaafaaaafaaaafaaaafaaaafaaaafaaaafaaaafaaaafaaaafaaaafaaaafaaaafaaaafaaaafaaaafaaaafaaaafaaaafaaaafaaaafaaaafaaaafaaaafaaaafaaaafaaaafaaaafaaaafaaaafaaaafaaaafaaaafaaaafaaaafaaaafaaaafaaaafaaaafaaaafaaaafaaaafaaaafaaaafaaaafaaaafaaaafaaaafaaaafaaaafaaaafaaaafaaaafaaaafaaaafaaaafaaaafaaaafaaaafaaaafaaaafaaaafaaaafaaaafaaaafaaaafaaaafaaaafaaaafaaaafaaaafaaaafaaaafaaaafaaaafaaaafaaaafaaaafaaaafaaaafaaaafaaaafaaaafaaaafaaaafaaaafaaaafaaaafaaaafaaaafaaaafaaaafaaaafaaaafaaaafaaaafaaaafaaaafaaaafaaaafaaaafaaaafaaaafaaaafaaaafaaaafaaaafaaaafaaaafaaaafaaaafaaaafaaaafaaaafaaaafaaaafaaaafaaaafaaaafaaaafaaaafaaaafaaaafaaaafaaaafaaaafaaaafaaaafaaaafaaaafaaaafaaaafaaaafaaaafaaaafaaaafaaaafaaaafaaaafaaaafaaaafaaaafaaaafaaaafaaaafaaaafaaaafaaaafaaaafaaaafaaaafaaaafaaaafaaaafaaaafaaaafaaaafaaaafaaaafaaaafaaaafaaaafaaaafaaaafaaaafaaaafaaaafaaaafaaaafaaaafaaaafaaaafaaaafaaaafaaaafaaaafaaaafaaaafaaaafaaaafaaaafaaaafaaaafaaaafaaaafaaaafaaaafaaaafaaaafaaaafaaaafaaaafaaaafaaaafaaaafaaaafaaaafaaaafaaaafaaaafaaaafaaaafaaaafaaaafaaaafaaaafaaaafaaaafaaaafaaaafaaaafaaaafaaaafaaaafaaaafaaaafaaaafaaaafaaaafaaaafaaaafaaaafaaaafaaaafaaaafaaaafaaaafaaaafaaaafaaaafaaaafaaaafaaaafaaaafaaaafaaaafaaaafaaaafaaaafaaaafaaaafaaaafaaaafaaaafaaaafaaaafaaaafaaaafaaaafaaaafaaaafaaaafaaaafaaaafaaaafaaaafaaaafaaaafaaaafaaaafaaaafaaaafaaaafaaaafaaaafaaaafaaaafaaaafaaaafaaaafaaaafaaaafaaaafaaaafaaaafaaaafaaaafaaaafaaaafaaaafaaaafaaaafaaaafaaaafaaaafaaaafaaaafaaaafaaaafaaaafaaaafaaaafaaaafaaaafaaaafaaaafaaaafaaaafaaaafaaaafaaaafaaaafaaaafaaaafaaaafaaaafaaaafaaaafaaaafaaaafaaaafaaaafaaaafaaaafaaaafaaaafaaaafaaaafaaaafaaaafaaaafaaaafaaaafaaaafaaaafaaaafaaaafaaaafaaaafaaaafaaaafaaaafaaaafaaaafaaaafaaaafaaaafaaaafaaaafaaaafaaaafaaaafaaaafaaaafaaaafaaaafaaaafaaaafaaaafaaaafaaaafaaaafaaaafaaaafaaaafaaaafaaaafaaaafaaaafaaaafaaaafaaaafaaaafaaaafaaaafaaaafaaaafaaaafaaaafaaaafaaaafaaaafaaaafaaaafaaaafaaaafaaaafaaaafaaaafaaaafaaaafaaaafaaaafaaaafaaaafaaaafaaaafaaaafaaaafaaaafaaaafaaaafaaaafaaaafaaaafaaaafaaaafaaaafaaaafaaaafaaaafaaaafaaaafaaaafaaaafaaaafaaaafaaaafaaaafaaaafaaaafaaaafaaaafaaaafaaaafaaaafaaaafaaaafaaaafaaaafaaaafaaaafaaaafaaaafaaaafaaaafaaaafaaaafaaaafaaaafaaaafaaaafaaaafaaaafaaaafaaaafaaaafaaaafaaaafaaaafaaaafaaaafaaaafaaaafaaaafaaaafaaaafaaaafaaaafaaaafaaaafaaaafaaaafaaaafaaaafaaaafaaaafaaaafaaaafaaaafaaaafaaaafaaaafaaaafaaaafaaaafaaaafaaaafaaaafaaaafaaaafaaaafaaaafaaaafaaaafaaaafaaaafaaaafaaaafaaaafaaaafaaaafaaaafaaaafaaaafaaaafaaaafaaaafaaaafaaaafaaaafaaaafaaaafaaaafaaaafaaaafaaaafaaaafaaaafaaaafaaaafaaaafaaaafaaaafaaaafaaaafaaaafaaaafaaaafaaaafaaaafaaaafaaaafaaaafaaaafaaaafaaaafaaaafaaaafaaaafaaaafaaaafaaaafaaaafaaaafaaaafaaaafaaaafaaaafaaaafaaaafaaaafaaaafaaaafaaaafaaaafaaaafaaaafaaaafaaaafaaaafaaaafaaaafaaaafaaaafaaaafaaaafaaaafaaaafaaaafaaaafaaaafaaaafaaaafaaaafaaaafaaaafaaaafaaaafaaaafaaaafaaaafaaaafaaaafaaaafaaaafaaaafaaaafaaaafaaaafaaaafaaaafaaaafaaaafaaaafaaaafaaaafaaaafaaaafaaaafaaaafaaaafaaaafaaaafaaaafaaaafaaaafaaaafaaaafaaaafaaaafaaaafaaaafaaaafaaaafaaaafaaaafaaaafaaaafaaaafaaaafaaaafaaaafaaaafaaaafaaaafaaaafaaaafaaaafaaaafaaaafaaaafaaaafaaaafaaaafaaaafaaaafaaaafaaaafaaaafaaaafaaaafaaaafaaaafaaaafaaaafaaaafaaaafaaaafaaaafaaaafaaaafaaaafaaaafaaaafaaaafaaaafaaaafaaaafaaaafaaaafaaaafaaaafaaaafaaaafaaaafaaaafaaaafaaaafaaaafaaaafaaaafaaaafaaaafaaaafaaaafaaaafaaaafaaaafaaaafaaaafaaaafaaaafaaaafaaaafaaaafaaaafaaaafaaaafaaaafaaaafaaaafaaaafaaaafaaaafaaaafaaaafaaaafaaaafaaaafaaaafaaaafaaaafaaaafaaaafaaaafaaaafaaaafaaaafaaaafaaaafaaaafaaaafaaaafaaaafaaaafaaaafaaaafaaaafaaaafaaaafaaaafaaaafaaaafaaaafaaaafaaaafaaaafaaaafaaaafaaaafaaaafaaaafaaaafaaaafaaaafaaaafaaaafaaaafaaaafaaaafaaaafaaaafaaaafaaaafaaaafaaaafaaaafaaaafaaaafaaaafaaaafaaaafaaaafaaaafaaaafaaaafaaaafaaaafaaaafaaaafaaaafaaaafaaaafaaaafaaaafaaaafaaaafaaaafaaaafaaaafaaaafaaaafaaaafaaaafaaaafaaaafaaaafaaaafaaaafaaaafaaaafaaaafaaaafaaaafaaaafaaaafaaaafaaaafaaaafaaaafaaaafaaaafaaaafaaaafaaaafaaaafaaaafaaaafaaaafaaaafaaaafaaaafaaaafaaaafaaaafaaaafaaaafaaaafaaaafaaaafaaaafaaaafaaaafaaaafaaaafaaaafaaaafaaaafaaaafaaaafaaaafaaaafaaaafaaaafaaaafaaaafaaaafaaaafaaaafaaaafaaaafaaaafaaaafaaaafaaaafaaaafaaaafaaaafaaaafaaaafaaaafaaaafaaaafaaaafaaaafaaaafaaaafaaaafaaaafaaaafaaaafaaaafaaaafaaaafaaaafaaaafaaaafaaaafaaaafaaaafaaaafaaaafaaaafaaaafaaaafaaaafaaaafaaaafaaaafaaaafaaaafaaaafaaaafaaaafaaaafaaaafaaaafaaaafaaaafaaaafaaaafaaaafaaaafaaaafaaaafaaaafaaaafaaaafaaaafaaaafaaaafaaaafaaaafaaaafaaaafaaaafaaaafaaaafaaaafaaaafaaaafaaaafaaaafaaaafaaaafaaaafaaaafaaaafaaaafaaaafaaaafaaaafaaaafaaaafaaaafaaaafaaaafaaaafaaaafaaaafaaaafaaaafaaaafaaaafaaaafaaaafaaaafaaaafaaaafaaaafaaaafaaaafaaaafaaaafaaaafaaaafaaaafaaaafaaaafaaaafaaaafaaaafaaaafaaaafaaaafaaaafaaaafaaaafaaaafaaaafaaaafaaaafaaaafaaaafaaaafaaaafaaaafaaaafaaaafaaaafaaaafaaaafaaaafaaaafaaaafaaaafaaaafaaaafaaaafaaaafaaaafaaaafaaaafaaaafaaaafaaaafaaaafaaaafaaaafaaaafaaaafaaaafaaaafaaaafaaaafaaaafaaaafaaaafaaaafaaaafaaaafaaaafaaaafaaaafaaaafaaaafaaaafaaaafaaaafaaaafaaaafaaaafaaaafaaaafaaaafaaaafaaaafaaaafaaaafaaaafaaaafaaaafaaaafaaaafaaaafaaaafaaaafaaaafaaaafaaaafaaaafaaaafaaaafaaaafaaaafaaaafaaaafaaaafaaaafaaaafaaaafaaaafaaaafaaaafaaaafaaaafaaaafaaaafaaaafaaaafaaaafaaaafaaaafaaaafaaaafaaaafaaaafaaaafaaaafaaaafaaaafaaaafaaaafaaaafaaaafaaaafaaaafaaaafaaaafaaaafaaaafaaaafaaaafaaaafaaaafaaaafaaaafaaaafaaaafaaaafaaaafaaaafaaaafaaaafaaaafaaaafaaaafaaaafaaaafaaaafaaaafaaaafaaaafaaaafaaaafaaaafaaaafaaaafaaaafaaaafaaaafaaaafaaaafaaaafaaaafaaaafaaaafaaaafaaaafaaaafaaaafaaaafaaaafaaaafaaaafaaaafaaaafaaaafaaaafaaaafaaaafaaaafaaaafaaaafaaaafaaaafaaaafaaaafaaaafaaaafaaaafaaaafaaaafaaaafaaaafaaaafaaaafaaaafaaaafaaaafaaaafaaaafaaaafaaaafaaaafaaaafaaaafaaaafaaaafaaaafaaaafaaaafaaaafaaaafaaaafaaaafaaaafaaaafaaaafaaaafaaaafaaaafaaaafaaaafaaaafaaaafaaaafaaaafaaaafaaaafaaaafaaaafaaaafaaaafaaaafaaaafaaaafaaaafaaaafaaaafaaaafaaaafaaaafaaaafaaaafaaaafaaaafaaaafaaaafaaaafaaaafaaaafaaaafaaaafaaaafaaaafaaaafaaaafaaaafaaaafaaaafaaaafaaaafaaaafaaaafaaaafaaaafaaaafaaaafaaaafaaaafaaaafaaaafaaaafaaaafaaaafaaaafaaaafaaaafaaaafaaaafaaaafaaaafaaaafaaaafaaaafaaaafaaaafaaaafaaaafaaaafaaaafaaaafaaaafaaaafaaaafaaaafaaaafaaaafaaaafaaaafaaaafaaaafaaaafaaaafaaaafaaaafaaaafaaaafaaaafaaaafaaaafaaaafaaaafaaaafaaaafaaaafaaaafaaaafaaaafaaaafaaaafaaaafaaaafaaaafaaaafaaaafaaaafaaaafaaaafaaaafaaaafaaaafaaaafaaaafaaaafaaaafaaaafaaaafaaaafaaaafaaaafaaaafaaaafaaaafaaaafaaaafaaaafaaaafaaaafaaaafaaaafaaaafaaaafaaaafaaaafaaaafaaaafaaaafaaaafaaaafaaaafaaaafaaaafaaaafaaaafaaaafaaaafaaaafaaaafaaaafaaaafaaaafaaaafaaaafaaaafaaaafaaaafaaaafaaaafaaaafaaaafaaaafaaaafaaaafaaaafaaaafaaaafaaaafaaaafaaaafaaaafaaaafaaaafaaaafaaaafaaaafaaaafaaaafaaaafaaaafaaaafaaaafaaaafaaaafaaaafaaaafaaaafaaaafaaaafaaaafaaaafaaaafaaaafaaaafaaaafaaaafaaaafaaaafaaaafaaaafaaaafaaaafaaaafaaaafaaaafaaaafaaaafaaaafaaaafaaaafaaaafaaaafaaaafaaaafaaaafaaaafaaaafaaaafaaaafaaaafaaaafaaaafaaaafaaaafaaaafaaaafaaaafaaaafaaaafaaaafaaaafaaaafaaaafaaaafaaaafaaaafaaaafaaaafaaaafaaaafaaaafaaaafaaaafaaaafaaaafaaaafaaaafaaaafaaaafaaaafaaaafaaaafaaaafaaaafaaaafaaaafaaaafaaaafaaaafaaaafaaaafaaaafaaaafaaaafaaaafaaaafaaaafaaaafaaaafaaaafaaaafaaaafaaaafaaaafaaaafaaaafaaaafaaaafaaaafaaaafaaaafaaaafaaaafaaaafaaaafaaaafaaaafaaaafaaaafaaaafaaaafaaaafaaaafaaaafaaaafaaaafaaaafaaaafaaaafaaaafaaaafaaaafaaaafaaaafaaaafaaaafaaaafaaaafaaaafaaaafaaaafaaaafaaaafaaaafaaaafaaaafaaaafaaaafaaaafaaaafaaaafaaaafaaaafaaaafaaaafaaaafaaaafaaaafaaaafaaaafaaaafaaaafaaaafaaaafaaaafaaaafaaaafaaaafaaaafaaaafaaaafaaaafaaaafaaaafaaaafaaaafaaaafaaaafaaaafaaaafaaaafaaaafaaaafaaaafaaaafaaaafaaaafaaaafaaaafaaaafaaaafaaaafaaaafaaaafaaaafaaaafaaaafaaaafaaaafaaaafaaaafaaaafaaaafaaaafaaaafaaaafaaaafaaaafaaaafaaaafaaaafaaaafaaaafaaaafaaaafaaaafaaaafaaaafaaaafaaaafaaaafaaaafaaaafaaaafaaaafaaaafaaaafaaaafaaaafaaaafaaaafaaaafaaaafaaaafaaaafaaaafaaaafaaaafaaaafaaaafaaaafaaaafaaaafaaaafaaaafaaaafaaaafaaaafaaaafaaaafaaaafaaaafaaaafaaaafaaaafaaaafaaaafaaaafaaaafaaaafaaaafaaaafaaaafaaaafaaaafaaaafaaaafaaaafaaaafaaaafaaaafaaaafaaaafaaaafaaaafaaaafaaaafaaaafaaaafaaaafaaaafaaaafaaaafaaaafaaaafaaaafaaaafaaaafaaaafaaaafaaaafaaaafaaaafaaaafaaaafaaaafaaaafaaaafaaaafaaaafaaaafaaaafaaaafaaaafaaaafaaaafaaaafaaaafaaaafaaaafaaaafaaaafaaaafaaaafaaaafaaaafaaaafaaaafaaaafaaaafaaaafaaaafaaaafaaaafaaaafaaaafaaaafaaaafaaaafaaaafaaaafaaaafaaaafaaaafaaaafaaaafaaaafaaaafaaaafaaaafaaaafaaaafaaaafaaaafaaaafaaaafaaaafaaaafaaaafaaaafaaaafaaaafaaaafaaaafaaaafaaaafaaaafaaaafaaaafaaaafaaaafaaaafaaaafaaaafaaaafaaaafaaaafaaaafaaaafaaaafaaaafaaaafaaaafaaaafaaaafaaaafaaaafaaaafaaaafaaaafaaaafaaaafaaaafaaaafaaaafaaaafaaaafaaaafaaaafaaaafaaaafaaaafaaaafaaaafaaaafaaaafaaaafaaaafaaaafaaaafaaaafaaaafaaaafaaaafaaaafaaaafaaaafaaaafaaaafaaaafaaaafaaaafaaaafaaaafaaaafaaaafaaaafaaaafaaaafaaaafaaaafaaaafaaaafaaaafaaaafaaaafaaaafaaaafaaaafaaaafaaaafaaaafaaaafaaaafaaaafaaaafaaaafaaaafaaaafaaaafaaaafaaaafaaaafaaaafaaaafaaaafaaaafaaaafaaaafaaaafaaaafaaaafaaaafaaaafaaaafaaaafaaaafaaaafaaaafaaaafaaaafaaaafaaaafaaaafaaaafaaaafaaaafaaaafaaaafaaaafaaaafaaaafaaaafaaaafaaaafaaaafaaaafaaaafaaaafaaaafaaaafaaaafaaaafaaaafaaaafaaaafaaaafaaaafaaaafaaaafaaaafaaaafaaaafaaaafaaaafaaaafaaaafaaaafaaaafaaaafaaaafaaaafaaaafaaaafaaaafaaaafaaaafaaaafaaaafaaaafaaaafaaaafaaaafaaaafaaaafaaaafaaaafaaaafaaaafaaaafaaaafaaaafaaaafaaaafaaaafaaaafaaaafaaaafaaaafaaaafaaaafaaaafaaaafaaaafaaaafaaaafaaaafaaaafaaaafaaaafaaaafaaaafaaaafaaaafaaaafaaaafaaaafaaaafaaaafaaaafaaaafaaaafaaaafaaaafaaaafaaaafaaaafaaaafaaaafaaaafaaaafaaaafaaaafaaaafaaaafaaaafaaaafaaaafaaaafaaaafaaaafaaaafaaaafaaaafaaaafaaaafaaaafaaaafaaaafaaaafaaaafaaaafaaaafaaaafaaaafaaaafaaaafaaaafaaaafaaaafaaaafaaaafaaaafaaaafaaaafaaaafaaaafaaaafaaaafaaaafaaaafaaaafaaaafaaaafaaaafaaaafaaaafaaaafaaaafaaaafaaaafaaaafaaaafaaaafaaaafaaaafaaaafaaaafaaaafaaaafaaaafaaaafaaaafaaaafaaaafaaaafaaaafaaaafaaaafaaaafaaaafaaaafaaaafaaaafaaaafaaaafaaaafaaaafaaaafaaaafaaaafaaaafaaaafaaaafaaaafaaaafaaaafaaaafaaaafaaaafaaaafaaaafaaaafaaaafaaaafaaaafaaaafaaaafaaaafaaaafaaaafaaaafaaaafaaaafaaaafaaaafaaaafaaaafaaaafaaaafaaaafaaaafaaaafaaaafaaaafaaaafaaaafaaaafaaaafaaaafaaaafaaaafaaaafaaaafaaaafaaaafaaaafaaaafaaaafaaaafaaaafaaaafaaaafaaaafaaaafaaaafaaaafaaaafaaaafaaaafaaaafaaaafaaaafaaaafaaaafaaaafaaaafaaaafaaaafaaaafaaaafaaaafaaaafaaaafaaaafaaaafaaaafaaaafaaaafaaaafaaaafaaaafaaaafaaaafaaaafaaaafaaaafaaaafaaaafaaaafaaaafaaaafaaaafaaaafaaaafaaaafaaaafaaaafaaaafaaaafaaaafaaaafaaaafaaaafaaaafaaaafaaaafaaaafaaaafaaaafaaaafaaaafaaaafaaaafaaaafaaaafaaaafaaaafaaaafaaaafaaaafaaaafaaaafaaaafaaaafaaaafaaaafaaaafaaaafaaaafaaaafaaaafaaaafaaaafaaaafaaaafaaaafaaaafaaaafaaaafaaaafaaaafaaaafaaaafaaaafaaaafaaaafaaaafaaaafaaaafaaaafaaaafaaaafaaaafaaaafaaaafaaaafaaaafaaaafaaaafaaaafaaaafaaaafaaaafaaaafaaaafaaaafaaaafaaaafaaaafaaaafaaaafaaaafaaaafaaaafaaaafaaaafaaaafaaaafaaaafaaaafaaaafaaaafaaaafaaaafaaaafaaaafaaaafaaaafaaaafaaaafaaaafaaaafaaaafaaaafaaaafaaaafaaaafaaaafaaaafaaaafaaaafaaaafaaaafaaaafaaaafaaaafaaaafaaaafaaaafaaaafaaaafaaaafaaaafaaaafaaaafaaaafaaaafaaaafaaaafaaaafaaaafaaaafaaaafaaaafaaaafaaaafaaaafaaaafaaaafaaaafaaaafaaaafaaaafaaaafaaaafaaaafaaaafaaaafaaaafaaaafaaaafaaaafaaaafaaaafaaaafaaaafaaaafaaaafaaaafaaaafaaaafaaaafaaaafaaaafaaaafaaaafaaaafaaaafaaaafaaaafaaaafaaaafaaaafaaaafaaaafaaaafaaaafaaaafaaaafaaaafaaaafaaaafaaaafaaaafaaaafaaaafaaaafaaaafaaaafaaaafaaaafaaaafaaaafaaaafaaaafaaaafaaaafaaaafaaaafaaaafaaaafaaaafaaaafaaaafaaaafaaaafaaaafaaaafaaaafaaaafaaaafaaaafaaaafaaaafaaaafaaaafaaaafaaaafaaaafaaaafaaaafaaaafaaaafaaaafaaaafaaaafaaaafaaaafaaaafaaaafaaaafaaaafaaaafaaaafaaaafaaaafaaaafaaaafaaaafaaaafaaaafaaaafaaaafaaaafaaaafaaaafaaaafaaaafaaaafaaaafaaaafaaaafaaaafaaaafaaaafaaaafaaaafaaaafaaaafaaaafaaaafaaaafaaaafaaaafaaaafaaaafaaaafaaaafaaaafaaaafaaaafaaaafaaaafaaaafaaaafaaaafaaaafaaaafaaaafaaaafaaaafaaaafaaaafaaaafaaaafaaaafaaaafaaaafaaaafaaaafaaaafaaaafaaaafaaaafaaaafaaaafaaaafaaaafaaaafaaaafaaaafaaaafaaaafaaaafaaaafaaaafaaaafaaaafaaaafaaaafaaaafaaaafaaaafaaaafaaaafaaaafaaaafaaaafaaaafaaaafaaaafaaaafaaaafaaaafaaaafaaaafaaaafaaaafaaaafaaaafaaaafaaaafaaaafaaaafaaaafaaaafaaaafaaaafaaaafaaaafaaaafaaaafaaaafaaaafaaaafaaaafaaaafaaaafaaaafaaaafaaaafaaaafaaaafaaaafaaaafaaaafaaaafaaaafaaaafaaaafaaaafaaaafaaaafaaaafaaaafaaaafaaaafaaaafaaaafaaaafaaaafaaaafaaaafaaaafaaaafaaaafaaaafaaaafaaaafaaaafaaaafaaaafaaaafaaaafaaaafaaaafaaaafaaaafaaaafaaaafaaaafaaaafaaaafaaaafaaaafaaaafaaaafaaaafaaaafaaaafaaaafaaaafaaaafaaaafaaaafaaaafaaaafaaaafaaaafaaaafaaaafaaaafaaaafaaaafaaaafaaaafaaaafaaaafaaaafaaaafaaaafaaaafaaaafaaaafaaaafaaaafaaaafaaaafaaaafaaaafaaaafaaaafaaaafaaaafaaaafaaaafaaaafaaaafaaaafaaaafaaaafaaaafaaaafaaaafaaaafaaaafaaaafaaaafaaaafaaaafaaaafaaaafaaaafaaaafaaaafaaaafaaaafaaaafaaaafaaaafaaaafaaaafaaaafaaaafaaaafaaaafaaaafaaaafaaaafaaaafaaaafaaaafaaaafaaaafaaaafaaaafaaaafaaaafaaaafaaaafaaaafaaaafaaaafaaaafaaaafaaaafaaaafaaaafaaaafaaaafaaaafaaaafaaaafaaaafaaaafaaaafaaaafaaaafaaaafaaaafaaaafaaaafaaaafaaaafaaaafaaaafaaaafaaaafaaaafaaaafaaaafaaaafaaaafaaaafaaaafaaaafaaaafaaaafaaaafaaaafaaaafaaaafaaaafaaaafaaaafaaaafaaaafaaaafaaaafaaaafaaaafaaaafaaaafaaaafaaaafaaaafaaaafaaaafaaaafaaaafaaaafaaaafaaaafaaaafaaaafaaaafaaaafaaaafaaaafaaaafaaaafaaaafaaaafaaaafaaaafaaaafaaaafaaaafaaaafaaaafaaaafaaaafaaaafaaaafaaaafaaaafaaaafaaaafaaaafaaaafaaaafaaaafaaaafaaaafaaaafaaaafaaaafaaaafaaaafaaaafaaaafaaaafaaaafaaaafaaaafaaaafaaaafaaaafaaaafaaaafaaaafaaaafaaaafaaaafaaaafaaaafaaaafaaaafaaaafaaaafaaaafaaaafaaaafaaaafaaaafaaaafaaaafaaaafaaaafaaaafaaaafaaaafaaaafaaaafaaaafaaaafaaaafaaaafaaaafaaaafaaaafaaaafaaaafaaaafaaaafaaaafaaaafaaaafaaaafaaaafaaaafaaaafaaaafaaaafaaaafaaaafaaaafaaaafaaaafaaaafaaaafaaaafaaaafaaaafaaaafaaaafaaaafaaaafaaaafaaaafaaaafaaaafaaaafaaaafaaaafaaaafaaaafaaaafaaaafaaaafaaaafaaaafaaaafaaaafaaaafaaaafaaaafaaaafaaaafaaaafaaaafaaaafaaaafaaaafaaaafaaaafaaaafaaaafaaaafaaaafaaaafaaaafaaaafaaaafaaaafaaaafaaaafaaaafaaaafaaaafaaaafaaaafaaaafaaaafaaaafaaaafaaaafaaaafaaaafaaaafaaaafaaaafaaaafaaaafaaaafaaaafaaaafaaaafaaaafaaaafaaaafaaaafaaaafaaaafaaaafaaaafaaaafaaaafaaaafaaaafaaaafaaaafaaaafaaaafaaaafaaaafaaaafaaaafaaaafaaaafaaaafaaaafaaaafaaaafaaaafaaaafaaaafaaaafaaaafaaaafaaaafaaaafaaaafaaaafaaaafaaaafaaaafaaaafaaaafaaaafaaaafaaaafaaaafaaaafaaaafaaaafaaaafaaaafaaaafaaaafaaaafaaaafaaaafaaaafaaaafaaaafaaaafaaaafaaaafaaaafaaaafaaaafaaaafaaaafaaaafaaaafaaaafaaaafaaaafaaaafaaaafaaaafaaaafaaaafaaaafaaaafaaaafaaaafaaaafaaaafaaaafaaaafaaaafaaaafaaaafaaaafaaaafaaaafaaaafaaaafaaaafaaaafaaaafaaaafaaaafaaaafaaaafaaaafaaaafaaaafaaaafaaaafaaaafaaaafaaaafaaaafaaaafaaaafaaaafaaaafaaaafaaaafaaaafaaaafaaaafaaaafaaaafaaaafaaaafaaaafaaaafaaaafaaaafaaaafaaaafaaaafaaaafaaaafaaaafaaaafaaaafaaaafaaaafaaaafaaaafaaaafaaaafaaaafaaaafaaaafaaaafaaaafaaaafaaaafaaaafaaaafaaaafaaaafaaaafaaaafaaaafaaaafaaaafaaaafaaaafaaaafaaaafaaaafaaaafaaaafaaaafaaaafaaaafaaaafaaaafaaaafaaaafaaaafaaaafaaaafaaaafaaaafaaaafaaaafaaaafaaaafaaaafaaaafaaaafaaaafaaaafaaaafaaaafaaaafaaaafaaaafaaaafaaaafaaaafaaaafaaaafaaaafaaaafaaaafaaaafaaaafaaaafaaaafaaaafaaaafaaaafaaaafaaaafaaaafaaaafaaaafaaaafaaaafaaaafaaaafaaaafaaaafaaaafaaaafaaaafaaaafaaaafaaaafaaaafaaaafaaaafaaaafaaaafaaaafaaaafaaaafaaaafaaaafaaaafaaaafaaaafaaaafaaaafaaaafaaaafaaaafaaaafaaaafaaaafaaaafaaaafaaaafaaaafaaaafaaaafaaaafaaaafaaaafaaaafaaaafaaaafaaaafaaaafaaaafaaaafaaaafaaaafaaaafaaaafaaaafaaaafaaaafaaaafaaaafaaaafaaaafaaaafaaaafaaaafaaaafaaaafaaaafaaaafaaaafaaaafaaaafaaaafaaaafaaaafaaaafaaaafaaaafaaaafaaaafaaaafaaaafaaaafaaaafaaaafaaaafaaaafaaaafaaaafaaaafaaaafaaaafaaaafaaaafaaaafaaaafaaaafaaaafaaaafaaaafaaaafaaaafaaaafaaaafaaaafaaaafaaaafaaaafaaaafaaaafaaaafaaaafaaaafaaaafaaaafaaaafaaaafaaaafaaaafaaaafaaaafaaaafaaaafaaaafaaaafaaaafaaaafaaaafaaaafaaaafaaaafaaaafaaaafaaaafaaaafaaaafaaaafaaaafaaaafaaaafaaaafaaaafaaaafaaaafaaaafaaaafaaaafaaaafaaaafaaaafaaaafaaaafaaaafaaaafaaaafaaaafaaaafaaaafaaaafaaaafaaaafaaaafaaaafaaaafaaaafaaaafaaaafaaaafaaaafaaaafaaaafaaaafaaaafaaaafaaaafaaaafaaaafaaaafaaaafaaaafaaaafaaaafaaaafaaaafaaaafaaaafaaaafaaaafaaaafaaaafaaaafaaaafaaaafaaaafaaaafaaaafaaaafaaaafaaaafaaaafaaaafaaaafaaaafaaaafaaaafaaaafaaaafaaaafaaaafaaaafaaaafaaaafaaaafaaaafaaaafaaaafaaaafaaaafaaaafaaaafaaaafaaaafaaaafaaaafaaaafaaaafaaaafaaaafaaaafaaaafaaaafaaaafaaaafaaaafaaaafaaaafaaaafaaaafaaaafaaaafaaaafaaaafaaaafaaaafaaaafaaaafaaaafaaaafaaaafaaaafaaaafaaaafaaaafaaaafaaaafaaaafaaaafaaaafaaaafaaaafaaaafaaaafaaaafaaaafaaaafaaaafaaaafaaaafaaaafaaaafaaaafaaaafaaaafaaaafaaaafaaaafaaaafaaaafaaaafaaaafaaaafaaaafaaaafaaaafaaaafaaaafaaaafaaaafaaaafaaaafaaaafaaaafaaaafaaaafaaaafaaaafaaaafaaaafaaaafaaaafaaaafaaaafaaaafaaaafaaaafaaaafaaaafaaaafaaaafaaaafaaaafaaaafaaaafaaaafaaaafaaaafaaaafaaaafaaaafaaaafaaaafaaaafaaaafaaaafaaaafaaaafaaaafaaaafaaaafaaaafaaaafaaaafaaaafaaaafaaaafaaaafaaaafaaaafaaaafaaaafaaaafaaaafaaaafaaaafaaaafaaaafaaaafaaaafaaaafaaaafaaaafaaaafaaaafaaaafaaaafaaaafaaaafaaaafaaaafaaaafaaaafaaaafaaaafaaaafaaaafaaaafaaaafaaaafaaaafaaaafaaaafaaaafaaaafaaaafaaaafaaaafaaaafaaaafaaaafaaaafaaaafaaaafaaaafaaaafaaaafaaaafaaaafaaaafaaaafaaaafaaaafaaaafaaaafaaaafaaaafaaaafaaaafaaaafaaaafaaaafaaaafaaaafaaaafaaaafaaaafaaaafaaaafaaaafaaaafaaaafaaaafaaaafaaaafaaaafaaaafaaaafaaaafaaaafaaaafaaaafaaaafaaaafaaaafaaaafaaaafaaaafaaaafaaaafaaaafaaaafaaaafaaaafaaaafaaaafaaaafaaaafaaaafaaaafaaaafaaaafaaaafaaaafaaaafaaaafaaaafaaaafaaaafaaaafaaaafaaaafaaaafaaaafaaaafaaaafaaaafaaaafaaaafaaaafaaaafaaaafaaaafaaaafaaaafaaaafaaaafaaaafaaaafaaaafaaaafaaaafaaaafaaaafaaaafaaaafaaaafaaaafaaaafaaaafaaaafaaaafaaaafaaaafaaaafaaaafaaaafaaaafaaaafaaaafaaaafaaaafaaaafaaaafaaaafaaaafaaaafaaaafaaaafaaaafaaaafaaaafaaaafaaaafaaaafaaaafaaaafaaaafaaaafaaaafaaaafaaaafaaaafaaaafaaaafaaaafaaaafaaaafaaaafaaaafaaaafaaaafaaaafaaaafaaaafaaaafaaaafaaaafaaaafaaaafaaaafaaaafaaaafaaaafaaaafaaaafaaaafaaaafaaaafaaaafaaaafaaaafaaaafaaaafaaaafaaaafaaaafaaaafaaaafaaaafaaaafaaaafaaaafaaaafaaaafaaaafaaaafaaaafaaaafaaaafaaaafaaaafaaaafaaaafaaaafaaaafaaaafaaaafaaaafaaaafaaaafaaaafaaaafaaaafaaaafaaaafaaaafaaaafaaaafaaaafaaaafaaaafaaaafaaaafaaaafaaaafaaaafaaaafaaaafaaaafaaaafaaaafaaaafaaaafaaaafaaaafaaaafaaaafaaaafaaaafaaaafaaaafaaaafaaaafaaaafaaaafaaaafaaaafaaaafaaaafaaaafaaaafaaaafaaaafaaaafaaaafaaaafaaaafaaaafaaaafaaaafaaaafaaaafaaaafaaaafaaaafaaaafaaaafaaaafaaaafaaaafaaaafaaaafaaaafaaaafaaaafaaaafaaaafaaaafaaaafaaaafaaaafaaaafaaaafaaaafaaaafaaaafaaaafaaaafaaaafaaaafaaaafaaaafaaaafaaaafaaaafaaaafaaaafaaaafaaaafaaaafaaaafaaaafaaaafaaaafaaaafaaaafaaaafaaaafaaaafaaaafaaaafaaaafaaaafaaaafaaaafaaaafaaaafaaaafaaaafaaaafaaaafaaaafaaaafaaaafaaaafaaaafaaaafaaaafaaaafaaaafaaaafaaaafaaaafaaaafaaaafaaaafaaaafaaaafaaaafaaaafaaaafaaaafaaaafaaaafaaaafaaaafaaaafaaaafaaaafaaaafaaaafaaaafaaaafaaaafaaaafaaaafaaaafaaaafaaaafaaaafaaaafaaaafaaaafaaaafaaaafaaaafaaaafaaaafaaaafaaaafaaaafaaaafaaaafaaaafaaaafaaaafaaaafaaaafaaaafaaaafaaaafaaaafaaaafaaaafaaaafaaaafaaaafaaaafaaaafaaaafaaaafaaaafaaaafaaaafaaaafaaaafaaaafaaaafaaaafaaaafaaaafaaaafaaaafaaaafaaaafaaaafaaaafaaaafaaaafaaaafaaaafaaaafaaaafaaaafaaaafaaaafaaaafaaaafaaaafaaaafaaaafaaaafaaaafaaaafaaaafaaaafaaaafaaaafaaaafaaaafaaaafaaaafaaaafaaaafaaaafaaaafaaaafaaaafaaaafaaaafaaaafaaaafaaaafaaaafaaaafaaaafaaaafaaaafaaaafaaaafaaaafaaaafaaaafaaaafaaaafaaaafaaaafaaaafaaaafaaaafaaaafaaaafaaaafaaaafaaaafaaaafaaaafaaaafaaaafaaaafaaaafaaaafaaaafaaaafaaaafaaaafaaaafaaaafaaaafaaaafaaaafaaaafaaaafaaaafaaaafaaaafaaaafaaaafaaaafaaaafaaaafaaaafaaaafaaaafaaaafaaaafaaaafaaaafaaaafaaaafaaaafaaaafaaaafaaaafaaaafaaaafaaaafaaaafaaaafaaaafaaaafaaaafaaaafaaaafaaaafaaaafaaaafaaaafaaaafaaaafaaaafaaaafaaaafaaaafaaaafaaaafaaaafaaaafaaaafaaaafaaaafaaaafaaaafaaaafaaaafaaaafaaaafaaaafaaaafaaaafaaaafaaaafaaaafaaaafaaaafaaaafaaaafaaaafaaaafaaaafaaaafaaaafaaaafaaaafaaaafaaaafaaaafaaaafaaaafaaaafaaaafaaaafaaaafaaaafaaaafaaaafaaaafaaaafaaaafaaaafaaaafaaaafaaaafaaaafaaaafaaaafaaaafaaaafaaaafaaaafaaaafaaaafaaaafaaaafaaaafaaaafaaaafaaaafaaaafaaaafaaaafaaaafaaaafaaaafaaaafaaaafaaaafaaaafaaaafaaaafaaaafaaaafaaaafaaaafaaaafaaaafaaaafaaaafaaaafaaaafaaaafaaaafaaaafaaaafaaaafaaaafaaaafaaaafaaaafaaaafaaaafaaaafaaaafaaaafaaaafaaaafaaaafaaaafaaaafaaaafaaaafaaaafaaaafaaaafaaaafaaaafaaaafaaaafaaaafaaaafaaaafaaaafaaaafaaaafaaaafaaaafaaaafaaaafaaaafaaaafaaaafaaaafaaaafaaaafaaaafaaaafaaaafaaaafaaaafaaaafaaaafaaaafaaaafaaaafaaaafaaaafaaaafaaaafaaaafaaaafaaaafaaaafaaaafaaaafaaaafaaaafaaaafaaaafaaaafaaaafaaaafaaaafaaaafaaaafaaaafaaaafaaaafaaaafaaaafaaaafaaaafaaaafaaaafaaaafaaaafaaaafaaaafaaaafaaaafaaaafaaaafaaaafaaaafaaaafaaaafaaaafaaaafaaaafaaaafaaaafaaaafaaaafaaaafaaaafaaaafaaaafaaaafaaaafaaaafaaaafaaaafaaaafaaaafaaaafaaaafaaaafaaaafaaaafaaaafaaaafaaaafaaaafaaaafaaaafaaaafaaaafaaaafaaaafaaaafaaaafaaaafaaaafaaaafaaaafaaaafaaaafaaaafaaaafaaaafaaaafaaaafaaaafaaaafaaaafaaaafaaaafaaaafaaaafaaaafaaaafaaaafaaaafaaaafaaaafaaaafaaaafaaaafaaaafaaaafaaaafaaaafaaaafaaaafaaaafaaaafaaaafaaaafaaaafaaaafaaaafaaaafaaaafaaaafaaaafaaaafaaaafaaaafaaaafaaaafaaaafaaaafaaaafaaaafaaaafaaaafaaaafaaaafaaaafaaaafaaaafaaaafaaaafaaaafaaaafaaaafaaaafaaaafaaaafaaaafaaaafaaaafaaaafaaaafaaaafaaaafaaaafaaaafaaaafaaaafaaaafaaaafaaaafaaaafaaaafaaaafaaaafaaaafaaaafaaaafaaaafaaaafaaaafaaaafaaaafaaaafaaaafaaaafaaaafaaaafaaaafaaaafaaaafaaaafaaaafaaaafaaaafaaaafaaaafaaaafaaaafaaaafaaaafaaaafaaaafaaaafaaaafaaaafaaaafaaaafaaaafaaaafaaaafaaaafaaaafaaaafaaaafaaaafaaaafaaaafaaaafaaaafaaaafaaaafaaaafaaaafaaaafaaaafaaaafaaaafaaaafaaaafaaaafaaaafaaaafaaaafaaaafaaaafaaaafaaaafaaaafaaaafaaaafaaaafaaaafaaaafaaaafaaaafaaaafaaaafaaaafaaaafaaaafaaaafaaaafaaaafaaaafaaaafaaaafaaaafaaaafaaaafaaaafaaaafaaaafaaaafaaaafaaaafaaaafaaaafaaaafaaaafaaaafaaaafaaaafaaaafaaaafaaaafaaaafaaaafaaaafaaaafaaaafaaaafaaaafaaaafaaaafaaaafaaaafaaaafaaaafaaaafaaaafaaaafaaaafaaaafaaaafaaaafaaaafaaaafaaaafaaaafaaaafaaaafaaaafaaaafaaaafaaaafaaaafaaaafaaaafaaaafaaaafaaaafaaaafaaaafaaaafaaaafaaaafaaaafaaaafaaaafaaaafaaaafaaaafaaaafaaaafaaaafaaaafaaaafaaaafaaaafaaaafaaaafaaaafaaaafaaaafaaaafaaaafaaaafaaaafaaaafaaaafaaaafaaaafaaaafaaaafaaaafaaaafaaaafaaaafaaaafaaaafaaaafaaaafaaaafaaaafaaaafaaaafaaaafaaaafaaaafaaaafaaaafaaaafaaaafaaaafaaaafaaaafaaaafaaaafaaaafaaaafaaaafaaaafaaaafaaaafaaaafaaaafaaaafaaaafaaaafaaaafaaaafaaaafaaaafaaaafaaaafaaaafaaaafaaaafaaaafaaaafaaaafaaaafaaaafaaaafaaaafaaaafaaaafaaaafaaaafaaaafaaaafaaaafaaaafaaaafaaaafaaaafaaaafaaaafaaaafaaaafaaaafaaaafaaaafaaaafaaaafaaaafaaaafaaaafaaaafaaaafaaaafaaaafaaaafaaaafaaaafaaaafaaaafaaaafaaaafaaaafaaaafaaaafaaaafaaaafaaaafaaaafaaaafaaaafaaaafaaaafaaaafaaaafaaaafaaaafaaaafaaaafaaaafaaaafaaaafaaaafaaaafaaaafaaaafaaaafaaaafaaaafaaaafaaaafaaaafaaaafaaaafaaaafaaaafaaaafaaaafaaaafaaaafaaaafaaaafaaaafaaaafaaaafaaaafaaaafaaaafaaaafaaaafaaaafaaaafaaaafaaaafaaaafaaaafaaaafaaaafaaaafaaaafaaaafaaaafaaaafaaaafaaaafaaaafaaaafaaaafaaaafaaaafaaaafaaaafaaaafaaaafaaaafaaaafaaaafaaaafaaaafaaaafaaaafaaaafaaaafaaaafaaaafaaaafaaaafaaaafaaaafaaaafaaaafaaaafaaaafaaaafaaaafaaaafaaaafaaaafaaaafaaaafaaaafaaaafaaaafaaaafaaaafaaaafaaaafaaaafaaaafaaaafaaaafaaaafaaaafaaaafaaaafaaaafaaaafaaaafaaaafaaaafaaaafaaaafaaaafaaaafaaaafaaaafaaaafaaaafaaaafaaaafaaaafaaaafaaaafaaaafaaaafaaaafaaaafaaaafaaaafaaaafaaaafaaaafaaaafaaaafaaaafaaaafaaaafaaaafaaaafaaaafaaaafaaaafaaaafaaaafaaaafaaaafaaaafaaaafaaaafaaaafaaaafaaaafaaaafaaaafaaaafaaaafaaaafaaaafaaaafaaaafaaaafaaaafaaaafaaaafaaaafaaaafaaaafaaaafaaaafaaaafaaaafaaaafaaaafaaaafaaaafaaaafaaaafaaaafaaaafaaaafaaaafaaaafaaaafaaaafaaaafaaaafaaaafaaaafaaaafaaaafaaaafaaaafaaaafaaaafaaaafaaaafaaaafaaaafaaaafaaaafaaaafaaaafaaaafaaaafaaaafaaaafaaaafaaaafaaaafaaaafaaaafaaaafaaaafaaaafaaaafaaaafaaaafaaaafaaaafaaaafaaaafaaaafaaaafaaaafaaaafaaaafaaaafaaaafaaaafaaaafaaaafaaaafaaaafaaaafaaaafaaaafaaaafaaaafaaaafaaaafaaaafaaaafaaaafaaaafaaaafaaaafaaaafaaaafaaaafaaaafaaaafaaaafaaaafaaaafaaaafaaaafaaaafaaaafaaaafaaaafaaaafaaaafaaaafaaaafaaaafaaaafaaaafaaaafaaaafaaaafaaaafaaaafaaaafaaaafaaaafaaaafaaaafaaaafaaaafaaaafaaaafaaaafaaaafaaaafaaaafaaaafaaaafaaaafaaaafaaaafaaaafaaaafaaaafaaaafaaaafaaaafaaaafaaaafaaaafaaaafaaaafaaaafaaaafaaaafaaaafaaaafaaaafaaaafaaaafaaaafaaaafaaaafaaaafaaaafaaaafaaaafaaaafaaaafaaaafaaaafaaaafaaaafaaaafaaaafaaaafaaaafaaaafaaaafaaaafaaaafaaaafaaaafaaaafaaaafaaaafaaaafaaaafaaaafaaaafaaaafaaaafaaaafaaaafaaaafaaaafaaaafaaaafaaaafaaaafaaaafaaaafaaaafaaaafaaaafaaaafaaaafaaaafaaaafaaaafaaaafaaaafaaaafaaaafaaaafaaaafaaaafaaaafaaaafaaaafaaaafaaaafaaaafaaaafaaaafaaaafaaaafaaaafaaaafaaaafaaaafaaaafaaaafaaaafaaaafaaaafaaaafaaaafaaaafaaaafaaaafaaaafaaaafaaaafaaaafaaaafaaaafaaaafaaaafaaaafaaaafaaaafaaaafaaaafaaaafaaaafaaaafaaaafaaaafaaaafaaaafaaaafaaaafaaaafaaaafaaaafaaaafaaaafaaaafaaaafaaaafaaaafaaaafaaaafaaaafaaaafaaaafaaaafaaaafaaaafaaaafaaaafaaaafaaaafaaaafaaaafaaaafaaaafaaaafaaaafaaaafaaaafaaaafaaaafaaaafaaaafaaaafaaaafaaaafaaaafaaaafaaaafaaaafaaaafaaaafaaaafaaaafaaaafaaaafaaaafaaaafaaaafaaaafaaaafaaaafaaaafaaaafaaaafaaaafaaaafaaaafaaaafaaaafaaaafaaaafaaaafaaaafaaaafaaaafaaaafaaaafaaaafaaaafaaaafaaaafaaaafaaaafaaaafaaaafaaaafaaaafaaaafaaaafaaaafaaaafaaaafaaaafaaaafaaaafaaaafaaaafaaaafaaaafaaaafaaaafaaaafaaaafaaaafaaaafaaaafaaaafaaaafaaaafaaaafaaaafaaaafaaaafaaaafaaaafaaaafaaaafaaaafaaaafaaaafaaaafaaaafaaaafaaaafaaaafaaaafaaaafaaaafaaaafaaaafaaaafaaaafaaaafaaaafaaaafaaaafaaaafaaaafaaaafaaaafaaaafaaaafaaaafaaaafaaaafaaaafaaaafaaaafaaaafaaaafaaaafaaaafaaaafaaaafaaaafaaaafaaaafaaaafaaaafaaaafaaaafaaaafaaaafaaaafaaaafaaaafaaaafaaaafaaaafaaaafaaaafaaaafaaaafaaaafaaaafaaaafaaaafaaaafaaaafaaaafaaaafaaaafaaaafaaaafaaaafaaaafaaaafaaaafaaaafaaaafaaaafaaaafaaaafaaaafaaaafaaaafaaaafaaaafaaaafaaaafaaaafaaaafaaaafaaaafaaaafaaaafaaaafaaaafaaaafaaaafaaaafaaaafaaaafaaaafaaaafaaaafaaaafaaaafaaaafaaaafaaaafaaaafaaaafaaaafaaaafaaaafaaaafaaaafaaaafaaaafaaaafaaaafaaaafaaaafaaaafaaaafaaaafaaaafaaaafaaaafaaaafaaaafaaaafaaaafaaaafaaaafaaaafaaaafaaaafaaaafaaaafaaaafaaaafaaaafaaaafaaaafaaaafaaaafaaaafaaaafaaaafaaaafaaaafaaaafaaaafaaaafaaaafaaaafaaaafaaaafaaaafaaaafaaaafaaaafaaaafaaaafaaaafaaaafaaaafaaaafaaaafaaaafaaaafaaaafaaaafaaaafaaaafaaaafaaaafaaaafaaaafaaaafaaaafaaaafaaaafaaaafaaaafaaaafaaaafaaaafaaaafaaaafaaaafaaaafaaaafaaaafaaaafaaaafaaaafaaaafaaaafaaaafaaaafaaaafaaaafaaaafaaaafaaaafaaaafaaaafaaaafaaaafaaaafaaaafaaaafaaaafaaaafaaaafaaaafaaaafaaaafaaaafaaaafaaaafaaaafaaaafaaaafaaaafaaaafaaaafaaaafaaaafaaaafaaaafaaaafaaaafaaaafaaaafaaaafaaaafaaaafaaaafaaaafaaaafaaaafaaaafaaaafaaaafaaaafaaaafaaaafaaaafaaaafaaaafaaaafaaaafaaaafaaaafaaaafaaaafaaaafaaaafaaaafaaaafaaaafaaaafaaaafaaaafaaaafaaaafaaaafaaaafaaaafaaaafaaaafaaaafaaaafaaaafaaaafaaaafaaaafaaaafaaaafaaaafaaaafaaaafaaaafaaaafaaaafaaaafaaaafaaaafaaaafaaaafaaaafaaaafaaaafaaaafaaaafaaaafaaaafaaaafaaaafaaaafaaaafaaaafaaaafaaaafaaaafaaaafaaaafaaaafaaaafaaaafaaaafaaaafaaaafaaaafaaaafaaaafaaaafaaaafaaaafaaaafaaaafaaaafaaaafaaaafaaaafaaaafaaaafaaaafaaaafaaaafaaaafaaaafaaaafaaaafaaaafaaaafaaaafaaaafaaaafaaaafaaaafaaaafaaaafaaaafaaaafaaaafaaaafaaaafaaaafaaaafaaaafaaaafaaaafaaaafaaaafaaaafaaaafaaaafaaaafaaaafaaaafaaaafaaaafaaaafaaaafaaaafaaaafaaaafaaaafaaaafaaaafaaaafaaaafaaaafaaaafaaaafaaaafaaaafaaaafaaaafaaaafaaaafaaaafaaaafaaaafaaaafaaaafaaaafaaaafaaaafaaaafaaaafaaaafaaaafaaaafaaaafaaaafaaaafaaaafaaaafaaaafaaaafaaaafaaaafaaaafaaaafaaaafaaaafaaaafaaaafaaaafaaaafaaaafaaaafaaaafaaaafaaaafaaaafaaaafaaaafaaaafaaaafaaaafaaaafaaaafaaaafaaaafaaaafaaaafaaaafaaaafaaaafaaaafaaaafaaaafaaaafaaaafaaaafaaaafaaaafaaaafaaaafaaaafaaaafaaaafaaaafaaaafaaaafaaaafaaaafaaaafaaaafaaaafaaaafaaaafaaaafaaaafaaaafaaaafaaaafaaaafaaaafaaaafaaaafaaaafaaaafaaaafaaaafaaaafaaaafaaaafaaaafaaaafaaaafaaaafaaaafaaaafaaaafaaaafaaaafaaaafaaaafaaaafaaaafaaaafaaaafaaaafaaaafaaaafaaaafaaaafaaaafaaaafaaaafaaaafaaaafaaaafaaaafaaaafaaaafaaaafaaaafaaaafaaaafaaaafaaaafaaaafaaaafaaaafaaaafaaaafaaaafaaaafaaaafaaaafaaaafaaaafaaaafaaaafaaaafaaaafaaaafaaaafaaaafaaaafaaaafaaaafaaaafaaaafaaaafaaaafaaaafaaaafaaaafaaaafaaaafaaaafaaaafaaaafaaaafaaaafaaaafaaaafaaaafaaaafaaaafaaaafaaaafaaaafaaaafaaaafaaaafaaaafaaaafaaaafaaaafaaaafaaaafaaaafaaaafaaaafaaaafaaaafaaaafaaaafaaaafaaaafaaaafaaaafaaaafaaaafaaaafaaaafaaaafaaaafaaaafaaaafaaaafaaaafaaaafaaaafaaaafaaaafaaaafaaaafaaaafaaaafaaaafaaaafaaaafaaaafaaaafaaaafaaaafaaaafaaaafaaaafaaaafaaaafaaaafaaaafaaaafaaaafaaaafaaaafaaaafaaaafaaaafaaaafaaaafaaaafaaaafaaaafaaaafaaaafaaaafaaaafaaaafaaaafaaaafaaaafaaaafaaaafaaaafaaaafaaaafaaaafaaaafaaaafaaaafaaaafaaaafaaaafaaaafaaaafaaaafaaaafaaaafaaaafaaaafaaaafaaaafaaaafaaaafaaaafaaaafaaaafaaaafaaaafaaaafaaaafaaaafaaaafaaaafaaaafaaaafaaaafaaaafaaaafaaaafaaaafaaaafaaaafaaaafaaaafaaaafaaaafaaaafaaaafaaaafaaaafaaaafaaaafaaaafaaaafaaaafaaaafaaaafaaaafaaaafaaaafaaaafaaaafaaaafaaaafaaaafaaaafaaaafaaaafaaaafaaaafaaaafaaaafaaaafaaaafaaaafaaaafaaaafaaaafaaaafaaaafaaaafaaaafaaaafaaaafaaaafaaaafaaaafaaaafaaaafaaaafaaaafaaaafaaaafaaaafaaaafaaaafaaaafaaaafaaaafaaaafaaaafaaaafaaaafaaaafaaaafaaaafaaaafaaaafaaaafaaaafaaaafaaaafaaaafaaaafaaaafaaaafaaaafaaaafaaaafaaaafaaaafaaaafaaaafaaaafaaaafaaaafaaaafaaaafaaaafaaaafaaaafaaaafaaaafaaaafaaaafaaaafaaaafaaaafaaaafaaaafaaaafaaaafaaaafaaaafaaaafaaaafaaaafaaaafaaaafaaaafaaaafaaaafaaaafaaaafaaaafaaaafaaaafaaaafaaaafaaaafaaaafaaaafaaaafaaaafaaaafaaaafaaaafaaaafaaaafaaaafaaaafaaaafaaaafaaaafaaaafaaaafaaaafaaaafaaaafaaaafaaaafaaaafaaaafaaaafaaaafaaaafaaaafaaaafaaaafaaaafaaaafaaaafaaaafaaaafaaaafaaaafaaaafaaaafaaaafaaaafaaaafaaaafaaaafaaaafaaaafaaaafaaaafaaaafaaaafaaaafaaaafaaaafaaaafaaaafaaaafaaaafaaaafaaaafaaaafaaaafaaaafaaaafaaaafaaaafaaaafaaaafaaaafaaaafaaaafaaaafaaaafaaaafaaaafaaaafaaaafaaaafaaaafaaaafaaaafaaaafaaaafaaaafaaaafaaaafaaaafaaaafaaaafaaaafaaaafaaaafaaaafaaaafaaaafaaaafaaaafaaaafaaaafaaaafaaaafaaaafaaaafaaaafaaaafaaaafaaaafaaaafaaaafaaaafaaaafaaaafaaaafaaaafaaaafaaaafaaaafaaaafaaaafaaaafaaaafaaaafaaaafaaaafaaaafaaaafaaaafaaaafaaaafaaaafaaaafaaaafaaaafaaaafaaaafaaaafaaaafaaaafaaaafaaaafaaaafaaaafaaaafaaaafaaaafaaaafaaaafaaaafaaaafaaaafaaaafaaaafaaaafaaaafaaaafaaaafaaaafaaaafaaaafaaaafaaaafaaaafaaaafaaaafaaaafaaaafaaaafaaaafaaaafaaaafaaaafaaaafaaaafaaaafaaaafaaaafaaaafaaaafaaaafaaaafaaaafaaaafaaaafaaaafaaaafaaaafaaaafaaaafaaaafaaaafaaaafaaaafaaaafaaaafaaaafaaaafaaaafaaaafaaaafaaaafaaaafaaaafaaaafaaaafaaaafaaaafaaaafaaaafaaaafaaaafaaaafaaaafaaaafaaaafaaaafaaaafaaaafaaaafaaaafaaaafaaaafaaaafaaaafaaaafaaaafaaaafaaaafaaaafaaaafaaaafaaaafaaaafaaaafaaaafaaaafaaaafaaaafaaaafaaaafaaaafaaaafaaaafaaaafaaaafaaaafaaaafaaaafaaaafaaaafaaaafaaaafaaaafaaaafaaaafaaaafaaaafaaaafaaaafaaaafaaaafaaaafaaaafaaaafaaaafaaaafaaaafaaaafaaaafaaaafaaaafaaaafaaaafaaaafaaaafaaaafaaaafaaaafaaaafaaaafaaaafaaaafaaaafaaaafaaaafaaaafaaaafaaaafaaaafaaaafaaaafaaaafaaaafaaaafaaaafaaaafaaaafaaaafaaaafaaaafaaaafaaaafaaaafaaaafaaaafaaaafaaaafaaaafaaaafaaaafaaaafaaaafaaaafaaaafaaaafaaaafaaaafaaaafaaaafaaaafaaaafaaaafaaaafaaaafaaaafaaaafaaaafaaaafaaaafaaaafaaaafaaaafaaaafaaaafaaaafaaaafaaaafaaaafaaaafaaaafaaaafaaaafaaaafaaaafaaaafaaaafaaaafaaaafaaaafaaaafaaaafaaaafaaaafaaaafaaaafaaaafaaaafaaaafaaaafaaaafaaaafaaaafaaaafaaaafaaaafaaaafaaaafaaaafaaaafaaaafaaaafaaaafaaaafaaaafaaaafaaaafaaaafaaaafaaaafaaaafaaaafaaaafaaaafaaaafaaaafaaaafaaaafaaaafaaaafaaaafaaaafaaaafaaaafaaaafaaaafaaaafaaaafaaaafaaaafaaaafaaaafaaaafaaaafaaaafaaaafaaaafaaaafaaaafaaaafaaaafaaaafaaaafaaaafaaaafaaaafaaaafaaaafaaaafaaaafaaaafaaaafaaaafaaaafaaaafaaaafaaaafaaaafaaaafaaaafaaaafaaaafaaaafaaaafaaaafaaaafaaaafaaaafaaaafaaaafaaaafaaaafaaaafaaaafaaaafaaaafaaaafaaaafaaaafaaaafaaaafaaaafaaaafaaaafaaaafaaaafaaaafaaaafaaaafaaaafaaaafaaaafaaaafaaaafaaaafaaaafaaaafaaaafaaaafaaaafaaaafaaaafaaaafaaaafaaaafaaaafaaaafaaaafaaaafaaaafaaaafaaaafaaaafaaaafaaaafaaaafaaaafaaaafaaaafaaaafaaaafaaaafaaaafaaaafaaaafaaaafaaaafaaaafaaaafaaaafaaaafaaaafaaaafaaaafaaaafaaaafaaaafaaaafaaaafaaaafaaaafaaaafaaaafaaaafaaaafaaaafaaaafaaaafaaaafaaaafaaaafaaaafaaaafaaaafaaaafaaaafaaaafaaaafaaaafaaaafaaaafaaaafaaaafaaaafaaaafaaaafaaaafaaaafaaaafaaaafaaaafaaaafaaaafaaaafaaaafaaaafaaaafaaaafaaaafaaaafaaaafaaaafaaaafaaaafaaaafaaaafaaaafaaaafaaaafaaaafaaaafaaaafaaaafaaaafaaaafaaaafaaaafaaaafaaaafaaaafaaaafaaaafaaaafaaaafaaaafaaaafaaaafaaaafaaaafaaaafaaaafaaaafaaaafaaaafaaaafaaaafaaaafaaaafaaaafaaaafaaaafaaaafaaaafaaaafaaaafaaaafaaaafaaaafaaaafaaaafaaaafaaaafaaaafaaaafaaaafaaaafaaaafaaaafaaaafaaaafaaaafaaaafaaaafaaaafaaaafaaaafaaaafaaaafaaaafaaaafaaaafaaaafaaaafaaaafaaaafaaaafaaaafaaaafaaaafaaaafaaaafaaaafaaaafaaaafaaaafaaaafaaaafaaaafaaaafaaaafaaaafaaaafaaaafaaaafaaaafaaaafaaaafaaaafaaaafaaaafaaaafaaaafaaaafaaaafaaaafaaaafaaaafaaaafaaaafaaaafaaaafaaaafaaaafaaaafaaaafaaaafaaaafaaaafaaaafaaaafaaaafaaaafaaaafaaaafaaaafaaaafaaaafaaaafaaaafaaaafaaaafaaaafaaaafaaaafaaaafaaaafaaaafaaaafaaaafaaaafaaaafaaaafaaaafaaaafaaaafaaaafaaaafaaaafaaaafaaaafaaaafaaaafaaaafaaaafaaaafaaaafaaaafaaaafaaaafaaaafaaaafaaaafaaaafaaaafaaaafaaaafaaaafaaaafaaaafaaaafaaaafaaaafaaaafaaaafaaaafaaaafaaaafaaaafaaaafaaaafaaaafaaaafaaaafaaaafaaaafaaaafaaaafaaaafaaaafaaaafaaaafaaaafaaaafaaaafaaaafaaaafaaaafaaaafaaaafaaaafaaaafaaaafaaaafaaaafaaaafaaaafaaaafaaaafaaaafaaaafaaaafaaaafaaaafaaaafaaaafaaaafaaaafaaaafaaaafaaaafaaaafaaaafaaaafaaaafaaaafaaaafaaaafaaaafaaaafaaaafaaaafaaaafaaaafaaaafaaaafaaaafaaaafaaaafaaaafaaaafaaaafaaaafaaaafaaaafaaaafaaaafaaaafaaaafaaaafaaaafaaaafaaaafaaaafaaaafaaaafaaaafaaaafaaaafaaaafaaaafaaaafaaaafaaaafaaaafaaaafaaaafaaaafaaaafaaaafaaaafaaaafaaaafaaaafaaaafaaaafaaaafaaaafaaaafaaaafaaaafaaaafaaaafaaaafaaaafaaaafaaaafaaaafaaaafaaaafaaaafaaaafaaaafaaaafaaaafaaaafaaaafaaaafaaaafaaaafaaaafaaaafaaaafaaaafaaaafaaaafaaaafaaaafaaaafaaaafaaaafaaaafaaaafaaaafaaaafaaaafaaaafaaaafaaaafaaaafaaaafaaaafaaaafaaaafaaaafaaaafaaaafaaaafaaaafaaaafaaaafaaaafaaaafaaaafaaaafaaaafaaaafaaaafaaaafaaaafaaaafaaaafaaaafaaaafaaaafaaaafaaaafaaaafaaaafaaaafaaaafaaaafaaaafaaaafaaaafaaaafaaaafaaaafaaaafaaaafaaaafaaaafaaaafaaaafaaaafaaaafaaaafaaaafaaaafaaaafaaaafaaaafaaaafaaaafaaaafaaaafaaaafaaaafaaaafaaaafaaaafaaaafaaaafaaaafaaaafaaaafaaaafaaaafaaaafaaaafaaaafaaaafaaaafaaaafaaaafaaaafaaaafaaaafaaaafaaaafaaaafaaaafaaaafaaaafaaaafaaaafaaaafaaaafaaaafaaaafaaaafaaaafaaaafaaaafaaaafaaaafaaaafaaaafaaaafaaaafaaaafaaaafaaaafaaaafaaaafaaaafaaaafaaaafaaaafaaaafaaaafaaaafaaaafaaaafaaaafaaaafaaaafaaaafaaaafaaaafaaaafaaaafaaaafaaaafaaaafaaaafaaaafaaaafaaaafaaaafaaaafaaaafaaaafaaaafaaaafaaaafaaaafaaaafaaaafaaaafaaaafaaaafaaaafaaaafaaaafaaaafaaaafaaaafaaaafaaaafaaaafaaaafaaaafaaaafaaaafaaaafaaaafaaaafaaaafaaaafaaaafaaaafaaaafaaaafaaaafaaaafaaaafaaaafaaaafaaaafaaaafaaaafaaaafaaaafaaaafaaaafaaaafaaaafaaaafaaaafaaaafaaaafaaaafaaaafaaaafaaaafaaaafaaaafaaaafaaaafaaaafaaaafaaaafaaaafaaaafaaaafaaaafaaaafaaaafaaaafaaaafaaaafaaaafaaaafaaaafaaaafaaaafaaaafaaaafaaaafaaaafaaaafaaaafaaaafaaaafaaaafaaaafaaaafaaaafaaaafaaaafaaaafaaaafaaaafaaaafaaaafaaaafaaaafaaaafaaaafaaaafaaaafaaaafaaaafaaaafaaaafaaaafaaaafaaaafaaaafaaaafaaaafaaaafaaaafaaaafaaaafaaaafaaaafaaaafaaaafaaaafaaaafaaaafaaaafaaaafaaaafaaaafaaaafaaaafaaaafaaaafaaaafaaaafaaaafaaaafaaaafaaaafaaaafaaaafaaaafaaaafaaaafaaaafaaaafaaaafaaaafaaaafaaaafaaaafaaaafaaaafaaaafaaaafaaaafaaaafaaaafaaaafaaaafaaaafaaaafaaaafaaaafaaaafaaaafaaaafaaaafaaaafaaaafaaaafaaaafaaaafaaaafaaaafaaaafaaaafaaaafaaaafaaaafaaaafaaaafaaaafaaaafaaaafaaaafaaaafaaaafaaaafaaaafaaaafaaaafaaaafaaaafaaaafaaaafaaaafaaaafaaaafaaaafaaaafaaaafaaaafaaaafaaaafaaaafaaaafaaaafaaaafaaaafaaaafaaaafaaaafaaaafaaaafaaaafaaaafaaaafaaaafaaaafaaaafaaaafaaaafaaaafaaaafaaaafaaaafaaaafaaaafaaaafaaaafaaaafaaaafaaaafaaaafaaaafaaaafaaaafaaaafaaaafaaaafaaaafaaaafaaaafaaaafaaaafaaaafaaaafaaaafaaaafaaaafaaaafaaaafaaaafaaaafaaaafaaaafaaaafaaaafaaaafaaaafaaaafaaaafaaaafaaaafaaaafaaaafaaaafaaaafaaaafaaaafaaaafaaaafaaaafaaaafaaaafaaaafaaaafaaaafaaaafaaaafaaaafaaaafaaaafaaaafaaaafaaaafaaaafaaaafaaaafaaaafaaaafaaaafaaaafaaaafaaaafaaaafaaaafaaaafaaaafaaaafaaaafaaaafaaaafaaaafaaaafaaaafaaaafaaaafaaaafaaaafaaaafaaaafaaaafaaaafaaaafaaaafaaaafaaaafaaaafaaaafaaaafaaaafaaaafaaaafaaaafaaaafaaaafaaaafaaaafaaaafaaaafaaaafaaaafaaaafaaaafaaaafaaaafaaaafaaaafaaaafaaaafaaaafaaaafaaaafaaaafaaaafaaaafaaaafaaaafaaaafaaaafaaaafaaaafaaaafaaaafaaaafaaaafaaaafaaaafaaaafaaaafaaaafaaaafaaaafaaaafaaaafaaaafaaaafaaaafaaaafaaaafaaaafaaaafaaaafaaaafaaaafaaaafaaaafaaaafaaaafaaaafaaaafaaaafaaaafaaaafaaaafaaaafaaaafaaaafaaaafaaaafaaaafaaaafaaaafaaaafaaaafaaaafaaaafaaaafaaaafaaaafaaaafaaaafaaaafaaaafaaaafaaaafaaaafaaaafaaaafaaaafaaaafaaaafaaaafaaaafaaaafaaaafaaaafaaaafaaaafaaaafaaaafaaaafaaaafaaaafaaaafaaaafaaaafaaaafaaaafaaaafaaaafaaaafaaaafaaaafaaaafaaaafaaaafaaaafaaaafaaaafaaaafaaaafaaaafaaaafaaaafaaaafaaaafaaaafaaaafaaaafaaaafaaaafaaaafaaaafaaaafaaaafaaaafaaaafaaaafaaaafaaaafaaaafaaaafaaaafaaaafaaaafaaaafaaaafaaaafaaaafaaaafaaaafaaaafaaaafaaaafaaaafaaaafaaaafaaaafaaaafaaaafaaaafaaaafaaaafaaaafaaaafaaaafaaaafaaaafaaaafaaaafaaaafaaaafaaaafaaaafaaaafaaaafaaaafaaaafaaaafaaaafaaaafaaaafaaaafaaaafaaaafaaaafaaaafaaaafaaaafaaaafaaaafaaaafaaaafaaaafaaaafaaaafaaaafaaaafaaaafaaaafaaaafaaaafaaaafaaaafaaaafaaaafaaaafaaaafaaaafaaaafaaaafaaaafaaaafaaaafaaaafaaaafaaaafaaaafaaaafaaaafaaaafaaaafaaaafaaaafaaaafaaaafaaaafaaaafaaaafaaaafaaaafaaaafaaaafaaaafaaaafaaaafaaaafaaaafaaaafaaaafaaaafaaaafaaaafaaaafaaaafaaaafaaaafaaaafaaaafaaaafaaaafaaaafaaaafaaaafaaaafaaaafaaaafaaaafaaaafaaaafaaaafaaaafaaaafaaaafaaaafaaaafaaaafaaaafaaaafaaaafaaaafaaaafaaaafaaaafaaaafaaaafaaaafaaaafaaaafaaaafaaaafaaaafaaaafaaaafaaaafaaaafaaaafaaaafaaaafaaaafaaaafaaaafaaaafaaaafaaaafaaaafaaaafaaaafaaaafaaaafaaaafaaaafaaaafaaaafaaaafaaaafaaaafaaaafaaaafaaaafaaaafaaaafaaaafaaaafaaaafaaaafaaaafaaaafaaaafaaaafaaaafaaaafaaaafaaaafaaaafaaaafaaaafaaaafaaaafaaaafaaaafaaaafaaaafaaaafaaaafaaaafaaaafaaaafaaaafaaaafaaaafaaaafaaaafaaaafaaaafaaaafaaaafaaaafaaaafaaaafaaaafaaaafaaaafaaaafaaaafaaaafaaaafaaaafaaaafaaaafaaaafaaaafaaaafaaaafaaaafaaaafaaaafaaaafaaaafaaaafaaaafaaaafaaaafaaaafaaaafaaaafaaaafaaaafaaaafaaaafaaaafaaaafaaaafaaaafaaaafaaaafaaaafaaaafaaaafaaaafaaaafaaaafaaaafaaaafaaaafaaaafaaaafaaaafaaaafaaaafaaaafaaaafaaaafaaaafaaaafaaaafaaaafaaaafaaaafaaaafaaaafaaaafaaaafaaaafaaaafaaaafaaaafaaaafaaaafaaaafaaaafaaaafaaaafaaaafaaaafaaaafaaaafaaaafaaaafaaaafaaaafaaaafaaaafaaaafaaaafaaaafaaaafaaaafaaaafaaaafaaaafaaaafaaaafaaaafaaaafaaaafaaaafaaaafaaaafaaaafaaaafaaaafaaaafaaaafaaaafaaaafaaaafaaaafaaaafaaaafaaaafaaaafaaaafaaaafaaaafaaaafaaaafaaaafaaaafaaaafaaaafaaaafaaaafaaaafaaaafaaaafaaaafaaaafaaaafaaaafaaaafaaaafaaaafaaaafaaaafaaaafaaaafaaaafaaaafaaaafaaaafaaaafaaaafaaaafaaaafaaaafaaaafaaaafaaaafaaaafaaaafaaaafaaaafaaaafaaaafaaaafaaaafaaaafaaaafaaaafaaaafaaaafaaaafaaaafaaaafaaaafaaaafaaaafaaaafaaaafaaaafaaaafaaaafaaaafaaaafaaaafaaaafaaaafaaaafaaaafaaaafaaaafaaaafaaaafaaaafaaaafaaaafaaaafaaaafaaaafaaaafaaaafaaaafaaaafaaaafaaaafaaaafaaaafaaaafaaaafaaaafaaaafaaaafaaaafaaaafaaaafaaaafaaaafaaaafaaaafaaaafaaaafaaaafaaaafaaaafaaaafaaaafaaaafaaaafaaaafaaaafaaaafaaaafaaaafaaaafaaaafaaaafaaaafaaaafaaaafaaaafaaaafaaaafaaaafaaaafaaaafaaaafaaaafaaaafaaaafaaaafaaaafaaaafaaaafaaaafaaaafaaaafaaaafaaaafaaaafaaaafaaaafaaaafaaaafaaaafaaaafaaaafaaaafaaaafaaaafaaaafaaaafaaaafaaaafaaaafaaaafaaaafaaaafaaaafaaaafaaaafaaaafaaaafaaaafaaaafaaaafaaaafaaaafaaaafaaaafaaaafaaaafaaaafaaaafaaaafaaaafaaaafaaaafaaaafaaaafaaaafaaaafaaaafaaaafaaaafaaaafaaaafaaaafaaaafaaaafaaaafaaaafaaaafaaaafaaaafaaaafaaaafaaaafaaaafaaaafaaaafaaaafaaaafaaaafaaaafaaaafaaaafaaaafaaaafaaaafaaaafaaaafaaaafaaaafaaaafaaaafaaaafaaaafaaaafaaaafaaaafaaaafaaaafaaaafaaaafaaaafaaaafaaaafaaaafaaaafaaaafaaaafaaaafaaaafaaaafaaaafaaaafaaaafaaaafaaaafaaaafaaaafaaaafaaaafaaaafaaaafaaaafaaaafaaaafaaaafaaaafaaaafaaaafaaaafaaaafaaaafaaaafaaaafaaaafaaaafaaaafaaaafaaaafaaaafaaaafaaaafaaaafaaaafaaaafaaaafaaaafaaaafaaaafaaaafaaaafaaaafaaaafaaaafaaaafaaaafaaaafaaaafaaaafaaaafaaaafaaaafaaaafaaaafaaaafaaaafaaaafaaaafaaaafaaaafaaaafaaaafaaaafaaaafaaaafaaaafaaaafaaaafaaaafaaaafaaaafaaaafaaaafaaaafaaaafaaaafaaaafaaaafaaaafaaaafaaaafaaaafaaaafaaaafaaaafaaaafaaaafaaaafaaaafaaaafaaaafaaaafaaaafaaaafaaaafaaaafaaaafaaaafaaaafaaaafaaaafaaaafaaaafaaaafaaaafaaaafaaaafaaaafaaaafaaaafaaaafaaaafaaaafaaaafaaaafaaaafaaaafaaaafaaaafaaaafaaaafaaaafaaaafaaaafaaaafaaaafaaaafaaaafaaaafaaaafaaaafaaaafaaaafaaaafaaaafaaaafaaaafaaaafaaaafaaaafaaaafaaaafaaaafaaaafaaaafaaaafaaaafaaaafaaaafaaaafaaaafaaaafaaaafaaaafaaaafaaaafaaaafaaaafaaaafaaaafaaaafaaaafaaaafaaaafaaaafaaaafaaaafaaaafaaaafaaaafaaaafaaaafaaaafaaaafaaaafaaaafaaaafaaaafaaaafaaaafaaaafaaaafaaaafaaaafaaaafaaaafaaaafaaaafaaaafaaaafaaaafaaaafaaaafaaaafaaaafaaaafaaaafaaaafaaaafaaaafaaaafaaaafaaaafaaaafaaaafaaaafaaaafaaaafaaaafaaaafaaaafaaaafaaaafaaaafaaaafaaaafaaaafaaaafaaaafaaaafaaaafaaaafaaaafaaaafaaaafaaaafaaaafaaaafaaaafaaaafaaaafaaaafaaaafaaaafaaaafaaaafaaaafaaaafaaaafaaaafaaaafaaaafaaaafaaaafaaaafaaaafaaaafaaaafaaaafaaaafaaaafaaaafaaaafaaaafaaaafaaaafaaaafaaaafaaaafaaaafaaaafaaaafaaaafaaaafaaaafaaaafaaaafaaaafaaaafaaaafaaaafaaaafaaaafaaaafaaaafaaaafaaaafaaaafaaaafaaaafaaaafaaaafaaaafaaaafaaaafaaaafaaaafaaaafaaaafaaaafaaaafaaaafaaaafaaaafaaaafaaaafaaaafaaaafaaaafaaaafaaaafaaaafaaaafaaaafaaaafaaaafaaaafaaaafaaaafaaaafaaaafaaaafaaaafaaaafaaaafaaaafaaaafaaaafaaaafaaaafaaaafaaaafaaaafaaaafaaaafaaaafaaaafaaaafaaaafaaaafaaaafaaaafaaaafaaaafaaaafaaaafaaaafaaaafaaaafaaaafaaaafaaaafaaaafaaaafaaaafaaaafaaaafaaaafaaaafaaaafaaaafaaaafaaaafaaaafaaaafaaaafaaaafaaaafaaaafaaaafaaaafaaaafaaaafaaaafaaaafaaaafaaaafaaaafaaaafaaaafaaaafaaaafaaaafaaaafaaaafaaaafaaaafaaaafaaaafaaaafaaaafaaaafaaaafaaaafaaaafaaaafaaaafaaaafaaaafaaaafaaaafaaaafaaaafaaaafaaaafaaaafaaaafaaaafaaaafaaaafaaaafaaaafaaaafaaaafaaaafaaaafaaaafaaaafaaaafaaaafaaaafaaaafaaaafaaaafaaaafaaaafaaaafaaaafaaaafaaaafaaaafaaaafaaaafaaaafaaaafaaaafaaaafaaaafaaaafaaaafaaaafaaaafaaaafaaaafaaaafaaaafaaaafaaaafaaaafaaaafaaaafaaaafaaaafaaaafaaaafaaaafaaaafaaaafaaaafaaaafaaaafaaaafaaaafaaaafaaaafaaaafaaaafaaaafaaaafaaaafaaaafaaaafaaaafaaaafaaaafaaaafaaaafaaaafaaaafaaaafaaaafaaaafaaaafaaaafaaaafaaaafaaaafaaaafaaaafaaaafaaaafaaaafaaaafaaaafaaaafaaaafaaaafaaaafaaaafaaaafaaaafaaaafaaaafaaaafaaaafaaaafaaaafaaaafaaaafaaaafaaaafaaaafaaaafaaaafaaaafaaaafaaaafaaaafaaaafaaaafaaaafaaaafaaaafaaaafaaaafaaaafaaaafaaaafaaaafaaaafaaaafaaaafaaaafaaaafaaaafaaaafaaaafaaaafaaaafaaaafaaaafaaaafaaaafaaaafaaaafaaaafaaabfaaaafaaabfaaaafaaabfaaaafaaabfaaaafaaabfaaaabehdebehddfaaabfaaaafaaabfaaaafaaabfaaaafaaabfaaaafaaabfaaaafaaabfaaaafaaabfaaaafaaabfaaaafaaabfaaaafaaabfaaaafaaabfaaaafaaabfaaaafaaabfaaaafaaabfaaaafaaabfaaaafaaabfaaaafaaabfaaaafaaaafaaaafaaaafaaaafaaaafaaaafaaaafaaaafaaaafaaaafaaaafaaaafaaaafaaaafaaaafaaaafaaaafaaaafaaabfaaaafaaabfaaaafaaabfaaaafaaabfaaaafaaabfaaaafaaabfaaaafaaabfaaaafaaabfaaaafaaabfaaaafaaabfaaaafaaabfaaaafaaabfaaaafaaabfaaaafaaabfaaaafaaaafaaaafaaaafaaaafaaaafaaaafaaaafaaaafaaaafaaaafaaaafaaaafaaaafaaaafaaaafaaaafaaaafaaaafaaaafaaaafaaaafaaaafaaaafaaaafaaaafaaaafaaaafaaaafaaaafaaaafaaaafaaaafaaaafaaaafaaaafaaaafaaaafaaaafaaaafaaaafaaaafaaaafaaaafaaaafaaaafaaaafaaaafaaaafaaaafaaaafaaaafaaaafaaaafaaaafaaaafaaaafaaaafaaaafaaaafaaaafaaaafaaaafaaaafaaaafaaaafaaaafaaaafaaaafaaaafaaaafaaaafaaaafaaaafaaaafaaaafaaaafaaaafaaaafaaaafaaaafaaaafaaaafaaaafaaaafaaaafaaaafaaaafaaaafaaaafaaaafaaaafaaaafaaaafaaaafaaaafaaaafaaaafaaaafaaaafaaaafaaaafaaaafaaaafaaaafaaaafaaaafaaaafaaaafaaaafaaaafaaaafaaaafaaaafaaaafaaaafaaaafaaaafaaaafaaaafaaaafaaaafaaaafaaaafaaaafaaaafaaaafaaaafaaaafaaaafaaaafaaaafaaaafaaaafaaaafaaabfaaaafaaabfaaaafaaabfaaaafaaabfaaaafaaabfaaaafaaabfaaaafaaabfaaaafaaaafaaaafaaabfaaaafaaabfaaaafaaabfaaaafaaabfaaaafaaabfaaaafaaabfaaaafaaabfaaaafaaabfaaaafaaabfaaaafaaabfaaaafaaabfaaaafaaabfaaaafaaabfaaaafaaabfaaaafaaabfaaaafaaabfaaaafaaabfaaaafaaabfaaaafaaabfaaaafaaabfaaaafaaabfaaaafaaabfaaaafaaabfaaaafaaabfaaaafaaabfaaaafaaabfaaaafaaabfaaaafaaabfaaaafaaabfaaaafaaabfaaaafaaabfaaaafaaaafaaaafaaaafaaaafaaaafaaaafaaaafaaaafaaaafaaabfaaaafaaabfaaaabeggifaaabfaaaafaaabfaaaafaaabfaaaafaaabfaaaafaaabfaaaafaaaafaaaafaaaafaaabfaaaaahhcafaaaafaaaafaaabfaaaafaaabfaaaafaaaafaaaafaaabfaaaafaaabfaaaafaaabfaaaafaaabfaaaafaaabfaaaafaaabfaaaafaaabfaaaafaaabfaaaafaaabfaaaafaaabfaaaaahgjcahgibahgifahgjfahgjcfaaaaahhecahhbiahhdjfajcifaaabfaaaafaaabfaaaafaaabfaaaafaaabfaaaafaaabfaaaafaaabfaaaafaaabfaaaafaaabfaaaaejjfcahgjdbegbgfaaabfaaaafaaabfaaaafaaaafaaaafaaaafaaaafaaaafaaabfaaaafaaaafaaaafaaaafaaaafaaabfaaaafaaabfaaaafaaaafaaaafaaaafaaaafaaaafaaaafaaaafaaaafaaaafaaaafaaaafaaaafaaaafaaaafaaaafaaaafaaaafaaaafaaaafaaaafaaaafaaaafaaaafaaaafaaaafaaaafaaaafaaabfaaaafaaaafaaaafaaaafaaaafaaaafaaaafaaaafaaaafaaaafaaaafaaaafaaaafaaaafaaaafaaaafaaaafaaaafaaaafaaaafaaaafaaaafaaaafaaaafaaaafaaaafaaaafaaaafaaaafaaaafaaaafaaaafaaaafaaaafaaaafaaaafaaaafaaaafaaaafaaaafaaaafaaaafaaaafaaaafaaaafaaaafaaaafaaaafaaaafaaaafaaaafaaaafaaaafaaaafaaaafaaaafaaaafaaaafaaaafaaaafaaaafaaaafaaaafaaaafaaaafaaaafaaaafaaaafaaaafaaaafaaaafaaaafaaaafaaaafaaaafaaaafaaaafaaaafaaaafaaaafaaaafaaaafaaaafaaaafaaaafaaaafaaaafaaaafaaaafaaaafaaaafaaaafaaaafaaaafaaaafaaaafaaaafaaaafaaaafaaaafaaaafaaaafaaaafaaaafaaaafaaaafaaaafaaaafaaaafaaaafaaaafaaaafaaaafaaaafaaaafaaaafaaaafaaaafaaaafaaaafaaaafaaaafaaaafaaaafaaaafaaaafaaaafaaaafaaaafaaaafaaaafaaaafaaaafaaaafaaaafaaaafaaaafaaaafaaaafaaaafaaaafaaaafaaaafaaaafaaaafaaaafaaaafaaaafaaaafaaaafaaaafaaaafaaaafaaaafaaaafaaaafaaaafaaaafaaaafaaaafaaaafaaaafaaaafaaaafaaaafaaaafaaaafaaaafaaaafaaaafaaaafaaaafaaaafaaaafaaaafaaaafaaaafaaaafaaaafaaaafaaaafaaaafaaaafaaaafaaaafaaaafaaaafaaaafaaaafaaaafaaaafaaaafaaaafaaaafaaaafaaaafaaaafaaaafaaaafaaaafaaaafaaaafaaaafaaaafaaaafaaaafaaaafaaaafaaaafaaaafaaaafaaaafaaaafaaaafaaaafaaaafaaaafaaaafaaaafaaaafaaaafaaaafaaaafaaaafaaaafaaaafaaaafaaaafaaaafaaaafaaaafaaaafaaaafaaaafaaaafaaaafaaaafaaaafaaaafaaaafaaaafaaaafaaaafaaaafaaaafaaaafaaaafaaaafaaaafaaaafaaaafaaaafaaaafaaaafaaaafaaaafaaaafaaaafaaaafaaaafaaaafaaaafaaaafaaaafaaaafaaaafaaaafaaaafaaaafaaaafaaaafaaaafaaaafaaaafaaaafaaaafaaaafaaaafaaaafaaaafaaaafaaaafaaaafaaaafaaaafaaaafaaaafaaaafaaaafaaaafaaaafaaaafaaaafaaaafaaaafaaaafaaaafaaaafaaaafaaaafaaaafaaaafaaaafaaaafaaaafaaaafaaaafaaaafaaaafaaaafaaaafaaaafaaaafaaaafaaaafaaaafaaaafaaaafaaaafaaaafaaaafaaaafaaaafaaaafaaaafaaaafaaaafaaaafaaaafaaaafaaaafaaaafaaaafaaaafaaaafaaaafaaaafaaaafaaaafaaaafaaaafaaaafaaaafaaaafaaaafaaaafaaaafaaaafaaaafaaaafaaaafaaaafaaaafaaaafaaaafaaaafaaaafaaaafaaaafaaaafaaaafaaaafaaaafaaaafaaaafaaaafaaaafaaaafaaaafaaaafaaaafaaaafaaaafaaaafaaaafaaaafaaaafaaaafaaaafaaaafaaaafaaaafaaaafaaaafaaaafaaaafaaaafaaaafaaaafaaaafaaaafaaaafaaaafaaaafaaaafaaaafaaaafaaaafaaaafaaaafaaaafaaaafaaaafaaaafaaaafaaaafaaaafaaaafaaaafaaaafaaaafaaaafaaaafaaaafaaaafaaaafaaaafaaaafaaaafaaaafaaaafaaaafaaaafaaaafaaaafaaaafaaaafaaaafaaaafaaaafaaaafaaaafaaaafaaaafaaaafaaaafaaaafaaaafaaaafaaaafaaaafaaaafaaaafaaaafaaaafaaaafaaaafaaaafaaaafaaaafaaaafaaaafaaaafaaaafaaaafaaaafaaaafaaaafaaaafaaaafaaaafaaaafaaaafaaaafaaaafaaaafaaaafaaaafaaaafaaaafaaaafaaaafaaaafaaaafaaaafaaaafaaaafaaaafaaaafaaaafaaaafaaaafaaaafaaaafaaaafaaaafaaaafaaaafaaaafaaaafaaaafaaaafaaaafaaaafaaaafaaaafaaaafaaaafaaaafaaaafaaaafaaaafaaaafaaaafaaaafaaaafaaaafaaaafaaaafaaaafaaaafaaaafaaaafaaaafaaaafaaaafaaaafaaaafaaaafaaaafaaaafaaaafaaaafaaaafaaaafaaaafaaaafaaaafaaaafaaaafaaaafaaaafaaaafaaaafaaaafaaaafaaaafaaaafaaaafaaaafaaaafaaaafaaaafaaaafaaaafaaaafaaaafaaaafaaaafaaaafaaaafaaaafaaaafaaaafaaaafaaaafaaaafaaaafaaaafaaaafaaaafaaaafaaaafaaaafaaaafaaaafaaaafaaaafaaaafaaaafaaaafaaaafaaaafaaaafaaaafaaaafaaaafaaaafaaaafaaaafaaaafaaaafaaaafaaaafaaaafaaaafaaaafaaaafaaaafaaaafaaaafaaaafaaaafaaaafaaaafaaaafaaaafaaaafaaaafaaaafaaaafaaaafaaaafaaaafaaaafaaaafaaaafaaaafaaaafaaaafaaaafaaaafaaaafaaaafaaaafaaaafaaaafaaaafaaaafaaaafaaaafaaaafaaaafaaaafaaaafaaaafaaaafaaaafaaaafaaaafaaaafaaaafaaaafaaaafaaaafaaaafaaaafaaaafaaaafaaaafaaaafaaaafaaaafaaaafaaaafaaaafaaaafaaaafaaaafaaaafaaaafaaaafaaaafaaaafaaaafaaaafaaaafaaaafaaaafaaaafaaaafaaaafaaaafaaaafaaaafaaaafaaaafaaaafaaaafaaaafaaaafaaaafaaaafaaaafaaaafaaaafaaaafaaaafaaaafaaaafaaaafaaaafaaaafaaaafaaaafaaaafaaaafaaaafaaaafaaaafaaaafaaaafaaaafaaaafaaaafaaaafaaaafaaaafaaaafaaaafaaaafaaaafaaaafaaaafaaaafaaaafaaaafaaaafaaaafaaaafaaaafaaaafaaaafaaaafaaaafaaaafaaaafaaaafaaaafaaaafaaaafaaaafaaaafaaaafaaaafaaaafaaaafaaaafaaaafaaaafaaaafaaaafaaaafaaaafaaaafaaaafaaaafaaaafaaaafaaaafaaaafaaaafaaaafaaaafaaaafaaaafaaaafaaaafaaaafaaaafaaaafaaaafaaaafaaaafaaaafaaaafaaaafaaaafaaaafaaaafaaaafaaaafaaaafaaaafaaaafaaaafaaaafaaaafaaaafaaaafaaaafaaaafaaaafaaaafaaaafaaaafaaaafaaaafaaaafaaaafaaaafaaaafaaaafaaaafaaaafaaaafaaaafaaaafaaaafaaaafaaaafaaaafaaaafaaaafaaaafaaaafaaaafaaaafaaaafaaaafaaaafaaaafaaaafaaaafaaaafaaaafaaaafaaaafaaaafaaaafaaaafaaaafaaaafaaaafaaaafaaaafaaaafaaaafaaaafaaaafaaaafaaaafaaaafaaaafaaaafaaaafaaaafaaaafaaaafaaaafaaaafaaaafaaaafaaaafaaaafaaaafaaaafaaaafaaaafaaaafaaaafaaaafaaaafaaaafaaaafaaaafaaaafaaaafaaaafaaaafaaaafaaaafaaaafaaaafaaaafaaaafaaaafaaaafaaaafaaaafaaaafaaaafaaaafaaaafaaaafaaaafaaaafaaaafaaaafaaaafaaaafaaaafaaaafaaaafaaaafaaaafaaaafaaaafaaaafaaaafaaaafaaaafaaaafaaaafaaaafaaaafaaaafaaaafaaaafaaaafaaaafaaaafaaaafaaaafaaaafaaaafaaaafaaaafaaaafaaaafaaaafaaaafaaaafaaaafaaaafaaaafaaaafaaaafaaaafaaaafaaaafaaaafaaaafaaaafaaaafaaaafaaaafaaaafaaaafaaaafaaaafaaaafaaaafaaaafaaaafaaaafaaaafaaaafaaaafaaaafaaaafaaaafaaaafaaaafaaaafaaaafaaaafaaaafaaaafaaaafaaaafaaaafaaaafaaaafaaaafaaaafaaaafaaaafaaaafaaaafaaaafaaaafaaaafaaaafaaaafaaaafaaaafaaaafaaaafaaaafaaaafaaaafaaaafaaaafaaaafaaaafaaaafaaaafaaaafaaaafaaaafaaaafaaaafaaaafaaaafaaaafaaaafaaaafaaaafaaaafaaaafaaaafaaaafaaaafaaaafaaaafaaaafaaaafaaaafaaaafaaaafaaaafaaaafaaaafaaaafaaaafaaaafaaaafaaaafaaaafaaaafaaaafaaaafaaaafaaaafaaaafaaaafaaaafaaaafaaaafaaaafaaaafaaaafaaaafaaaafaaaafaaaafaaaafaaaafaaaafaaaafaaaafaaaafaaaafaaaafaaaafaaaafaaaafaaaafaaaafaaaafaaaafaaaafaaaafaaaafaaaafaaaafaaaafaaaafaaaafaaaafaaaafaaaafaaaafaaaafaaaafaaaafaaaafaaaafaaaafaaaafaaaafaaaafaaaafaaaafaaaafaaaafaaaafaaaafaaaafaaaafaaaafaaaafaaaafaaaafaaaafaaaafaaaafaaaafaaaafaaaafaaaafaaaafaaaafaaaafaaaafaaaafaaaafaaaafaaaafaaaafaaaafaaaafaaaafaaaafaaaafaaaafaaaafaaaafaaaafaaaafaaaafaaaafaaaafaaaafaaaafaaaafaaaafaaaafaaaafaaaafaaaafaaaafaaaafaaaafaaaafaaaafaaaafaaaafaaaafaaaafaaaafaaaafaaaafaaaafaaaafaaaafaaaafaaaafaaaafaaaafaaaafaaaafaaaafaaaafaaaafaaaafaaaafaaaafaaaafaaaafaaaafaaaafaaaafaaaafaaaafaaaafaaaafaaaafaaaafaaaafaaaafaaaafaaaafaaaafaaaafaaaafaaaafaaaafaaaafaaaafaaaafaaaafaaaafaaaafaaaafaaaafaaaafaaaafaaaafaaaafaaaafaaaafaaaafaaaafaaaafaaaafaaaafaaaafaaaafaaaafaaaafaaaafaaaafaaaafaaaafaaaafaaaafaaaafaaaafaaaafaaaafaaaafaaaafaaaafaaaafaaaafaaaafaaaafaaaafaaaafaaaafaaaafaaaafaaaafaaaafaaaafaaaafaaaafaaaafaaaafaaaafaaaafaaaafaaaafaaaafaaaafaaaafaaaafaaaafaaaafaaaafaaaafaaaafaaaafaaaafaaaafaaaafaaaafaaaafaaaafaaaafaaaafaaaafaaaafaaaafaaaafaaaafaaaafaaaafaaaafaaaafaaaafaaaafaaaafaaaafaaaafaaaafaaaafaaaafaaaafaaaafaaaafaaaafaaaafaaaafaaaafaaaafaaaafaaaafaaaafaaaafaaaafaaaafaaaafaaaafaaaafaaaafaaaafaaaafaaaafaaaafaaaafaaaafaaaafaaaafaaaafaaaafaaaafaaaafaaaafaaaafaaaafaaaafaaaafaaaafaaaafaaaafaaaafaaaafaaaafaaaafaaaafaaaafaaaafaaaafaaaafaaaafaaaafaaaafaaaafaaaafaaaafaaaafaaaafaaaafaaaafaaaafaaaafaaaafaaaafaaaafaaaafaaaafaaaafaaaafaaaafaaaafaaaafaaaafaaaafaaaafaaaafaaaafaaaafaaaafaaaafaaaafaaaafaaaafaaaafaaaafaaaafaaaafaaaafaaaafaaaafaaaafaaaafaaaafaaaafaaaafaaaafaaaafaaaafaaaafaaaafaaaafaaaafaaaafaaaafaaaafaaaafaaaafaaaafaaaafaaaafaaaafaaaafaaaafaaaafaaaafaaaafaaaafaaaafaaaafaaaafaaaafaaaafaaaafaaaafaaaafaaaafaaaafaaaafaaaafaaaafaaaafaaaafaaaafaaaafaaaafaaaafaaaafaaaafaaaafaaaafaaaafaaaafaaaafaaaafaaaafaaaafaaaafaaaafaaaafaaaafaaaafaaaafaaaafaaaafaaaafaaaafaaaafaaaafaaaafaaaafaaaafaaaafaaaafaaaafaaaafaaaafaaaafaaaafaaaafaaaafaaaafaaaafaaaafaaaafaaaafaaaafaaaafaaaafaaaafaaaafaaaafaaaafaaaafaaaafaaaafaaaafaaaafaaaafaaaafaaaafaaaafaaaafaaaafaaaafaaaafaaaafaaaafaaaafaaaafaaaafaaaafaaaafaaaafaaaafaaaafaaaafaaaafaaaafaaaafaaaafaaaafaaaafaaaafaaaafaaaafaaaafaaaafaaaafaaaafaaaafaaaafaaaafaaaafaaaafaaaafaaaafaaaafaaaafaaaafaaaafaaaafaaaafaaaafaaaafaaaafaaaafaaaafaaaafaaaafaaaafaaaafaaaafaaaafaaaafaaaafaaaafaaaafaaaafaaaafaaaafaaaafaaaafaaaafaaaafaaaafaaaafaaaafaaaafaaaafaaaafaaaafaaaafaaaafaaaafaaaafaaaafaaaafaaaafaaaafaaaafaaaafaaaafaaaafaaaafaaaafaaaafaaaafaaaafaaaafaaaafaaaafaaaafaaaafaaaafaaaafaaaafaaaafaaaafaaaafaaaafaaaafaaaafaaaafaaaafaaaafaaaafaaaafaaaafaaaafaaaafaaaafaaaafaaaafaaaafaaaafaaaafaaaafaaaafaaaafaaaafaaaafaaaafaaaafaaaafaaaafaaaafaaaafaaaafaaaafaaaafaaaafaaaafaaaafaaaafaaaafaaaafaaaafaaaafaaaafaaaafaaaafaaaafaaaafaaaafaaaafaaaafaaaafaaaafaaaafaaaafaaaafaaaafaaaafaaaafaaaafaaaafaaaafaaaafaaaafaaaafaaaafaaaafaaaafaaaafaaaafaaaafaaaafaaaafaaaafaaaafaaaafaaaafaaaafaaaafaaaafaaaafaaaafaaaafaaaafaaaafaaaafaaaafaaaafaaaafaaaafaaaafaaaafaaaafaaaafaaaafaaaafaaaafaaaafaaaafaaaafaaaafaaaafaaaafaaaafaaaafaaaafaaaafaaaafaaaafaaaafaaaafaaaafaaaafaaaafaaaafaaaafaaaafaaaafaaaafaaaafaaaafaaaafaaaafaaaafaaaafaaaafaaaafaaaafaaaafaaaafaaaafaaaafaaaafaaaafaaaafaaaafaaaafaaaafaaaafaaaafaaaafaaaafaaaafaaaafaaaafaaaafaaaafaaaafaaaafaaaafaaaafaaaafaaaafaaaafaaaafaaaafaaaafaaaafaaaafaaaafaaaafaaaafaaaafaaaafaaaafaaaafaaaafaaaafaaaafaaaafaaaafaaaafaaaafaaaafaaaafaaaafaaaafaaaafaaaafaaaafaaaafaaaafaaaafaaaafaaaafaaaafaaaafaaaafaaaafaaaafaaaafaaaafaaaafaaaafaaaafaaaafaaaafaaaafaaaafaaaafaaaafaaaafaaaafaaaafaaaafaaaafaaaafaaaafaaaafaaaafaaaafaaaafaaaafaaaafaaaafaaaafaaaafaaaafaaaafaaaafaaaafaaaafaaaafaaaafaaaafaaaafaaaafaaaafaaaafaaaafaaaafaaaafaaaafaaaafaaaafaaaafaaaafaaaafaaaafaaaafaaaafaaaafaaaafaaaafaaaafaaaafaaaafaaaafaaaafaaaafaaaafaaaafaaaafaaaafaaaafaaaafaaaafaaaafaaaafaaaafaaaafaaaafaaaafaaaafaaaafaaaafaaaafaaaafaaaafaaaafaaaafaaaafaaaafaaaafaaaafaaaafaaaafaaaafaaaafaaaafaaaafaaaafaaaafaaaafaaaafaaaafaaaafaaaafaaaafaaaafaaaafaaaafaaaafaaaafaaaafaaaafaaaafaaaafaaaafaaaafaaaafaaaafaaaafaaaafaaaafaaaafaaaafaaaafaaaafaaaafaaaafaaaafaaaafaaaafaaaafaaaafaaaafaaaafaaaafaaaafaaaafaaaafaaaafaaaafaaaafaaaafaaaafaaaafaaaafaaaafaaaafaaaafaaaafaaaafaaaafaaaafaaaafaaaafaaaafaaaafaaaafaaaafaaaafaaaafaaaafaaaafaaaafaaaafaaaafaaaafaaaafaaaafaaaafaaaafaaaafaaaafaaaafaaaafaaaafaaaafaaaafaaaafaaaafaaaafaaaafaaaafaaaafaaaafaaaafaaaafaaaafaaaafaaaafaaaafaaaafaaaafaaaafaaaafaaaafaaaafaaaafaaaafaaaafaaaafaaaafaaaafaaaafaaaafaaaafaaaafaaaafaaaafaaaafaaaafaaaafaaaafaaaafaaaafaaaafaaaafaaaafaaaafaaaafaaaafaaaafaaaafaaaafaaaafaaaafaaaafaaaafaaaafaaaafaaaafaaaafaaaafaaaafaaaafaaaafaaaafaaaafaaaafaaaafaaaafaaaafaaaafaaaafaaaafaaaafaaaafaaaafaaaafaaaafaaaafaaaafaaaafaaaafaaaafaaaafaaaafaaaafaaaafaaaafaaaafaaaafaaaafaaaafaaaafaaaafaaaafaaaafaaaafaaaafaaaafaaaafaaaafaaaafaaaafaaaafaaaafaaaafaaaafaaaafaaaafaaaafaaaafaaaafaaaafaaaafaaaafaaaafaaaafaaaafaaaafaaaafaaaafaaaafaaaafaaaafaaaafaaaafaaaafaaaafaaaafaaaafaaaafaaaafaaaafaaaafaaaafaaaafaaaafaaaafaaaafaaaafaaaafaaaafaaaafaaaafaaaafaaaafaaaafaaaafaaaafaaaafaaaafaaaafaaaafaaaafaaaafaaaafaaaafaaaafaaaafaaaafaaaafaaaafaaaafaaaafaaaafaaaafaaaafaaaafaaaafaaaafaaaafaaaafaaaafaaaafaaaafaaaafaaaafaaaafaaaafaaaafaaaafaaaafaaaafaaaafaaaafaaaafaaaafaaaafaaaafaaaafaaaafaaaafaaaafaaaafaaaafaaaafaaaafaaaafaaaafaaaafaaaafaaaafaaaafaaaafaaaafaaaafaaaafaaaafaaaafaaaafaaaafaaaafaaaafaaaafaaaafaaaafaaaafaaaafaaaafaaaafaaaafaaaafaaaafaaaafaaaafaaaafaaaafaaaafaaaafaaaafaaaafaaaafaaaafaaaafaaaafaaaafaaaafaaaafaaaafaaaafaaaafaaaafaaaafaaaafaaaafaaaafaaaafaaaafaaaafaaaafaaaafaaaafaaaafaaaafaaaafaaaafaaaafaaaafaaaafaaaafaaaafaaaafaaaafaaaafaaaafaaaafaaaafaaaafaaaafaaaafaaaafaaaafaaaafaaaafaaaafaaaafaaaafaaaafaaaafaaaafaaaafaaaafaaaafaaaafaaaafaaaafaaaafaaaafaaaafaaaafaaaafaaaafaaaafaaaafaaaafaaaafaaaafaaaafaaaafaaaafaaaafaaaafaaaafaaaafaaaafaaaafaaaafaaaafaaaafaaaafaaaafaaaafaaaafaaaafaaaafaaaafaaaafaaaafaaaafaaaafaaaafaaaafaaaafaaaafaaaafaaaafaaaafaaaafaaaafaaaafaaaafaaaafaaaafaaaafaaaafaaaafaaaafaaaafaaaafaaaafaaaafaaaafaaaafaaaafaaaafaaaafaaaafaaaafaaaafaaaafaaaafaaaafaaaafaaaafaaaafaaaafaaaafaaaafaaaafaaaafaaaafaaaafaaaafaaaafaaaafaaaafaaaafaaaafaaaafaaaafaaaafaaaafaaaafaaaafaaaafaaaafaaaafaaaafaaaafaaaafaaaafaaaafaaaafaaaafaaaafaaaafaaaafaaaafaaaafaaaafaaaafaaaafaaaafaaaafaaaafaaaafaaaafaaaafaaaafaaaafaaaafaaaafaaaafaaaafaaaafaaaafaaaafaaaafaaaafaaaafaaaafaaaafaaaafaaaafaaaafaaaafaaaafaaaafaaaafaaaafaaaafaaaafaaaafaaaafaaaafaaaafaaaafaaaafaaaafaaaafaaaafaaaafaaaafaaaafaaaafaaaafaaaafaaaafaaaafaaaafaaaafaaaafaaaafaaaafaaaafaaaafaaaafaaaafaaaafaaaafaaaafaaaafaaaafaaaafaaaafaaaafaaaafaaaafaaaafaaaafaaaafaaaafaaaafaaaafaaaafaaaafaaaafaaaafaaaafaaaafaaaafaaaafaaaafaaaafaaaafaaaafaaaafaaaafaaaafaaaafaaaafaaaafaaaafaaaafaaaafaaaafaaaafaaaafaaaafaaaafaaaafaaaafaaaafaaaafaaaafaaaafaaaafaaaafaaaafaaaafaaaafaaaafaaaafaaaafaaaafaaaafaaaafaaaafaaaafaaaafaaaafaaaafaaaafaaaafaaaafaaaafaaaafaaaafaaaafaaaafaaaafaaaafaaaafaaaafaaaafaaaafaaaafaaaafaaaafaaaafaaaafaaaafaaaafaaaafaaaafaaaafaaaafaaaafaaaafaaaafaaaafaaaafaaaafaaaafaaaafaaaafaaaafaaaafaaaafaaaafaaaafaaaafaaaafaaaafaaaafaaaafaaaafaaaafaaaafaaaafaaaafaaaafaaaafaaaafaaaafaaaafaaaafaaaafaaaafaaaafaaaafaaaafaaaafaaaafaaaafaaaafaaaafaaaafaaaafaaaafaaaafaaaafaaaafaaaafaaaafaaaafaaaafaaaafaaaafaaaafaaaafaaaafaaaafaaaafaaaafaaaafaaaafaaaafaaaafaaaafaaaafaaaafaaaafaaaafaaaafaaaafaaaafaaaafaaaafaaaafaaaafaaaafaaaafaaaafaaaafaaaafaaaafaaaafaaaafaaaafaaaafaaaafaaaafaaaafaaaafaaaafaaaafaaaafaaaafaaaafaaaafaaaafaaaafaaaafaaaafaaaafaaaafaaaafaaaafaaaafaaaafaaaafaaaafaaaafaaaafaaaafaaaafaaaafaaaafaaaafaaaafaaaafaaaafaaaafaaaafaaaafaaaafaaaafaaaafaaaafaaaafaaaafaaaafaaaafaaaafaaaafaaaafaaaafaaaafaaaafaaaafaaaafaaaafaaaafaaaafaaaafaaaafaaaafaaaafaaaafaaaafaaaafaaaafaaaafaaaafaaaafaaaafaaaafaaaafaaaafaaaafaaaafaaaafaaaafaaaafaaaafaaaafaaaafaaaafaaaafaaaafaaaafaaaafaaaafaaaafaaaafaaaafaaaafaaaafaaaafaaaafaaaafaaaafaaaafaaaafaaaafaaaafaaaafaaaafaaaafaaaafaaaafaaaafaaaafaaaafaaaafaaaafaaaafaaaafaaaafaaaafaaaafaaaafaaaafaaaafaaaafaaaafaaaafaaaafaaaafaaaafaaaafaaaafaaaafaaaafaaaafaaaafaaaafaaaafaaaafaaaafaaaafaaaafaaaafaaaafaaaafaaaafaaaafaaaafaaaafaaaafaaaafaaaafaaaafaaaafaaaafaaaafaaaafaaaafaaaafaaaafaaaafaaaafaaaafaaaafaaaafaaaafaaaafaaaafaaaafaaaafaaaafaaaafaaaafaaaafaaaafaaaafaaaafaaaafaaaafaaaafaaaafaaaafaaaafaaaafaaaafaaaafaaaafaaaafaaaafaaaafaaaafaaaafaaaafaaaafaaaafaaaafaaaafaaaafaaaafaaaafaaaafaaaafaaaafaaaafaaaafaaaafaaaafaaaafaaaafaaaafaaaafaaaafaaaafaaaafaaaafaaaafaaaafaaaafaaaafaaaafaaaafaaaafaaaafaaaafaaaafaaaafaaaafaaaafaaaafaaaafaaaafaaaafaaaafaaaafaaaafaaaafaaaafaaaafaaaafaaaafaaaafaaaafaaaafaaaafaaaafaaaafaaaafaaaafaaaafaaaafaaaafaaaafaaaafaaaafaaaafaaaafaaaafaaaafaaaafaaaafaaaafaaaafaaaafaaaafaaaafaaaafaaaafaaaafaaaafaaaafaaaafaaaafaaaafaaaafaaaafaaaafaaaafaaaafaaaafaaaafaaaafaaaafaaaafaaaafaaaafaaaafaaaafaaaafaaaafaaaafaaaafaaaafaaaafaaaafaaaafaaaafaaaafaaaafaaaafaaaafaaaafaaaafaaaafaaaafaaaafaaaafaaaafaaaafaaaafaaaafaaaafaaaafaaaafaaaafaaaafaaaafaaaafaaaafaaaafaaaafaaaafaaaafaaaafaaaafaaaafaaaafaaaafaaaafaaaafaaaafaaaafaaaafaaaafaaaafaaaafaaaafaaaafaaaafaaaafaaaafaaaafaaaafaaaafaaaafaaaafaaaafaaaafaaaafaaaafaaaafaaaafaaaafaaaafaaaafaaaafaaaafaaaafaaaafaaaafaaaafaaaafaaaafaaaafaaaafaaaafaaaafaaaafaaaafaaaafaaaafaaaafaaaafaaaafaaaafaaaafaaaafaaaafaaaafaaaafaaaafaaaafaaaafaaaafaaaafaaaafaaaafaaaafaaaafaaaafaaaafaaaafaaaafaaaafaaaafaaaafaaaafaaaafaaaafaaaafaaaafaaaafaaaafaaaafaaaafaaaafaaaafaaaafaaaafaaaafaaaafaaaafaaaafaaaafaaaafaaaafaaaafaaaafaaaafaaaafaaaafaaaafaaaafaaaafaaaafaaaafaaaafaaaafaaaafaaaafaaaafaaaafaaaafaaaafaaaafaaaafaaaafaaaafaaaafaaaafaaaafaaaafaaaafaaaafaaaafaaaafaaaafaaaafaaaafaaaafaaaafaaaafaaaafaaaafaaaafaaaafaaaafaaaafaaaafaaaafaaaafaaaafaaaafaaaafaaaafaaaafaaaafaaaafaaaafaaaafaaaafaaaafaaaafaaaafaaaafaaaafaaaafaaaafaaaafaaaafaaaafaaaafaaaafaaaafaaaafaaaafaaaafaaaafaaaafaaaafaaaafaaaafaaaafaaaafaaaafaaaafaaaafaaaafaaaafaaaafaaaafaaaafaaaafaaaafaaaafaaaafaaaafaaaafaaaafaaaafaaaafaaaafaaaafaaaafaaaafaaaafaaaafaaaafaaaafaaaafaaaafaaaafaaaafaaaafaaaafaaaafaaaafaaaafaaaafaaaafaaaafaaaafaaaafaaaafaaaafaaaafaaaafaaaafaaaafaaaafaaaafaaaafaaaafaaaafaaaafaaaafaaaafaaaafaaaafaaaafaaaafaaaafaaaafaaaafaaaafaaaafaaaafaaaafaaaafaaaafaaaafaaaafaaaafaaaafaaaafaaaafaaaafaaaafaaaafaaaafaaaafaaaafaaaafaaaafaaaafaaaafaaaafaaaafaaaafaaaafaaaafaaaafaaaafaaaafaaaafaaaafaaaafaaaafaaaafaaaafaaaafaaaafaaaafaaaafaaaafaaaafaaaafaaaafaaaafaaaafaaaafaaaafaaaafaaaafaaaafaaaafaaaafaaaafaaaafaaaafaaaafaaaafaaaafaaaafaaaafaaaafaaaafaaaafaaaafaaaafaaaafaaaafaaaafaaaafaaaafaaaafaaaafaaaafaaaafaaaafaaaafaaaafaaaafaaaafaaaafaaaafaaaafaaaafaaaafaaaafaaaafaaaafaaaafaaaafaaaafaaaafaaaafaaaafaaaafaaaafaaaafaaaafaaaafaaaafaaaafaaaafaaaafaaaafaaaafaaaafaaaafaaaafaaaafaaaafaaaafaaaafaaaafaaaafaaaafaaaafaaaafaaaafaaaafaaaafaaaafaaaafaaaafaaaafaaaafaaaafaaaafaaaafaaaafaaaafaaaafaaaafaaaafaaaafaaaafaaaafaaaafaaaafaaaafaaaafaaaafaaaafaaaafaaaafaaaafaaaafaaaafaaaafaaaafaaaafaaaafaaaafaaaafaaaafaaaafaaaafaaaafaaaafaaaafaaaafaaaafaaaafaaaafaaaafaaaafaaaafaaaafaaaafaaaafaaaafaaaafaaaafaaaafaaaafaaaafaaaafaaaafaaaafaaaafaaaafaaaafaaaafaaaafaaaafaaaafaaaafaaaafaaaafaaaafaaaafaaaafaaaafaaaafaaaafaaaafaaaafaaaafaaaafaaaafaaaafaaaafaaaafaaaafaaaafaaaafaaaafaaaafaaaafaaaafaaaafaaaafaaaafaaaafaaaafaaaafaaaafaaaafaaaafaaaafaaaafaaaafaaaafaaaafaaaafaaaafaaaafaaaafaaaafaaaafaaaafaaaafaaaafaaaafaaaafaaaafaaaafaaaafaaaafaaaafaaaafaaaafaaaafaaaafaaaafaaaafaaaafaaaafaaaafaaaafaaaafaaaafaaaafaaaafaaaafaaaafaaaafaaaafaaaafaaaafaaaafaaaafaaaafaaaafaaaafaaaafaaaafaaaafaaaafaaaafaaaafaaaafaaaafaaaafaaaafaaaafaaaafaaaafaaaafaaaafaaaafaaaafaaaafaaaafaaaafaaaafaaaafaaaafaaaafaaaafaaaafaaaafaaaafaaaafaaaafaaaafaaaafaaaafaaaafaaaafaaaafaaaafaaaafaaaafaaaafaaaafaaaafaaaafaaaafaaaafaaaafaaaafaaaafaaaafaaaafaaaafaaaafaaaafaaaafaaaafaaaafaaaafaaaafaaaafaaaafaaaafaaaafaaaafaaaafaaaafaaaafaaaafaaaafaaaafaaaafaaaafaaaafaaaafaaaafaaaafaaaafaaaafaaaafaaaafaaaafaaaafaaaafaaaafaaaafaaaafaaaafaaaafaaaafaaaafaaaafaaaafaaaafaaaafaaaafaaaafaaaafaaaafaaaafaaaafaaaafaaaafaaaafaaaafaaaafaaaafaaaafaaaafaaaafaaaafaaaafaaaafaaaafaaaafaaaafaaaafaaaafaaaafaaaafaaaafaaaafaaaafaaaafaaaafaaaafaaaafaaaafaaaafaaaafaaaafaaaafaaaafaaaafaaaafaaaafaaaafaaaafaaaafaaaafaaaafaaaafaaaafaaaafaaaafaaaafaaaafaaaafaaaafaaaafaaaafaaaafaaaafaaaafaaaafaaaafaaaafaaaafaaaafaaaafaaaafaaaafaaaafaaaafaaaafaaaafaaaafaaaafaaaafaaaafaaaafaaaafaaaafaaaafaaaafaaaafaaaafaaaafaaaafaaaafaaaafaaaafaaaafaaaafaaaafaaaafaaaafaaaafaaaafaaaafaaaafaaaafaaaafaaaafaaaafaaaafaaaafaaaafaaaafaaaafaaaafaaaafaaaafaaaafaaaafaaaafaaaafaaaafaaaafaaaafaaaafaaaafaaaafaaaafaaaafaaaafaaaafaaaafaaaafaaaafaaaafaaaafaaaafaaaafaaaafaaaafaaaafaaaafaaaafaaaafaaaafaaaafaaaafaaaafaaaafaaaafaaaafaaaafaaaafaaaafaaaafaaaafaaaafaaaafaaaafaaaafaaaafaaaafaaaafaaaafaaaafaaaafaaaafaaaafaaaafaaaafaaaafaaaafaaaafaaaafaaaafaaaafaaaafaaaafaaaafaaaafaaaafaaaafaaaafaaaafaaaafaaaafaaaafaaaafaaaafaaaafaaaafaaaafaaaafaaaafaaaafaaaafaaaafaaaafaaaafaaaafaaaafaaaafaaaafaaaafaaaafaaaafaaaafaaaafaaaafaaaafaaaafaaaafaaaafaaaafaaaafaaaafaaaafaaaafaaaafaaaafaaaafaaaafaaaafaaaafaaaafaaaafaaaafaaaafaaaafaaaafaaaafaaaafaaaafaaaafaaaafaaaafaaaafaaaafaaaafaaaafaaaafaaaafaaaafaaaafaaaafaaaafaaaafaaaafaaaafaaaafaaaafaaaafaaaafaaaafaaaafaaaafaaaafaaaafaaaafaaaafaaaafaaaafaaaafaaaafaaaafaaaafaaaafaaaafaaaafaaaafaaaafaaaafaaaafaaaafaaaafaaaafaaaafaaaafaaaafaaaafaaaafaaaafaaaafaaaafaaaafaaaafaaaafaaaafaaaafaaaafaaaafaaaafaaaafaaaafaaaafaaaafaaaafaaaafaaaafaaaafaaaafaaaafaaaafaaaafaaaafaaaafaaaafaaaafaaaafaaaafaaaafaaaafaaaafaaaafaaaafaaaafaaaafaaaafaaaafaaaafaaaafaaaafaaaafaaaafaaaafaaaafaaaafaaaafaaaafaaaafaaaafaaaafaaaafaaaafaaaafaaaafaaaafaaaafaaaafaaaafaaaafaaaafaaaafaaaafaaaafaaaafaaaafaaaafaaaafaaaafaaaafaaaafaaaafaaaafaaaafaaaafaaaafaaaafaaaafaaaafaaaafaaaafaaaafaaaafaaaafaaaafaaaafaaaafaaaafaaaafaaaafaaaafaaaafaaaafaaaafaaaafaaaafaaaafaaaafaaaafaaaafaaaafaaaafaaaafaaaafaaaafaaaafaaaafaaaafaaaafaaaafaaaafaaaafaaaafaaaafaaaafaaaafaaaafaaaafaaaafaaaafaaaafaaaafaaaafaaaafaaaafaaaafaaaafaaaafaaaafaaaafaaaafaaaafaaaafaaaafaaaafaaaafaaaafaaaafaaaafaaaafaaaafaaaafaaaafaaaafaaaafaaaafaaaafaaaafaaaafaaaafaaaafaaaafaaaafaaaafaaaafaaaafaaaafaaaafaaaafaaaafaaaafaaaafaaaafaaaafaaaafaaaafaaaafaaaafaaaafaaaafaaaafaaaafaaaafaaaafaaaafaaaafaaaafaaaafaaaafaaaafaaaafaaaafaaaafaaaafaaaafaaaafaaaafaaaafaaaafaaaafaaaafaaaafaaaafaaaafaaaafaaaafaaaafaaaafaaaafaaaafaaaafaaaafaaaafaaaafaaaafaaaafaaaafaaaafaaaafaaaafaaaafaaaafaaaafaaaafaaaafaaaafaaaafaaaafaaaafaaaafaaaafaaaafaaaafaaaafaaaafaaaafaaaafaaaafaaaafaaaafaaaafaaaafaaaafaaaafaaaafaaaafaaaafaaaafaaaafaaaafaaaafaaaafaaaafaaaafaaaafaaaafaaaafaaaafaaaafaaaafaaaafaaaafaaaafaaaafaaaafaaaafaaaafaaaafaaaafaaaafaaaafaaaafaaaafaaaafaaaafaaaafaaaafaaaafaaaafaaaafaaaafaaaafaaaafaaaafaaaafaaaafaaaafaaaafaaaafaaaafaaaafaaaafaaaafaaaafaaaafaaaafaaaafaaaafaaaafaaaafaaaafaaaafaaaafaaaafaaaafaaaafaaaafaaaafaaaafaaaafaaaafaaaafaaaafaaaafaaaafaaaafaaaafaaaafaaaafaaaafaaaafaaaafaaaafaaaafaaaafaaaafaaaafaaaafaaaafaaaafaaaafaaaafaaaafaaaafaaaafaaaafaaaafaaaafaaaafaaaafaaaafaaaafaaaafaaaafaaaafaaaafaaaafaaaafaaaafaaaafaaaafaaaafaaaafaaaafaaaafaaaafaaaafaaaafaaaafaaaafaaaafaaaafaaaafaaaafaaaafaaaafaaaafaaaafaaaafaaaafaaaafaaaafaaaafaaaafaaaafaaaafaaaafaaaafaaaafaaaafaaaafaaaafaaaafaaaafaaaafaaaafaaaafaaaafaaaafaaaafaaaafaaaafaaaafaaaafaaaafaaaafaaaafaaaafaaaafaaaafaaaafaaaafaaaafaaaafaaaafaaaafaaaafaaaafaaaafaaaafaaaafaaaafaaaafaaaafaaaafaaaafaaaafaaaafaaaafaaaafaaaafaaaafaaaafaaaafaaaafaaaafaaaafaaaafaaaafaaaafaaaafaaaafaaaafaaaafaaaafaaaafaaaafaaaafaaaafaaaafaaaafaaaafaaaafaaaafaaaafaaaafaaaafaaaafaaaafaaaafaaaafaaaafaaaafaaaafaaaafaaaafaaaafaaaafaaaafaaaafaaaafaaaafaaaafaaaafaaaafaaaafaaaafaaaafaaaafaaaafaaaafaaaafaaaafaaaafaaaafaaaafaaaafaaaafaaaafaaaafaaaafaaaafaaaafaaaafaaaafaaaafaaaafaaaafaaaafaaaafaaaafaaaafaaaafaaaafaaaafaaaafaaaafaaaafaaaafaaaafaaaafaaaafaaaafaaaafaaaafaaaafaaaafaaaafaaaafaaaafaaaafaaaafaaaafaaaafaaaafaaaafaaaafaaaafaaaafaaaafaaaafaaaafaaaafaaaafaaaafaaaafaaaafaaaafaaaafaaaafaaaafaaaafaaaafaaaafaaaafaaaafaaaafaaaafaaaafaaaafaaaafaaaafaaaafaaaafaaaafaaaafaaaafaaaafaaaafaaaafaaaafaaaafaaaafaaaafaaaafaaaafaaaafaaaafaaaafaaaafaaaafaaaafaaaafaaaafaaaafaaaafaaaafaaaafaaaafaaaafaaaafaaaafaaaafaaaafaaaafaaaafaaaafaaaafaaaafaaaafaaaafaaaafaaaafaaaafaaaafaaaafaaaafaaaafaaaafaaaafaaaafaaaafaaaafaaaafaaaafaaaafaaaafaaaafaaaafaaaafaaaafaaaafaaaafaaaafaaaafaaaafaaaafaaaafaaaafaaaafaaaafaaaafaaaafaaaafaaaafaaaafaaaafaaaafaaaafaaaafaaaafaaaafaaaafaaaafaaaafaaaafaaaafaaaafaaaafaaaafaaaafaaaafaaaafaaaafaaaafaaaafaaaafaaaafaaaafaaaafaaaafaaaafaaaafaaaafaaaafaaaafaaaafaaaafaaaafaaaafaaaafaaaafaaaafaaaafaaaafaaaafaaaafaaaafaaaafaaaafaaaafaaaafaaaafaaaafaaaafaaaafaaaafaaaafaaaafaaaafaaaafaaaafaaaafaaaafaaaafaaaafaaaafaaaafaaaafaaaafaaaafaaaafaaaafaaaafaaaafaaaafaaaafaaaafaaaafaaaafaaaafaaaafaaaafaaaafaaaafaaaafaaaafaaaafaaaafaaaafaaaafaaaafaaaafaaaafaaaafaaaafaaaafaaaafaaaafaaaafaaaafaaaafaaaafaaaafaaaafaaaafaaaafaaaafaaaafaaaafaaaafaaaafaaaafaaaafaaaafaaaafaaaafaaaafaaaafaaaafaaaafaaaafaaaafaaaafaaaafaaaafaaaafaaaafaaaafaaaafaaaafaaaafaaaafaaaafaaaafaaaafaaaafaaaafaaaafaaaafaaaafaaaafaaaafaaaafaaaafaaaafaaaafaaaafaaaafaaaafaaaafaaaafaaaafaaaafaaaafaaaafaaaafaaaafaaaafaaaafaaaafaaaafaaaafaaaafaaaafaaaafaaaafaaaafaaaafaaaafaaaafaaaafaaaafaaaafaaaafaaaafaaaafaaaafaaaafaaaafaaaafaaaafaaaafaaaafaaaafaaaafaaaafaaaafaaaafaaaafaaaafaaaafaaaafaaaafaaaafaaaafaaaafaaaafaaaafaaaafaaaafaaaafaaaafaaaafaaaafaaaafaaaafaaaafaaaafaaaafaaaafaaaafaaaafaaaafaaaafaaaafaaaafaaaafaaaafaaaafaaaafaaaafaaaafaaaafaaaafaaaafaaaafaaaafaaaafaaaafaaaafaaaafaaaafaaaafaaaafaaaafaaaafaaaafaaaafaaaafaaaafaaaafaaaafaaaafaaaafaaaafaaaafaaaafaaaafaaaafaaaafaaaafaaaafaaaafaaaafaaaafaaaafaaaafaaaafaaaafaaaafaaaafaaaafaaaafaaaafaaaafaaaafaaaafaaaafaaaafaaaafaaaafaaaafaaaafaaaafaaaafaaaafaaaafaaaafaaaafaaaafaaaafaaaafaaaafaaaafaaaafaaaafaaaafaaaafaaaafaaaafaaaafaaaafaaaafaaaafaaaafaaaafaaaafaaaafaaaafaaaafaaaafaaaafaaaafaaaafaaaafaaaafaaaafaaaafaaaafaaaafaaaafaaaafaaaafaaaafaaaafaaaafaaaafaaaafaaaafaaaafaaaafaaaafaaaafaaaafaaaafaaaafaaaafaaaafaaaafaaaafaaaafaaaafaaaafaaaafaaaafaaaafaaaafaaaafaaaafaaaafaaaafaaaafaaaafaaaafaaaafaaaafaaaafaaaafaaaafaaaafaaaafaaaafaaaafaaaafaaaafaaaafaaaafaaaafaaaafaaaafaaaafaaaafaaaafaaaafaaaafaaaafaaaafaaaafaaaafaaaafaaaafaaaafaaaafaaaafaaaafaaaafaaaafaaaafaaaafaaaafaaaafaaaafaaaafaaaafaaaafaaaafaaaafaaaafaaaafaaaafaaaafaaaafaaaafaaaafaaaafaaaafaaaafaaaafaaaafaaaafaaaafaaaafaaaafaaaafaaaafaaaafaaaafaaaafaaaafaaaafaaaafaaaafaaaafaaaafaaaafaaaafaaaafaaaafaaaafaaaafaaaafaaaafaaaafaaaafaaaafaaaafaaaafaaaafaaaafaaaafaaaafaaaafaaaafaaaafaaaafaaaafaaaafaaaafaaaafaaaafaaaafaaaafaaaafaaaafaaaafaaaafaaaafaaaafaaaafaaaafaaaafaaaafaaaafaaaafaaaafaaaafaaaafaaaafaaaafaaaafaaaafaaaafaaaafaaaafaaaafaaaafaaaafaaaafaaaafaaaafaaaafaaaafaaaafaaaafaaaafaaaafaaaafaaaafaaaafaaaafaaaafaaaafaaaafaaaafaaaafaaaafaaaafaaaafaaaafaaaafaaaafaaaafaaaafaaaafaaaafaaaafaaaafaaaafaaaafaaaafaaaafaaaafaaaafaaaafaaaafaaaafaaaafaaaafaaaafaaaafaaaafaaaafaaaafaaaafaaaafaaaafaaaafaaaafaaaafaaaafaaaafaaaafaaaafaaaafaaaafaaaafaaaafaaaafaaaafaaaafaaaafaaaafaaaafaaaafaaaafaaaafaaaafaaaafaaaafaaaafaaaafaaaafaaaafaaaafaaaafaaaafaaaafaaaafaaaafaaaafaaaafaaaafaaaafaaaafaaaafaaaafaaaafaaaafaaaafaaaafaaaafaaaafaaaafaaaafaaaafaaaafaaaafaaaafaaaafaaaafaaaafaaaafaaaafaaaafaaaafaaaafaaaafaaaafaaaafaaaafaaaafaaaafaaaafaaaafaaaafaaaafaaaafaaaafaaaafaaaafaaaafaaaafaaaafaaaafaaaafaaaafaaaafaaaafaaaafaaaafaaaafaaaafaaaafaaaafaaaafaaaafaaaafaaaafaaaafaaaafaaaafaaaafaaaafaaaafaaaafaaaafaaaafaaaafaaaafaaaafaaaafaaaafaaaafaaaafaaaafaaaafaaaafaaaafaaaafaaaafaaaafaaaafaaaafaaaafaaaafaaaafaaaafaaaafaaaafaaaafaaaafaaaafaaaafaaaafaaaafaaaafaaaafaaaafaaaafaaaafaaaafaaaafaaaafaaaafaaaafaaaafaaaafaaaafaaaafaaaafaaaafaaaafaaaafaaaafaaaafaaaafaaaafaaaafaaaafaaaafaaaafaaaafaaaafaaaafaaaafaaaafaaaafaaaafaaaafaaaafaaaafaaaafaaaafaaaafaaaafaaaafaaaafaaaafaaaafaaaafaaaafaaaafaaaafaaaafaaaafaaaafaaaafaaaafaaaafaaaafaaaafaaaafaaaafaaaafaaaafaaaafaaaafaaaafaaaafaaaafaaaafaaaafaaaafaaaafaaaafaaaafaaaafaaaafaaaafaaaafaaaafaaaafaaaafaaaafaaaafaaaafaaaafaaaafaaaafaaaafaaaafaaaafaaaafaaaafaaaafaaaafaaaafaaaafaaaafaaaafaaaafaaaafaaaafaaaafaaaafaaaafaaaafaaaafaaaafaaaafaaaafaaaafaaaafaaaafaaaafaaaafaaaafaaaafaaaafaaaafaaaafaaaafaaaafaaaafaaaafaaaafaaaafaaaafaaaafaaaafaaaafaaaafaaaafaaaafaaaafaaaafaaaafaaaafaaaafaaaafaaaafaaaafaaaafaaaafaaaafaaaafaaaafaaaafaaaafaaaafaaaafaaaafaaaafaaaafaaaafaaaafaaaafaaaafaaaafaaaafaaaafaaaafaaaafaaaafaaaafaaaafaaaafaaaafaaaafaaaafaaaafaaaafaaaafaaaafaaaafaaaafaaaafaaaafaaaafaaaafaaaafaaaafaaaafaaaafaaaafaaaafaaaafaaaafaaaafaaaafaaaafaaaafaaaafaaaafaaaafaaaafaaaafaaaafaaaafaaaafaaaafaaaafaaaafaaaafaaaafaaaafaaaafaaaafaaaafaaaafaaaafaaaafaaaafaaaafaaaafaaaafaaaafaaaafaaaafaaaafaaaafaaaafaaaafaaaafaaaafaaaafaaaafaaaafaaaafaaaafaaaafaaaafaaaafaaaafaaaafaaaafaaaafaaaafaaaafaaaafaaaafaaaafaaaafaaaafaaaafaaaafaaaafaaaafaaaafaaaafaaaafaaaafaaaafaaaafaaaafaaaafaaaafaaaafaaaafaaaafaaaafaaaafaaaafaaaafaaaafaaaafaaaafaaaafaaaafaaaafaaaafaaaafaaaafaaaafaaaafaaaafaaaafaaaafaaaafaaaafaaaafaaaafaaaafaaaafaaaafaaaafaaaafaaaafaaaafaaaafaaaafaaaafaaaafaaaafaaaafaaaafaaaafaaaafaaaafaaaafaaaafaaaafaaaafaaaafaaaafaaaafaaaafaaaafaaaafaaaafaaaafaaaafaaaafaaaafaaaafaaaafaaaafaaaafaaaafaaaafaaaafaaaafaaaafaaaafaaaafaaaafaaaafaaaafaaaafaaaafaaaafaaaafaaaafaaaafaaaafaaaafaaaafaaaafaaaafaaaafaaaafaaaafaaaafaaaafaaaafaaaafaaaafaaaafaaaafaaaafaaaafaaaafaaaafaaaafaaaafaaaafaaaafaaaafaaaafaaaafaaaafaaaafaaaafaaaafaaaafaaaafaaaafaaaafaaaafaaaafaaaafaaaafaaaafaaaafaaaafaaaafaaaafaaaafaaaafaaaafaaaafaaaafaaaafaaaafaaaafaaaafaaaafaaaafaaaafaaaafaaaafaaaafaaaafaaaafaaaafaaaafaaaafaaaafaaaafaaaafaaaafaaaafaaaafaaaafaaaafaaaafaaaafaaaafaaaafaaaafaaaafaaaafaaaafaaaafaaaafaaaafaaaafaaaafaaaafaaaafaaaafaaaafaaaafaaaafaaaafaaaafaaaafaaaafaaaafaaaafaaaafaaaafaaaafaaaafaaaafaaaafaaaafaaaafaaaafaaaafaaaafaaaafaaaafaaaafaaaafaaaafaaaafaaaafaaaafaaaafaaaafaaaafaaaafaaaafaaaafaaaafaaaafaaaafaaaafaaaafaaaafaaaafaaaafaaaafaaaafaaaafaaaafaaaafaaaafaaaafaaaafaaaafaaaafaaaafaaaafaaaafaaaafaaaafaaaafaaaafaaaafaaaafaaaafaaaafaaaafaaaafaaaafaaaafaaaafaaaafaaaafaaaafaaaafaaaafaaaafaaaafaaaafaaaafaaaafaaaafaaaafaaaafaaaafaaaafaaaafaaaafaaaafaaaafaaaafaaaafaaaafaaaafaaaafaaaafaaaafaaaafaaaafaaaafaaaafaaaafaaaafaaaafaaaafaaaafaaaafaaaafaaaafaaaafaaaafaaaafaaaafaaaafaaaafaaaafaaaafaaaafaaaafaaaafaaaafaaaafaaaafaaaafaaaafaaaafaaaafaaaafaaaafaaaafaaaafaaaafaaaafaaaafaaaafaaaafaaaafaaaafaaaafaaaafaaaafaaaafaaaafaaaafaaaafaaaafaaaafaaaafaaaafaaaafaaaafaaaafaaaafaaaafaaaafaaaafaaaafaaaafaaaafaaaafaaaafaaaafaaaafaaaafaaaafaaaafaaaafaaaafaaaafaaaafaaaafaaaafaaaafaaaafaaaafaaaafaaaafaaaafaaaafaaaafaaaafaaaafaaaafaaaafaaaafaaaafaaaafaaaafaaaafaaaafaaaafaaaafaaaafaaaafaaaafaaaafaaaafaaaafaaaafaaaafaaaafaaaafaaaafaaaafaaaafaaaafaaaafaaaafaaaafaaaafaaaafaaaafaaaafaaaafaaaafaaaafaaaafaaaafaaaafaaaafaaaafaaaafaaaafaaaafaaaafaaaafaaaafaaaafaaaafaaaafaaaafaaaafaaaafaaaafaaaafaaaafaaaafaaaafaaaafaaaafaaaafaaaafaaaafaaaafaaaafaaaafaaaafaaaafaaaafaaaafaaaafaaaafaaaafaaaafaaaafaaaafaaaafaaaafaaaafaaaafaaaafaaaafaaaafaaaafaaaafaaaafaaaafaaaafaaaafaaaafaaaafaaaafaaaafaaaafaaaafaaaafaaaafaaaafaaaafaaaafaaaafaaaafaaaafaaaafaaaafaaaafaaaafaaaafaaaafaaaafaaaafaaaafaaaafaaaafaaaafaaaafaaaafaaaafaaaafaaaafaaaafaaaafaaaafaaaafaaaafaaaafaaaafaaaafaaaafaaaafaaaafaaaafaaaafaaaafaaaafaaaafaaaafaaaafaaaafaaaafaaaafaaaafaaaafaaaafaaaafaaaafaaaafaaaafaaaafaaaafaaaafaaaafaaaafaaaafaaaafaaaafaaaafaaaafaaaafaaaafaaaafaaaafaaaafaaaafaaaafaaaafaaaafaaaafaaaafaaaafaaaafaaaafaaaafaaaafaaaafaaaafaaaafaaaafaaaafaaaafaaaafaaaafaaaafaaaafaaaafaaaafaaaafaaaafaaaafaaaafaaaafaaaafaaaafaaaafaaaafaaaafaaaafaaaafaaaafaaaafaaaafaaaafaaaafaaaafaaaafaaaafaaaafaaaafaaaafaaaafaaaafaaaafaaaafaaaafaaaafaaaafaaaafaaaafaaaafaaaafaaaafaaaafaaaafaaaafaaaafaaaafaaaafaaaafaaaafaaaafaaaafaaaafaaaafaaaafaaaafaaaafaaaafaaaafaaaafaaaafaaaafaaaafaaaafaaaafaaaafaaaafaaaafaaaafaaaafaaaafaaaafaaaafaaaafaaaafaaaafaaaafaaaafaaaafaaaafaaaafaaaafaaaafaaaafaaaafaaaafaaaafaaaafaaaafaaaafaaaafaaaafaaaafaaaafaaaafaaaafaaaafaaaafaaaafaaaafaaaafaaaafaaaafaaaafaaaafaaaafaaaafaaaafaaaafaaaafaaaafaaaafaaaafaaaafaaaafaaaafaaaafaaaafaaaafaaaafaaaafaaaafaaaafaaaafaaaafaaaafaaaafaaaafaaaafaaaafaaaafaaaafaaaafaaaafaaaafaaaafaaaafaaaafaaaafaaaafaaaafaaaafaaaafaaaafaaaafaaaafaaaafaaaafaaaafaaaafaaaafaaaafaaaafaaaafaaaafaaaafaaaafaaaafaaaafaaaafaaaafaaaafaaaafaaaafaaaafaaaafaaaafaaaafaaaafaaaafaaaafaaaafaaaafaaaafaaaafaaaafaaaafaaaafaaaafaaaafaaaafaaaafaaaafaaaafaaaafaaaafaaaafaaaafaaaafaaaafaaaafaaaafaaaafaaaafaaaafaaaafaaaafaaaafaaaafaaaafaaaafaaaafaaaafaaaafaaaafaaaafaaaafaaaafaaaafaaaafaaaafaaaafaaaafaaaafaaaafaaaafaaaafaaaafaaaafaaaafaaaafaaaafaaaafaaaafaaaafaaaafaaaafaaaafaaaafaaaafaaaafaaaafaaaafaaaafaaaafaaaafaaaafaaaafaaaafaaaafaaaafaaaafaaaafaaaafaaaafaaaafaaaafaaaafaaaafaaaafaaaafaaaafaaaafaaaafaaaafaaaafaaaafaaaafaaaafaaaafaaaafaaaafaaaafaaaafaaaafaaaafaaaafaaaafaaaafaaaafaaaafaaaafaaaafaaaafaaaafaaaafaaaafaaaafaaaafaaaafaaaafaaaafaaaafaaaafaaaafaaaafaaaafaaaafaaaafaaaafaaaafaaaafaaaafaaaafaaaafaaaafaaaafaaaafaaaafaaaafaaaafaaaafaaaafaaaafaaaafaaaafaaaafaaaafaaaafaaaafaaaafaaaafaaaafaaaafaaaafaaaafaaaafaaaafaaaafaaaafaaaafaaaafaaaafaaaafaaaafaaaafaaaafaaaafaaaafaaaafaaaafaaaafaaaafaaaafaaaafaaaafaaaafaaaafaaaafaaaafaaaafaaaafaaaafaaaafaaaafaaaafaaaafaaaafaaaafaaaafaaaafaaaafaaaafaaaafaaaafaaaafaaaafaaaafaaaafaaaafaaaafaaaafaaaafaaaafaaaafaaaafaaaafaaaafaaaafaaaafaaaafaaaafaaaafaaaafaaaafaaaafaaaafaaaafaaaafaaaafaaaafaaaafaaaafaaaafaaaafaaaafaaaafaaaafaaaafaaaafaaaafaaaafaaaafaaaafaaaafaaaafaaaafaaaafaaaafaaaafaaaafaaaafaaaafaaaafaaaafaaaafaaaafaaaafaaaafaaaafaaaafaaaafaaaafaaaafaaaafaaaafaaaafaaaafaaaafaaaafaaaafaaaafaaaafaaaafaaaafaaaafaaaafaaaafaaaafaaaafaaaafaaaafaaaafaaaafaaaafaaaafaaaafaaaafaaaafaaaafaaaafaaaafaaaafaaaafaaaafaaaafaaaafaaaafaaaafaaaafaaaafaaaafaaaafaaaafaaaafaaaafaaaafaaaafaaaafaaaafaaaafaaaafaaaafaaaafaaaafaaaafaaaafaaaafaaaafaaaafaaaafaaaafaaaafaaaafaaaafaaaafaaaafaaaafaaaafaaaafaaaafaaaafaaaafaaaafaaaafaaaafaaaafaaaafaaaafaaaafaaaafaaaafaaaafaaaafaaaafaaaafaaaafaaaafaaaafaaaafaaaafaaaafaaaafaaaafaaaafaaaafaaaafaaaafaaaafaaaafaaaafaaaafaaaafaaaafaaaafaaaafaaaafaaaafaaaafaaaafaaaafaaaafaaaafaaaafaaaafaaaafaaaafaaaafaaaafaaaafaaaafaaaafaaaafaaaafaaaafaaaafaaaafaaaafaaaafaaaafaaaafaaaafaaaafaaaafaaaafaaaafaaaafaaaafaaaafaaaafaaaafaaaafaaaafaaaafaaaafaaaafaaaafaaaafaaaafaaaafaaaafaaaafaaaafaaaafaaaafaaaafaaaafaaaafaaaafaaaafaaaafaaaafaaaafaaaafaaaafaaaafaaaafaaaafaaaafaaaafaaaafaaaafaaaafaaaafaaaafaaaafaaaafaaaafaaaafaaaafaaaafaaaafaaaafaaaafaaaafaaaafaaaafaaaafaaaafaaaafaaaafaaaafaaaafaaaafaaaafaaaafaaaafaaaafaaaafaaaafaaaafaaaafaaaafaaaafaaaafaaaafaaaafaaaafaaaafaaaafaaaafaaaafaaaafaaaafaaaafaaaafaaaafaaaafaaaafaaaafaaaafaaaafaaaafaaaafaaaafaaaafaaaafaaaafaaaafaaaafaaaafaaaafaaaafaaaafaaaafaaaafaaaafaaaafaaaafaaaafaaaafaaaafaaaafaaaafaaaafaaaafaaaafaaaafaaaafaaaafaaaafaaaafaaaafaaaafaaaafaaaafaaaafaaaafaaaafaaaafaaaafaaaafaaaafaaaafaaaafaaaafaaaafaaaafaaaafaaaafaaaafaaaafaaaafaaaafaaaafaaaafaaaafaaaafaaaafaaaafaaaafaaaafaaaafaaaafaaaafaaaafaaaafaaaafaaaafaaaafaaaafaaaafaaaafaaaafaaaafaaaafaaaafaaaafaaaafaaaafaaaafaaaafaaaafaaaafaaaafaaaafaaaafaaaafaaaafaaaafaaaafaaaafaaaafaaaafaaaafaaaafaaaafaaaafaaaafaaaafaaaafaaaafaaaafaaaafaaaafaaaafaaaafaaaafaaaafaaaafaaaafaaaafaaaafaaaafaaaafaaaafaaaafaaaafaaaafaaaafaaaafaaaafaaaafaaaafaaaafaaaafaaaafaaaafaaaafaaaafaaaafaaaafaaaafaaaafaaaafaaaafaaaafaaaafaaaafaaaafaaaafaaaafaaaafaaaafaaaafaaaafaaaafaaaafaaaafaaaafaaaafaaaafaaaafaaaafaaaafaaaafaaaafaaaafaaaafaaaafaaaafaaaafaaaafaaaafaaaafaaaafaaaafaaaafaaaafaaaafaaaafaaaafaaaafaaaafaaaafaaaafaaaafaaaafaaaafaaaafaaaafaaaafaaaafaaaafaaaafaaaafaaaafaaaafaaaafaaaafaaaafaaaafaaaafaaaafaaaafaaaafaaaafaaaafaaaafaaaafaaaafaaaafaaaafaaaafaaaafaaaafaaaafaaaafaaaafaaaafaaaafaaaafaaaafaaaafaaaafaaaafaaaafaaaafaaaafaaaafaaaafaaaafaaaafaaaafaaaafaaaafaaaafaaaafaaaafaaaafaaaafaaaafaaaafaaaafaaaafaaaafaaaafaaaafaaaafaaaafaaaafaaaafaaaafaaaafaaaafaaaafaaaafaaaafaaaafaaaafaaaafaaaafaaaafaaaafaaaafaaaafaaaafaaaafaaaafaaaafaaaafaaaafaaaafaaaafaaaafaaaafaaaafaaaafaaaafaaaafaaaafaaaafaaaafaaaafaaaafaaaafaaaafaaaafaaaafaaaafaaaafaaaafaaaafaaaafaaaafaaaafaaaafaaaafaaaafaaaafaaaafaaaafaaaafaaaafaaaafaaaafaaaafaaaafaaaafaaaafaaaafaaaafaaaafaaaafaaaafaaaafaaaafaaaafaaaafaaaafaaaafaaaafaaaafaaaafaaaafaaaafaaaafaaaafaaaafaaaafaaaafaaaafaaaafaaaafaaaafaaaafaaaafaaaafaaaafaaaafaaaafaaaafaaaafaaaafaaaafaaaafaaaafaaaafaaaafaaaafaaaafaaaafaaaafaaaafaaaafaaaafaaaafaaaafaaaafaaaafaaaafaaaafaaaafaaaafaaaafaaaafaaaafaaaafaaaafaaaafaaaafaaaafaaaafaaaafaaaafaaaafaaaafaaaafaaaafaaaafaaaafaaaafaaaafaaaafaaaafaaaafaaaafaaaafaaaafaaaafaaaafaaaafaaaafaaaafaaaafaaaafaaaafaaaafaaaafaaaafaaaafaaaafaaaafaaaafaaaafaaaafaaaafaaaafaaaafaaaafaaaafaaaafaaaafaaaafaaaafaaaafaaaafaaaafaaaafaaaafaaaafaaaafaaaafaaaafaaaafaaaafaaaafaaaafaaaafaaaafaaaafaaaafaaaafaaaafaaaafaaaafaaaafaaaafaaaafaaaafaaaafaaaafaaaafaaaafaaaafaaaafaaaafaaaafaaaafaaaafaaaafaaaafaaaafaaaafaaaafaaaafaaaafaaaafaaaafaaaafaaaafaaaafaaaafaaaafaaaafaaaafaaaafaaaafaaaafaaaafaaaafaaaafaaaafaaaafaaaafaaaafaaaafaaaafaaaafaaaafaaaafaaaafaaaafaaaafaaaafaaaafaaaafaaaafaaaafaaaafaaaafaaaafaaaafaaaafaaaafaaaafaaaafaaaafaaaafaaaafaaaafaaaafaaaafaaaafaaaafaaaafaaaafaaaafaaaafaaaafaaaafaaaafaaaafaaaafaaaafaaaafaaaafaaaafaaaafaaaafaaaafaaaafaaaafaaaafaaaafaaaafaaaafaaaafaaaafaaaafaaaafaaaafaaaafaaaafaaaafaaaafaaaafaaaafaaaafaaaafaaaafaaaafaaaafaaaafaaaafaaaafaaaafaaaafaaaafaaaafaaaafaaaafaaaafaaaafaaaafaaaafaaaafaaaafaaaafaaaafaaaafaaaafaaaafaaaafaaaafaaaafaaaafaaaafaaaafaaaafaaaafaaaafaaaafaaaafaaaafaaaafaaaafaaaafaaaafaaaafaaaafaaaafaaaafaaaafaaaafaaaafaaaafaaaafaaaafaaaafaaaafaaaafaaaafaaaafaaaafaaaafaaaafaaaafaaaafaaaafaaaafaaaafaaaafaaaafaaaafaaaafaaaafaaaafaaaafaaaafaaaafaaaafaaaafaaaafaaaafaaaafaaaafaaaafaaaafaaaafaaaafaaaafaaaafaaaafaaaafaaaafaaaafaaaafaaaafaaaafaaaafaaaafaaaafaaaafaaaafaaaafaaaafaaaafaaaafaaaafaaaafaaaafaaaafaaaafaaaafaaaafaaaafaaaafaaaafaaaafaaaafaaaafaaaafaaaafaaaafaaaafaaaafaaaafaaaafaaaafaaaafaaaafaaaafaaaafaaaafaaaafaaaafaaaafaaaafaaaafaaaafaaaafaaaafaaaafaaaafaaaafaaaafaaaafaaaafaaaafaaaafaaaafaaaafaaaafaaaafaaaafaaaafaaaafaaaafaaaafaaaafaaaafaaaafaaaafaaaafaaaafaaaafaaaafaaaafaaaafaaaafaaaafaaaafaaaafaaaafaaaafaaaafaaaafaaaafaaaafaaaafaaaafaaaafaaaafaaaafaaaafaaaafaaaafaaaafaaaafaaaafaaaafaaaafaaaafaaaafaaaafaaaafaaaafaaaafaaaafaaaafaaaafaaaafaaaafaaaafaaaafaaaafaaaafaaaafaaaafaaaafaaaafaaaafaaaafaaaafaaaafaaaafaaaafaaaafaaaafaaaafaaaafaaaafaaaafaaaafaaaafaaaafaaaafaaaafaaaafaaaafaaaafaaaafaaaafaaaafaaaafaaaafaaaafaaaafaaaafaaaafaaaafaaaafaaaafaaaafaaaafaaaafaaaafaaaafaaaafaaaafaaaafaaaafaaaafaaaafaaaafaaaafaaaafaaaafaaaafaaaafaaaafaaaafaaaafaaaafaaaafaaaafaaaafaaaafaaaafaaaafaaaafaaaafaaaafaaaafaaaafaaaafaaaafaaaafaaaafaaaafaaaafaaaafaaaafaaaafaaaafaaaafaaaafaaaafaaaafaaaafaaaafaaaafaaaafaaaafaaaafaaaafaaaafaaaafaaaafaaaafaaaafaaaafaaaafaaaafaaaafaaaafaaaafaaaafaaaafaaaafaaaafaaaafaaaafaaaafaaaafaaaafaaaafaaaafaaaafaaaafaaaafaaaafaaaafaaaafaaaafaaaafaaaafaaaafaaaafaaaafaaaafaaaafaaaafaaaafaaaafaaaafaaaafaaaafaaaafaaaafaaaafaaaafaaaafaaaafaaaafaaaafaaaafaaaafaaaafaaaafaaaafaaaafaaaafaaaafaaaafaaaafaaaafaaaafaaaafaaaafaaaafaaaafaaaafaaaafaaaafaaaafaaaafaaaafaaaafaaaafaaaafaaaafaaaafaaaafaaaafaaaafaaaafaaaafaaaafaaaafaaaafaaaafaaaafaaaafaaaafaaaafaaaafaaaafaaaafaaaafaaaafaaaafaaaafaaaafaaaafaaaafaaaafaaaafaaaafaaaafaaaafaaaafaaaafaaaafaaaafaaaafaaaafaaaafaaaafaaaafaaaafaaaafaaaafaaaafaaaafaaaafaaaafaaaafaaaafaaaafaaaafaaaafaaaafaaaafaaaafaaaafaaaafaaaafaaaafaaaafaaaafaaaafaaaafaaaafaaaafaaaafaaaafaaaafaaaafaaaafaaaafaaaafaaaafaaaafaaaafaaaafaaaafaaaafaaaafaaaafaaaafaaaafaaaafaaaafaaaafaaaafaaaafaaaafaaaafaaaafaaaafaaaafaaaafaaaafaaaafaaaafaaaafaaaafaaaafaaaafaaaafaaaafaaaafaaaafaaaafaaaafaaaafaaaafaaaafaaaafaaaafaaaafaaaafaaaafaaaafaaaafaaaafaaaafaaaafaaaafaaaafaaaafaaaafaaaafaaaafaaaafaaaafaaaafaaaafaaaafaaaafaaaafaaaafaaaafaaaafaaaafaaaafaaaafaaaafaaaafaaaafaaaafaaaafaaaafaaaafaaaafaaaafaaaafaaaafaaaafaaaafaaaafaaaafaaaafaaaafaaaafaaaafaaaafaaaafaaaafaaaafaaaafaaaafaaaafaaaafaaaafaaaafaaaafaaaafaaaafaaaafaaaafaaaafaaaafaaaafaaaafaaaafaaaafaaaafaaaafaaaafaaaafaaaafaaaafaaaafaaaafaaaafaaaafaaaafaaaafaaaafaaaafaaaafaaaafaaaafaaaafaaaafaaaafaaaafaaaafaaaafaaaafaaaafaaaafaaaafaaaafaaaafaaaafaaaafaaaafaaaafaaaafaaaafaaaafaaaafaaaafaaaafaaaafaaaafaaaafaaaafaaaafaaaafaaaafaaaafaaaafaaaafaaaafaaaafaaaafaaaafaaaafaaaafaaaafaaaafaaaafaaaafaaaafaaaafaaaafaaaafaaaafaaaafaaaafaaaafaaaafaaaafaaaafaaaafaaaafaaaafaaaafaaaafaaaafaaaafaaaafaaaafaaaafaaaafaaaafaaaafaaaafaaaafaaaafaaaafaaaafaaaafaaaafaaaafaaaafaaaafaaaafaaaafaaaafaaaafaaaafaaaafaaaafaaaafaaaafaaaafaaaafaaaafaaaafaaaafaaaafaaaafaaaafaaaafaaaafaaaafaaaafaaaafaaaafaaaafaaaafaaaafaaaafaaaafaaaafaaaafaaaafaaaafaaaafaaaafaaaafaaaafaaaafaaaafaaaafaaaafaaaafaaaafaaaafaaaafaaaafaaaafaaaafaaaafaaaafaaaafaaaafaaaafaaaafaaaafaaaafaaaafaaaafaaaafaaaafaaaafaaaafaaaafaaaafaaaafaaaafaaaafaaaafaaaafaaaafaaaafaaaafaaaafaaaafaaaafaaaafaaaafaaaafaaaafaaaafaaaafaaaafaaaafaaaafaaaafaaaafaaaafaaaafaaaafaaaafaaaafaaaafaaaafaaaafaaaafaaaafaaaafaaaafaaaafaaaafaaaafaaaafaaaafaaaafaaaafaaaafaaaafaaaafaaaafaaaafaaaafaaaafaaaafaaaafaaaafaaaafaaaafaaaafaaaafaaaafaaaafaaaafaaaafaaaafaaaafaaaafaaaafaaaafaaaafaaaafaaaafaaaafaaaafaaaafaaaafaaaafaaaafaaaafaaaafaaaafaaaafaaaafaaaafaaaafaaaafaaaafaaaafaaaafaaaafaaaafaaaafaaaafaaaafaaaafaaaafaaaafaaaafaaaafaaaafaaaafaaaafaaaafaaaafaaaafaaaafaaaafaaaafaaaafaaaafaaaafaaaafaaaafaaaafaaaafaaaafaaaafaaaafaaaafaaaafaaaafaaaafaaaafaaaafaaaafaaaafaaaafaaaafaaaafaaaafaaaafaaaafaaaafaaaafaaaafaaaafaaaafaaaafaaaafaaaafaaaafaaaafaaaafaaaafaaaafaaaafaaaafaaaafaaaafaaaafaaaafaaaafaaaafaaaafaaaafaaaafaaaafaaaafaaaafaaaafaaaafaaaafaaaafaaaafaaaafaaaafaaaafaaaafaaaafaaaafaaaafaaaafaaaafaaaafaaaafaaaafaaaafaaaafaaaafaaaafaaaafaaaafaaaafaaaafaaaafaaaafaaaafaaaafaaaafaaaafaaaafaaaafaaaafaaaafaaaafaaaafaaaafaaaafaaaafaaaafaaaafaaaafaaaafaaaafaaaafaaaafaaaafaaaafaaaafaaaafaaaafaaaafaaaafaaaafaaaafaaaafaaaafaaaafaaaafaaaafaaaafaaaafaaaafaaaafaaaafaaaafaaaafaaaafaaaafaaaafaaaafaaaafaaaafaaaafaaaafaaaafaaaafaaaafaaaafaaaafaaaafaaaafaaaafaaaafaaaafaaaafaaaafaaaafaaaafaaaafaaaafaaaafaaaafaaaafaaaafaaaafaaaafaaaafaaaafaaaafaaaafaaaafaaaafaaaafaaaafaaaafaaaafaaaafaaaafaaaafaaaafaaaafaaaafaaaafaaaafaaaafaaaafaaaafaaaafaaaafaaaafaaaafaaaafaaaafaaaafaaaafaaaafaaaafaaaafaaaafaaaafaaaafaaaafaaaafaaaafaaaafaaaafaaaafaaaafaaaafaaaafaaaafaaaafaaaafaaaafaaaafaaaafaaaafaaaafaaaafaaaafaaaafaaaafaaaafaaaafaaaafaaaafaaaafaaaafaaaafaaaafaaaafaaaafaaaafaaaafaaaafaaaafaaaafaaaafaaaafaaaafaaaafaaaafaaaafaaaafaaaafaaaafaaaafaaaafaaaafaaaafaaaafaaaafaaaafaaaafaaaafaaaafaaaafaaaafaaaafaaaafaaaafaaaafaaaafaaaafaaaafaaaafaaaafaaaafaaaafaaaafaaaafaaaafaaaafaaaafaaaafaaaafaaaafaaaafaaaafaaaafaaaafaaaafaaaafaaaafaaaafaaaafaaaafaaaafaaaafaaaafaaaafaaaafaaaafaaaafaaaafaaaafaaaafaaaafaaaafaaaafaaaafaaaafaaaafaaaafaaaafaaaafaaaafaaaafaaaafaaaafaaaafaaaafaaaafaaaafaaaafaaaafaaaafaaaafaaaafaaaafaaaafaaaafaaaafaaaafaaaafaaaafaaaafaaaafaaaafaaaafaaaafaaaafaaaafaaaafaaaafaaaafaaaafaaaafaaaafaaaafaaaafaaaafaaaafaaaafaaaafaaaafaaaafaaaafaaaafaaaafaaaafaaaafaaaafaaaafaaaafaaaafaaaafaaaafaaaafaaaafaaaafaaaafaaaafaaaafaaaafaaaafaaaafaaaafaaaafaaaafaaaafaaaafaaaafaaaafaaaafaaaafaaaafaaaafaaaafaaaafaaaafaaaafaaaafaaaafaaaafaaaafaaaafaaaafaaaafaaaafaaaafaaaafaaaafaaaafaaaafaaaafaaaafaaaafaaaafaaaafaaaafaaaafaaaafaaaafaaaafaaaafaaaafaaaafaaaafaaaafaaaafaaaafaaaafaaaafaaaafaaaafaaaafaaaafaaaafaaaafaaaafaaaafaaaafaaaafaaaafaaaafaaaafaaaafaaaafaaaafaaaafaaaafaaaafaaaafaaaafaaaafaaaafaaaafaaaafaaaafaaaafaaaafaaaafaaaafaaaafaaaafaaaafaaaafaaaafaaaafaaaafaaaafaaaafaaaafaaaafaaaafaaaafaaaafaaaafaaaafaaaafaaaafaaaafaaaafaaaafaaaafaaaafaaaafaaaafaaaafaaaafaaaafaaaafaaaafaaaafaaaafaaaafaaaafaaaafaaaafaaaafaaaafaaaafaaaafaaaafaaaafaaaafaaaafaaaafaaaafaaaafaaaafaaaafaaaafaaaafaaaafaaaafaaaafaaaafaaaafaaaafaaaafaaaafaaaafaaaafaaaafaaaafaaaafaaaafaaaafaaaafaaaafaaaafaaaafaaaafaaaafaaaafaaaafaaaafaaaafaaaafaaaafaaaafaaaafaaaafaaaafaaaafaaaafaaaafaaaafaaaafaaaafaaaafaaaafaaaafaaaafaaaafaaaafaaaafaaaafaaaafaaaafaaaafaaaafaaaafaaaafaaaafaaaafaaaafaaaafaaaafaaaafaaaafaaaafaaaafaaaafaaaafaaaafaaaafaaaafaaaafaaaafaaaafaaaafaaaafaaaafaaaafaaaafaaaafaaaafaaaafaaaafaaaafaaaafaaaafaaaafaaaafaaaafaaaafaaaafaaaafaaaafaaaafaaaafaaaafaaaafaaaafaaaafaaaafaaaafaaaafaaaafaaaafaaaafaaaafaaaafaaaafaaaafaaaafaaaafaaaafaaaafaaaafaaaafaaaafaaaafaaaafaaaafaaaafaaaafaaaafaaaafaaaafaaaafaaaafaaaafaaaafaaaafaaaafaaaafaaaafaaaafaaaafaaaafaaaafaaaafaaaafaaaafaaaafaaaafaaaafaaaafaaaafaaaafaaaafaaaafaaaafaaaafaaaafaaaafaaaafaaaafaaaafaaaafaaaafaaaafaaaafaaaafaaaafaaaafaaaafaaaafaaaafaaaafaaaafaaaafaaaafaaaafaaaafaaaafaaaafaaaafaaaafaaaafaaaafaaaafaaaafaaaafaaaafaaaafaaaafaaaafaaaafaaaafaaaafaaaafaaaafaaaafaaaafaaaafaaaafaaaafaaaafaaaafaaaafaaaafaaaafaaaafaaaafaaaafaaaafaaaafaaaafaaaafaaaafaaaafaaaafaaaafaaaafaaaafaaaafaaaafaaaafaaaafaaaafaaaafaaaafaaaafaaaafaaaafaaaafaaaafaaaafaaaafaaaafaaaafaaaafaaaafaaaafaaaafaaaafaaaafaaaafaaaafaaaafaaaafaaaafaaaafaaaafaaaafaaaafaaaafaaaafaaaafaaaafaaaafaaaafaaaafaaaafaaaafaaaafaaaafaaaafaaaafaaaafaaaafaaaafaaaafaaaafaaaafaaaafaaaafaaaafaaaafaaaafaaaafaaaafaaaafaaaafaaaafaaaafaaaafaaaafaaaafaaaafaaaafaaaafaaaafaaaafaaaafaaaafaaaafaaaafaaaafaaaafaaaafaaaafaaaafaaaafaaaafaaaafaaaafaaaafaaaafaaaafaaaafaaaafaaaafaaaafaaaafaaaafaaaafaaaafaaaafaaaafaaaafaaaafaaaafaaaafaaaafaaaafaaaafaaaafaaaafaaaafaaaafaaaafaaaafaaaafaaaafaaaafaaaafaaaafaaaafaaaafaaaafaaaafaaaafaaaafaaaafaaaafaaaafaaaafaaaafaaaafaaaafaaaafaaaafaaaafaaaafaaaafaaaafaaaafaaaafaaaafaaaafaaaafaaaafaaaafaaaafaaaafaaaafaaaafaaaafaaaafaaaafaaaafaaaafaaaafaaaafaaaafaaaafaaaafaaaafaaaafaaaafaaaafaaaafaaaafaaaafaaaafaaaafaaaafaaaafaaaafaaaafaaaafaaaafaaaafaaaafaaaafaaaafaaaafaaaafaaaafaaaafaaaafaaaafaaaafaaaafaaaafaaaafaaaafaaaafaaaafaaaafaaaafaaaafaaaafaaaafaaaafaaaafaaaafaaaafaaaafaaaafaaaafaaaafaaaafaaaafaaaafaaaafaaaafaaaafaaaafaaaafaaaafaaaafaaaafaaaafaaaafaaaafaaaafaaaafaaaafaaaafaaaafaaaafaaaafaaaafaaaafaaaafaaaafaaaafaaaafaaaafaaaafaaaafaaaafaaaafaaaafaaaafaaaafaaaafaaaafaaaafaaaafaaaafaaaafaaaafaaaafaaaafaaaafaaaafaaaafaaaafaaaafaaaafaaaafaaaafaaaafaaaafaaaafaaaafaaaafaaaafaaaafaaaafaaaafaaaafaaaafaaaafaaaafaaaafaaaafaaaafaaaafaaaafaaaafaaaafaaaafaaaafaaaafaaaafaaaafaaaafaaaafaaaafaaaafaaaafaaaafaaaafaaaafaaaafaaaafaaaafaaaafaaaafaaaafaaaafaaaafaaaafaaaafaaaafaaaafaaaafaaaafaaaafaaaafaaaafaaaafaaaafaaaafaaaafaaaafaaaafaaaafaaaafaaaafaaaafaaaafaaaafaaaafaaaafaaaafaaaafaaaafaaaafaaaafaaaafaaaafaaaafaaaafaaaafaaaafaaaafaaaafaaaafaaaafaaaafaaaafaaaafaaaafaaaafaaaafaaaafaaaafaaaafaaaafaaaafaaaafaaaafaaaafaaaafaaaafaaaafaaaafaaaafaaaafaaaafaaaafaaaafaaaafaaaafaaaafaaaafaaaafaaaafaaaafaaaafaaaafaaaafaaaafaaaafaaaafaaaafaaaafaaaafaaaafaaaafaaaafaaaafaaaafaaaafaaaafaaaafaaaafaaaafaaaafaaaafaaaafaaaafaaaafaaaafaaaafaaaafaaaafaaaafaaaafaaaafaaaafaaaafaaaafaaaafaaaafaaaafaaaafaaaafaaaafaaaafaaaafaaaafaaaafaaaafaaaafaaaafaaaafaaaafaaaafaaaafaaaafaaaafaaaafaaaafaaaafaaaafaaaafaaaafaaaafaaaafaaaafaaaafaaaafaaaafaaaafaaaafaaaafaaaafaaaafaaaafaaaafaaaafaaaafaaaafaaaafaaaafaaaafaaaafaaaafaaaafaaaafaaaafaaaafaaaafaaaafaaaafaaaafaaaafaaaafaaaafaaaafaaaafaaaafaaaafaaaafaaaafaaaafaaaafaaaafaaaafaaaafaaaafaaaafaaaafaaaafaaaafaaaafaaaafaaaafaaaafaaaafaaaafaaaafaaaafaaaafaaaafaaaafaaaafaaaafaaaafaaaafaaaafaaaafaaaafaaaafaaaafaaaafaaaafaaaafaaaafaaaafaaaafaaaafaaaafaaaafaaaafaaaafaaaafaaaafaaaafaaaafaaaafaaaafaaaafaaaafaaaafaaaafaaaafaaaafaaaafaaaafaaaafaaaafaaaafaaaafaaaafaaaafaaaafaaaafaaaafaaaafaaaafaaaafaaaafaaaafaaaafaaaafaaaafaaaafaaaafaaaafaaaafaaaafaaaafaaaafaaaafaaaafaaaafaaaafaaaafaaaafaaaafaaaafaaaafaaaafaaaafaaaafaaaafaaaafaaaafaaaafaaaafaaaafaaaafaaaafaaaafaaaafaaaafaaaafaaaafaaaafaaaafaaaafaaaafaaaafaaaafaaaafaaaafaaaafaaaafaaaafaaaafaaaafaaaafaaaafaaaafaaaafaaaafaaaafaaaafaaaafaaaafaaaafaaaafaaaafaaaafaaaafaaaafaaaafaaaafaaaafaaaafaaaafaaaafaaaafaaaafaaaafaaaafaaaafaaaafaaaafaaaafaaaafaaaafaaaafaaaafaaaafaaaafaaaafaaaafaaaafaaaafaaaafaaaafaaaafaaaafaaaafaaaafaaaafaaaafaaaafaaaafaaaafaaaafaaaafaaaafaaaafaaaafaaaafaaaafaaaafaaaafaaaafaaaafaaaafaaaafaaaafaaaafaaaafaaaafaaaafaaaafaaaafaaaafaaaafaaaafaaaafaaaafaaaafaaaafaaaafaaaafaaaafaaaafaaaafaaaafaaaafaaaafaaaafaaaafaaaafaaaafaaaafaaaafaaaafaaaafaaaafaaaafaaaafaaaafaaaafaaaafaaaafaaaafaaaafaaaafaaaafaaaafaaaafaaaafaaaafaaaafaaaafaaaafaaaafaaaafaaaafaaaafaaaafaaaafaaaafaaaafaaaafaaaafaaaafaaaafaaaafaaaafaaaafaaaafaaaafaaaafaaaafaaaafaaaafaaaafaaaafaaaafaaaafaaaafaaaafaaaafaaaafaaaafaaaafaaaafaaaafaaaafaaaafaaaafaaaafaaaafaaaafaaaafaaaafaaaafaaaafaaaafaaaafaaaafaaaafaaaafaaaafaaaafaaaafaaaafaaaafaaaafaaaafaaaafaaaafaaaafaaaafaaaafaaaafaaaafaaaafaaaafaaaafaaaafaaaafaaaafaaaafaaaafaaaafaaaafaaaafaaaafaaaafaaaafaaaafaaaafaaaafaaaafaaaafaaaafaaaafaaaafaaaafaaaafaaaafaaaafaaaafaaaafaaaafaaaafaaaafaaaafaaaafaaaafaaaafaaaafaaaafaaaafaaaafaaaafaaaafaaaafaaaafaaaafaaaafaaaafaaaafaaaafaaaafaaaafaaaafaaaafaaaafaaaafaaaafaaaafaaaafaaaafaaaafaaaafaaaafaaaafaaaafaaaafaaaafaaaafaaaafaaaafaaaafaaaafaaaafaaaafaaaafaaaafaaaafaaaafaaaafaaaafaaaafaaaafaaaafaaaafaaaafaaaafaaaafaaaafaaaafaaaafaaaafaaaafaaaafaaaafaaaafaaaafaaaafaaaafaaaafaaaafaaaafaaaafaaaafaaaafaaaafaaaafaaaafaaaafaaaafaaaafaaaafaaaafaaaafaaaafaaaafaaaafaaaafaaaafaaaafaaaafaaaafaaaafaaaafaaaafaaaafaaaafaaaafaaaafaaaafaaaafaaaafaaaafaaaafaaaafaaaafaaaafaaaafaaaafaaaafaaaafaaaafaaaafaaaafaaaafaaaafaaaafaaaafaaaafaaaafaaaafaaaafaaaafaaaafaaaafaaaafaaaafaaaafaaaafaaaafaaaafaaaafaaaafaaaafaaaafaaaafaaaafaaaafaaaafaaaafaaaafaaaafaaaafaaaafaaaafaaaafaaaafaaaafaaaafaaaafaaaafaaaafaaaafaaaafaaaafaaaafaaaafaaaafaaaafaaaafaaaafaaaafaaaafaaaafaaaafaaaafaaaafaaaafaaaafaaaafaaaafaaaafaaaafaaaafaaaafaaaafaaaafaaaafaaaafaaaafaaaafaaaafaaaafaaaafaaaafaaaafaaaafaaaafaaaafaaaafaaaafaaaafaaaafaaaafaaaafaaaafaaaafaaaafaaaafaaaafaaaafaaaafaaaafaaaafaaaafaaaafaaaafaaaafaaaafaaaafaaaafaaaafaaaafaaaafaaaafaaaafaaaafaaaafaaaafaaaafaaaafaaaafaaaafaaaafaaaafaaaafaaaafaaaafaaaafaaaafaaaafaaaafaaaafaaaafaaaafaaaafaaaafaaaafaaaafaaaafaaaafaaaafaaaafaaaafaaaafaaaafaaaafaaaafaaaafaaaafaaaafaaaafaaaafaaaafaaaafaaaafaaaafaaaafaaaafaaaafaaaafaaaafaaaafaaaafaaaafaaaafaaaafaaaafaaaafaaaafaaaafaaaafaaaafaaaafaaaafaaaafaaaafaaaafaaaafaaaafaaaafaaaafaaaafaaaafaaaafaaaafaaaafaaaafaaaafaaaafaaaafaaaafaaaafaaaafaaaafaaaafaaaafaaaafaaaafaaaafaaaafaaaafaaaafaaaafaaaafaaaafaaaafaaaafaaaafaaaafaaaafaaaafaaaafaaaafaaaafaaaafaaaafaaaafaaaafaaaafaaaafaaaafaaaafaaaafaaaafaaaafaaaafaaaafaaaafaaaafaaaafaaaafaaaafaaaafaaaafaaaafaaaafaaaafaaaafaaaafaaaafaaaafaaaafaaaafaaaafaaaafaaaafaaaafaaaafaaaafaaaafaaaafaaaafaaaafaaaafaaaafaaaafaaaafaaaafaaaafaaaafaaaafaaaafaaaafaaaafaaaafaaaafaaaafaaaafaaaafaaaafaaaafaaaafaaaafaaaafaaaafaaaafaaaafaaaafaaaafaaaafaaaafaaaafaaaafaaaafaaaafaaaafaaaafaaaafaaaafaaaafaaaafaaaafaaaafaaaafaaaafaaaafaaaafaaaafaaaafaaaafaaaafaaaafaaaafaaaafaaaafaaaafaaaafaaaafaaaafaaaafaaaafaaaafaaaafaaaafaaaafaaaafaaaafaaaafaaaafaaaafaaaafaaaafaaaafaaaafaaaafaaaafaaaafaaaafaaaafaaaafaaaafaaaafaaaafaaaafaaaafaaaafaaaafaaaafaaaafaaaafaaaafaaaafaaaafaaaafaaaafaaaafaaaafaaaafaaaafaaaafaaaafaaaafaaaafaaaafaaaafaaaafaaaafaaaafaaaafaaaafaaaafaaaafaaaafaaaafaaaafaaaafaaaafaaaafaaaafaaaafaaaafaaaafaaaafaaaafaaaafaaaafaaaafaaaafaaaafaaaafaaaafaaaafaaaafaaaafaaaafaaaafaaaafaaaafaaaafaaaafaaaafaaaafaaaafaaaafaaaafaaaafaaaafaaaafaaaafaaaafaaaafaaaafaaaafaaaafaaaafaaaafaaaafaaaafaaaafaaaafaaaafaaaafaaaafaaaafaaaafaaaafaaaafaaaafaaaafaaaafaaaafaaaafaaaafaaaafaaaafaaaafaaaafaaaafaaaafaaaafaaaafaaaafaaaafaaaafaaaafaaaafaaaafaaaafaaaafaaaafaaaafaaaafaaaafaaaafaaaafaaaafaaaafaaaafaaaafaaaafaaaafaaaafaaaafaaaafaaaafaaaafaaaafaaaafaaaafaaaafaaaafaaaafaaaafaaaafaaaafaaaafaaaafaaaafaaaafaaaafaaaafaaaafaaaafaaaafaaaafaaaafaaaafaaaafaaaafaaaafaaaafaaaafaaaafaaaafaaaafaaaafaaaafaaaafaaaafaaaafaaaafaaaafaaaafaaaafaaaafaaaafaaaafaaaafaaaafaaaafaaaafaaaafaaaafaaaafaaaafaaaafaaaafaaaafaaaafaaaafaaaafaaaafaaaafaaaafaaaafaaaafaaaafaaaafaaaafaaaafaaaafaaaafaaaafaaaafaaaafaaaafaaaafaaaafaaaafaaaafaaaafaaaafaaaafaaaafaaaafaaaafaaaafaaaafaaaafaaaafaaaafaaaafaaaafaaaafaaaafaaaafaaaafaaaafaaaafaaaafaaaafaaaafaaaafaaaafaaaafaaaafaaaafaaaafaaaafaaaafaaaafaaaafaaaafaaaafaaaafaaaafaaaafaaaafaaaafaaaafaaaafaaaafaaaafaaaafaaaafaaaafaaaafaaaafaaaafaaaafaaaafaaaafaaaafaaaafaaaafaaaafaaaafaaaafaaaafaaaafaaaafaaaafaaaafaaaafaaaafaaaafaaaafaaaafaaaafaaaafaaaafaaaafaaaafaaaafaaaafaaaafaaaafaaaafaaaafaaaafaaaafaaaafaaaafaaaafaaaafaaaafaaaafaaaafaaaafaaaafaaaafaaaafaaaafaaaafaaaafaaaafaaaafaaaafaaaafaaaafaaaafaaaafaaaafaaaafaaaafaaaafaaaafaaaafaaaafaaaafaaaafaaaafaaaafaaaafaaaafaaaafaaaafaaaafaaaafaaaafaaaafaaaafaaaafaaaafaaaafaaaafaaaafaaaafaaaafaaaafaaaafaaaafaaaafaaaafaaaafaaaafaaaafaaaafaaaafaaaafaaaafaaaafaaaafaaaafaaaafaaaafaaaafaaaafaaaafaaaafaaaafaaaafaaaafaaaafaaaafaaaafaaaafaaaafaaaafaaaafaaaafaaaafaaaafaaaafaaaafaaaafaaaafaaaafaaaafaaaafaaaafaaaafaaaafaaaafaaaafaaaafaaaafaaaafaaaafaaaafaaaafaaaafaaaafaaaafaaaafaaaafaaaafaaaafaaaafaaaafaaaafaaaafaaaafaaaafaaaafaaaafaaaafaaaafaaaafaaaafaaaafaaaafaaaafaaaafaaaafaaaafaaaafaaaafaaaafaaaafaaaafaaaafaaaafaaaafaaaafaaaafaaaafaaaafaaaafaaaafaaaafaaaafaaaafaaaafaaaafaaaafaaaafaaaafaaaafaaaafaaaafaaaafaaaafaaaafaaaafaaaafaaaafaaaafaaaafaaaafaaaafaaaafaaaafaaaafaaaafaaaafaaaafaaaafaaaafaaaafaaaafaaaafaaaafaaaafaaaafaaaafaaaafaaaafaaaafaaaafaaaafaaaafaaaafaaaafaaaafaaaafaaaafaaaafaaaafaaaafaaaafaaaafaaaafaaaafaaaafaaaafaaaafaaaafaaaafaaaafaaaafaaaafaaaafaaaafaaaafaaaafaaaafaaaafaaaafaaaafaaaafaaaafaaaafaaaafaaaafaaaafaaaafaaaafaaaafaaaafaaaafaaaafaaaafaaaafaaaafaaaafaaaafaaaafaaaafaaaafaaaafaaaafaaaafaaaafaaaafaaaafaaaafaaaafaaaafaaaafaaaafaaaafaaaafaaaafaaaafaaaafaaaafaaaafaaaafaaaafaaaafaaaafaaaafaaaafaaaafaaaafaaaafaaaafaaaafaaaafaaaafaaaafaaaafaaaafaaaafaaaafaaaafaaaafaaaafaaaafaaaafaaaafaaaafaaaafaaaafaaaafaaaafaaaafaaaafaaaafaaaafaaaafaaaafaaaafaaaafaaaafaaaafaaaafaaaafaaaafaaaafaaaafaaaafaaaafaaaafaaaafaaaafaaaafaaaafaaaafaaaafaaaafaaaafaaaafaaaafaaaafaaaafaaaafaaaafaaaafaaaafaaaafaaaafaaaafaaaafaaaafaaaafaaaafaaaafaaaafaaaafaaaafaaaafaaaafaaaafaaaafaaaafaaaafaaaafaaaafaaaafaaaafaaaafaaaafaaaafaaaafaaaafaaaafaaaafaaaafaaaafaaaafaaaafaaaafaaaafaaaafaaaafaaaafaaaafaaaafaaaafaaaafaaaafaaaafaaaafaaaafaaaafaaaafaaaafaaaafaaaafaaaafaaaafaaaafaaaafaaaafaaaafaaaafaaaafaaaafaaaafaaaafaaaafaaaafaaaafaaaafaaaafaaaafaaaafaaaafaaaafaaaafaaaafaaaafaaaafaaaafaaaafaaaafaaaafaaaafaaaafaaaafaaaafaaaafaaaafaaaafaaaafaaaafaaaafaaaafaaaafaaaafaaaafaaaafaaaafaaaafaaaafaaaafaaaafaaaafaaaafaaaafaaaafaaaafaaaafaaaafaaaafaaaafaaaafaaaafaaaafaaaafaaaafaaaafaaaafaaaafaaaafaaaafaaaafaaaafaaaafaaaafaaaafaaaafaaaafaaaafaaaafaaaafaaaafaaaafaaaafaaaafaaaafaaaafaaaafaaaafaaaafaaaafaaaafaaaafaaaafaaaafaaaafaaaafaaaafaaaafaaaafaaaafaaaafaaaafaaaafaaaafaaaafaaaafaaaafaaaafaaaafaaaafaaaafaaaafaaaafaaaafaaaafaaaafaaaafaaaafaaaafaaaafaaaafaaaafaaaafaaaafaaaafaaaafaaaafaaaafaaaafaaaafaaaafaaaafaaaafaaaafaaaafaaaafaaaafaaaafaaaafaaaafaaaafaaaafaaaafaaaafaaaafaaaafaaaafaaaafaaaafaaaafaaaafaaaafaaaafaaaafaaaafaaaafaaaafaaaafaaaafaaaafaaaafaaaafaaaafaaaafaaaafaaaafaaaafaaaafaaaafaaaafaaaafaaaafaaaafaaaafaaaafaaaafaaaafaaaafaaaafaaaafaaaafaaaafaaaafaaaafaaaafaaaafaaaafaaaafaaaafaaaafaaaafaaaafaaaafaaaafaaaafaaaafaaaafaaaafaaaafaaaafaaaafaaaafaaaafaaaafaaaafaaaafaaaafaaaafaaaafaaaafaaaafaaaafaaaafaaaafaaaafaaaafaaaafaaaafaaaafaaaafaaaafaaaafaaaafaaaafaaaafaaaafaaaafaaaafaaaafaaaafaaaafaaaafaaaafaaaafaaaafaaaafaaaafaaaafaaaafaaaafaaaafaaaafaaaafaaaafaaaafaaaafaaaafaaaafaaaafaaaafaaaafaaaafaaaafaaaafaaaafaaaafaaaafaaaafaaaafaaaafaaaafaaaafaaaafaaaafaaaafaaaafaaaafaaaafaaaafaaaafaaaafaaaafaaaafaaaafaaaafaaaafaaaafaaaafaaaafaaaafaaaafaaaafaaaafaaaafaaaafaaaafaaaafaaaafaaaafaaaafaaaafaaaafaaaafaaaafaaaafaaaafaaaafaaaafaaaafaaaafaaaafaaaafaaaafaaaafaaaafaaaafaaaafaaaafaaaafaaaafaaaafaaaafaaaafaaaafaaaafaaaafaaaafaaaafaaaafaaaafaaaafaaaafaaaafaaaafaaaafaaaafaaaafaaaafaaaafaaaafaaaafaaaafaaaafaaaafaaaafaaaafaaaafaaaafaaaafaaaafaaaafaaaafaaaafaaaafaaaafaaaafaaaafaaaafaaaafaaaafaaaafaaaafaaaafaaaafaaaafaaaafaaaafaaaafaaaafaaaafaaaafaaaafaaaafaaaafaaaafaaaafaaaafaaaafaaaafaaaafaaaafaaaafaaaafaaaafaaaafaaaafaaaafaaaafaaaafaaaafaaaafaaaafaaaafaaaafaaaafaaaafaaaafaaaafaaaafaaaafaaaafaaaafaaaafaaaafaaaafaaaafaaaafaaaafaaaafaaaafaaaafaaaafaaaafaaaafaaaafaaaafaaaafaaaafaaaafaaaafaaaafaaaafaaaafaaaafaaaafaaaafaaaafaaaafaaaafaaaafaaaafaaaafaaaafaaaafaaaafaaaafaaaafaaaafaaaafaaaafaaaafaaaafaaaafaaaafaaaafaaaafaaaafaaaafaaaafaaaafaaaafaaaafaaaafaaaafaaaafaaaafaaaafaaaafaaaafaaaafaaaafaaaafaaaafaaaafaaaafaaaafaaaafaaaafaaaafaaaafaaaafaaaafaaaafaaaafaaaafaaaafaaaafaaaafaaaafaaaafaaaafaaaafaaaafaaaafaaaafaaaafaaaafaaaafaaaafaaaafaaaafaaaafaaaafaaaafaaaafaaaafaaaafaaaafaaaafaaaafaaaafaaaafaaaafaaaafaaaafaaaafaaaafaaaafaaaafaaaafaaaafaaaafaaaafaaaafaaaafaaaafaaaafaaaafaaaafaaaafaaaafaaaafaaaafaaaafaaaafaaaafaaaafaaaafaaaafaaaafaaaafaaaafaaaafaaaafaaaafaaaafaaaafaaaafaaaafaaaafaaaafaaaafaaaafaaaafaaaafaaaafaaaafaaaafaaaafaaaafaaaafaaaafaaaafaaaafaaaafaaaafaaaafaaaafaaaafaaaafaaaafaaaafaaaafaaaafaaaafaaaafaaaafaaaafaaaafaaaafaaaafaaaafaaaafaaaafaaaafaaaafaaaafaaaafaaaafaaaafaaaafaaaafaaaafaaaafaaaafaaaafaaaafaaaafaaaafaaaafaaaafaaaafaaaafaaaafaaaafaaaafaaaafaaaafaaaafaaaafaaaafaaaafaaaafaaaafaaaafaaaafaaaafaaaafaaaafaaaafaaaafaaaafaaaafaaaafaaaafaaaafaaaafaaaafaaaafaaaafaaaafaaaafaaaafaaaafaaaafaaaafaaaafaaaafaaaafaaaafaaaafaaaafaaaafaaaafaaaafaaaafaaaafaaaafaaaafaaaafaaaafaaaafaaaafaaaafaaaafaaaafaaaafaaaafaaaafaaaafaaaafaaaafaaaafaaaafaaaafaaaafaaaafaaaafaaaafaaaafaaaafaaaafaaaafaaaafaaaafaaaafaaaafaaaafaaaafaaaafaaaafaaaafaaaafaaaafaaaafaaaafaaaafaaaafaaaafaaaafaaaafaaaafaaaafaaaafaaaafaaaafaaaafaaaafaaaafaaaafaaaafaaaafaaaafaaaafaaaafaaaafaaaafaaaafaaaafaaaafaaaafaaaafaaaafaaaafaaaafaaaafaaaafaaaafaaaafaaaafaaaafaaaafaaaafaaaafaaaafaaaafaaaafaaaafaaaafaaaafaaaafaaaafaaaafaaaafaaaafaaaafaaaafaaaafaaaafaaaafaaaafaaaafaaaafaaaafaaaafaaaafaaaafaaaafaaaafaaaafaaaafaaaafaaaafaaaafaaaafaaaafaaaafaaaafaaaafaaaafaaaafaaaafaaaafaaaafaaaafaaaafaaaafaaaafaaaafaaaafaaaafaaaafaaaafaaaafaaaafaaaafaaaafaaaafaaaafaaaafaaaafaaaafaaaafaaaafaaaafaaaafaaaafaaaafaaaafaaaafaaaafaaaafaaaafaaaafaaaafaaaafaaaafaaaafaaaafaaaafaaaafaaaafaaaafaaaafaaaafaaaafaaaafaaaafaaaafaaaafaaaafaaaafaaaafaaaafaaaafaaaafaaaafaaaafaaaafaaaafaaaafaaaafaaaafaaaafaaaafaaaafaaaafaaaafaaaafaaaafaaaafaaaafaaaafaaaafaaaafaaaafaaaafaaaafaaaafaaaafaaaafaaaafaaaafaaaafaaaafaaaafaaaafaaaafaaaafaaaafaaaafaaaafaaaafaaaafaaaafaaaafaaaafaaaafaaaafaaaafaaaafaaaafaaaafaaaafaaaafaaaafaaaafaaaafaaaafaaaafaaaafaaaafaaaafaaaafaaaafaaaafaaaafaaaafaaaafaaaafaaaafaaaafaaaafaaaafaaaafaaaafaaaafaaaafaaaafaaaafaaaafaaaafaaaafaaaafaaaafaaaafaaaafaaaafaaaafaaaafaaaafaaaafaaaafaaaafaaaafaaaafaaaafaaaafaaaafaaaafaaaafaaaafaaaafaaaafaaaafaaaafaaaafaaaafaaaafaaaafaaaafaaaafaaaafaaaafaaaafaaaafaaaafaaaafaaaafaaaafaaaafaaaafaaaafaaaafaaaafaaaafaaaafaaaafaaaafaaaafaaaafaaaafaaaafaaaafaaaafaaaafaaaafaaaafaaaafaaaafaaaafaaaafaaaafaaaafaaaafaaaafaaaafaaaafaaaafaaaafaaaafaaaafaaaafaaaafaaaafaaaafaaaafaaaafaaaafaaaafaaaafaaaafaaaafaaaafaaaafaaaafaaaafaaaafaaaafaaaafaaaafaaaafaaaafaaaafaaaafaaaafaaaafaaaafaaaafaaaafaaaafaaaafaaaafaaaafaaaafaaaafaaaafaaaafaaaafaaaafaaaafaaaafaaaafaaaafaaaafaaaafaaaafaaaafaaaafaaaafaaaafaaaafaaaafaaaafaaaafaaaafaaaafaaaafaaaafaaaafaaaafaaaafaaaafaaaafaaaafaaaafaaaafaaaafaaaafaaaafaaaafaaaafaaaafaaaafaaaafaaaafaaaafaaaafaaaafaaaafaaaafaaaafaaaafaaaafaaaafaaaafaaaafaaaafaaaafaaaafaaaafaaaafaaaafaaaafaaaafaaaafaaaafaaaafaaaafaaaafaaaafaaaafaaaafaaaafaaaafaaaafaaaafaaaafaaaafaaaafaaaafaaaafaaaafaaaafaaaafaaaafaaaafaaaafaaaafaaaafaaaafaaaafaaaafaaaafaaaafaaaafaaaafaaaafaaaafaaaafaaaafaaaafaaaafaaaafaaaafaaaafaaaafaaaafaaaafaaaafaaaafaaaafaaaafaaaafaaaafaaaafaaaafaaaafaaaafaaaafaaaafaaaafaaaafaaaafaaaafaaaafaaaafaaaafaaaafaaaafaaaafaaaafaaaafaaaafaaaafaaaafaaaafaaaafaaaafaaaafaaaafaaaafaaaafaaaafaaaafaaaafaaaafaaaafaaaafaaaafaaaafaaaafaaaafaaaafaaaafaaaafaaaafaaaafaaaafaaaafaaaafaaaafaaaafaaaafaaaafaaaafaaaafaaaafaaaafaaaafaaaafaaaafaaaafaaaafaaaafaaaafaaaafaaaafaaaafaaaafaaaafaaaafaaaafaaaafaaaafaaaafaaaafaaaafaaaafaaaafaaaafaaaafaaaafaaaafaaaafaaaafaaaafaaaafaaaafaaaafaaaafaaaafaaaafaaaafaaaafaaaafaaaafaaaafaaaafaaaafaaaafaaaafaaaafaaaafaaaafaaaafaaaafaaaafaaaafaaaafaaaafaaaafaaaafaaaafaaaafaaaafaaaafaaaafaaaafaaaafaaaafaaaafaaaafaaaafaaaafaaaafaaaafaaaafaaaafaaaafaaaafaaaafaaaafaaaafaaaafaaaafaaaafaaaafaaaafaaaafaaaafaaaafaaaafaaaafaaaafaaaafaaaafaaaafaaaafaaaafaaaafaaaafaaaafaaaafaaaafaaaafaaaafaaaafaaaafaaaafaaaafaaaafaaaafaaaafaaaafaaaafaaaafaaaafaaaafaaaafaaaafaaaafaaaafaaaafaaaafaaaafaaaafaaaafaaaafaaaafaaaafaaaafaaaafaaaafaaaafaaaafaaaafaaaafaaaafaaaafaaaafaaaafaaaafaaaafaaaafaaaafaaaafaaaafaaaafaaaafaaaafaaaafaaaafaaaafaaaafaaaafaaaafaaaafaaaafaaaafaaaafaaaafaaaafaaaafaaaafaaaafaaaafaaaafaaaafaaaafaaaafaaaafaaaafaaaafaaaafaaaafaaaafaaaafaaaafaaaafaaaafaaaafaaaafaaaafaaaafaaaafaaaafaaaafaaaafaaaafaaaafaaaafaaaafaaaafaaaafaaaafaaaafaaaafaaaafaaaafaaaafaaaafaaaafaaaafaaaafaaaafaaaafaaaafaaaafaaaafaaaafaaaafaaaafaaaafaaaafaaaafaaaafaaaafaaaafaaaafaaaafaaaafaaaafaaaafaaaafaaaafaaaafaaaafaaaafaaaafaaaafaaaafaaaafaaaafaaaafaaaafaaaafaaaafaaaafaaaafaaaafaaaafaaaafaaaafaaaafaaaafaaaafaaaafaaaafaaaafaaaafaaaafaaaafaaaafaaaafaaaafaaaafaaaafaaaafaaaafaaaafaaaafaaaafaaaafaaaafaaaafaaaafaaaafaaaafaaaafaaaafaaaafaaaafaaaafaaaafaaaafaaaafaaaafaaaafaaaafaaaafaaaafaaaafaaaafaaaafaaaafaaaafaaaafaaaafaaaafaaaafaaaafaaaafaaaafaaaafaaaafaaaafaaaafaaaafaaaafaaaafaaaafaaaafaaaafaaaafaaaafaaaafaaaafaaaafaaaafaaaafaaaafaaaafaaaafaaaafaaaafaaaafaaaafaaaafaaaafaaaafaaaafaaaafaaaafaaaafaaaafaaaafaaaafaaaafaaaafaaaafaaaafaaaafaaaafaaaafaaaafaaaafaaaafaaaafaaaafaaaafaaaafaaaafaaaafaaaafaaaafaaaafaaaafaaaafaaaafaaaafaaaafaaaafaaaafaaaafaaaafaaaafaaaafaaaafaaaafaaaafaaaafaaaafaaaafaaaafaaaafaaaafaaaafaaaafaaaafaaaafaaaafaaaafaaaafaaaafaaaafaaaafaaaafaaaafaaaafaaaafaaaafaaaafaaaafaaaafaaaafaaaafaaaafaaaafaaaafaaaafaaaafaaaafaaaafaaaafaaaafaaaafaaaafaaaafaaaafaaaafaaaafaaaafaaaafaaaafaaaafaaaafaaaafaaaafaaaafaaaafaaaafaaaafaaaafaaaafaaaafaaaafaaaafaaaafaaaafaaaafaaaafaaaafaaaafaaaafaaaafaaaafaaaafaaaafaaaafaaaafaaaafaaaafaaaafaaaafaaaafaaaafaaaafaaaafaaaafaaaafaaaafaaaafaaaafaaaafaaaafaaaafaaaafaaaafaaaafaaaafaaaafaaaafaaaafaaaafaaaafaaaafaaaafaaaafaaaafaaaafaaaafaaaafaaaafaaaafaaaafaaaafaaaafaaaafaaaafaaaafaaaafaaaafaaaafaaaafaaaafaaaafaaaafaaaafaaaafaaaafaaaafaaaafaaaafaaaafaaaafaaaafaaaafaaaafaaaafaaaafaaaafaaaafaaaafaaaafaaaafaaaafaaaafaaaafaaaafaaaafaaaafaaaafaaaafaaaafaaaafaaaafaaaafaaaafaaaafaaaafaaaafaaaafaaaafaaaafaaaafaaaafaaaafaaaafaaaafaaaafaaaafaaaafaaaafaaaafaaaafaaaafaaaafaaaafaaaafaaaafaaaafaaaafaaaafaaaafaaaafaaaafaaaafaaaafaaaafaaaafaaaafaaaafaaaafaaaafaaaafaaaafaaaafaaaafaaaafaaaafaaaafaaaafaaaafaaaafaaaafaaaafaaaafaaaafaaaafaaaafaaaafaaaafaaaafaaaafaaaafaaaafaaaafaaaafaaaafaaaafaaaafaaaafaaaafaaaafaaaafaaaafaaaafaaaafaaaafaaaafaaaafaaaafaaaafaaaafaaaafaaaafaaaafaaaafaaaafaaaafaaaafaaaafaaaafaaaafaaaafaaaafaaaafaaaafaaaafaaaafaaaafaaaafaaaafaaaafaaaafaaaafaaaafaaaafaaaafaaaafaaaafaaaafaaaafaaaafaaaafaaaafaaaafaaaafaaaafaaaafaaaafaaaafaaaafaaaafaaaafaaaafaaaafaaaafaaaafaaaafaaaafaaaafaaaafaaaafaaaafaaaafaaaafaaaafaaaafaaaafaaaafaaaafaaaafaaaafaaaafaaaafaaaafaaaafaaaafaaaafaaaafaaaafaaaafaaaafaaaafaaaafaaaafaaaafaaaafaaaafaaaafaaaafaaaafaaaafaaaafaaaafaaaafaaaafaaaafaaaafaaaafaaaafaaaafaaaafaaaafaaaafaaaafaaaafaaaafaaaafaaaafaaaafaaaafaaaafaaaafaaaafaaaafaaaafaaaafaaaafaaaafaaaafaaaafaaaafaaaafaaaafaaaafaaaafaaaafaaaafaaaafaaaafaaaafaaaafaaaafaaaafaaaafaaaafaaaafaaaafaaaafaaaafaaaafaaaafaaaafaaaafaaaafaaaafaaaafaaaafaaaafaaaafaaaafaaaafaaaafaaaafaaaafaaaafaaaafaaaafaaaafaaaafaaaafaaaafaaaafaaaafaaaafaaaafaaaafaaaafaaaafaaaafaaaafaaaafaaaafaaaafaaaafaaaafaaaafaaaafaaaafaaaafaaaafaaaafaaaafaaaafaaaafaaaafaaaafaaaafaaaafaaaafaaaafaaaafaaaafaaaafaaaafaaaafaaaafaaaafaaaafaaaafaaaafaaaafaaaafaaaafaaaafaaaafaaaafaaaafaaaafaaaafaaaafaaaafaaaafaaaafaaaafaaaafaaaafaaaafaaaafaaaafaaaafaaaafaaaafaaaafaaaafaaaafaaaafaaaafaaaafaaaafaaaafaaaafaaaafaaaafaaaafaaaafaaaafaaaafaaaafaaaafaaaafaaaafaaaafaaaafaaaafaaaafaaaafaaaafaaaafaaaafaaaafaaaafaaaafaaaafaaaafaaaafaaaafaaaafaaaafaaaafaaaafaaaafaaaafaaaafaaaafaaaafaaaafaaaafaaaafaaaafaaaafaaaafaaaafaaaafaaaafaaaafaaaafaaaafaaaafaaaafaaaafaaaafaaaafaaaafaaaafaaaafaaaafaaaafaaaafaaaafaaaafaaaafaaaafaaaafaaaafaaaafaaaafaaaafaaaafaaaafaaaafaaaafaaaafaaaafaaaafaaaafaaaafaaaafaaaafaaaafaaaafaaaafaaaafaaaafaaaafaaaafaaaafaaaafaaaafaaaafaaaafaaaafaaaafaaaafaaaafaaaafaaaafaaaafaaaafaaaafaaaafaaaafaaaafaaaafaaaafaaaafaaaafaaaafaaaafaaaafaaaafaaaafaaaafaaaafaaaafaaaafaaaafaaaafaaaafaaaafaaaafaaaafaaaafaaaafaaaafaaaafaaaafaaaafaaaafaaaafaaaafaaaafaaaafaaaafaaaafaaaafaaaafaaaafaaaafaaaafaaaafaaaafaaaafaaaafaaaafaaaafaaaafaaaafaaaafaaaafaaaafaaaafaaaafaaaafaaaafaaaafaaaafaaaafaaaafaaaafaaaafaaaafaaaafaaaafaaaafaaaafaaaafaaaafaaaafaaaafaaaafaaaafaaaafaaaafaaaafaaaafaaaafaaaafaaaafaaaafaaaafaaaafaaaafaaaafaaaafaaaafaaaafaaaafaaaafaaaafaaaafaaaafaaaafaaaafaaaafaaaafaaaafaaaafaaaafaaaafaaaafaaaafaaaafaaaafaaaafaaaafaaaafaaaafaaaafaaaafaaaafaaaafaaaafaaaafaaaafaaaafaaaafaaaafaaaafaaaafaaaafaaaafaaaafaaaafaaaafaaaafaaaafaaaafaaaafaaaafaaaafaaaafaaaafaaaafaaaafaaaafaaaafaaaafaaaafaaaafaaaafaaaafaaaafaaaafaaaafaaaafaaaafaaaafaaaafaaaafaaaafaaaafaaaafaaaafaaaafaaaafaaaafaaaafaaaafaaaafaaaafaaaafaaaafaaaafaaaafaaaafaaaafaaaafaaaafaaaafaaaafaaaafaaaafaaaafaaaafaaaafaaaafaaaafaaaafaaaafaaaafaaaafaaaafaaaafaaaafaaaafaaaafaaaafaaaafaaaafaaaafaaaafaaaafaaaafaaaafaaaafaaaafaaaafaaaafaaaafaaaafaaaafaaaafaaaafaaaafaaaafaaaafaaaafaaaafaaaafaaaafaaaafaaaafaaaafaaaafaaaafaaaafaaaafaaaafaaaafaaaafaaaafaaaafaaaafaaaafaaaafaaaafaaaafaaaafaaaafaaaafaaaafaaaafaaaafaaaafaaaafaaaafaaaafaaaafaaaafaaaafaaaafaaaafaaaafaaaafaaaafaaaafaaaafaaaafaaaafaaaafaaaafaaaafaaaafaaaafaaaafaaaafaaaafaaaafaaaafaaaafaaaafaaaafaaaafaaaafaaaafaaaafaaaafaaaafaaaafaaaafaaaafaaaafaaaafaaaafaaaafaaaafaaaafaaaafaaaafaaaafaaaafaaaafaaaafaaaafaaaafaaaafaaaafaaaafaaaafaaaafaaaafaaaafaaaafaaaafaaaafaaaafaaaafaaaafaaaafaaaafaaaafaaaafaaaafaaaafaaaafaaaafaaaafaaaafaaaafaaaafaaaafaaaafaaaafaaaafaaaafaaaafaaaafaaaafaaaafaaaafaaaafaaaafaaaafaaaafaaaafaaaafaaaafaaaafaaaafaaaafaaaafaaaafaaaafaaaafaaaafaaaafaaaafaaaafaaaafaaaafaaaafaaaafaaaafaaaafaaaafaaaafaaaafaaaafaaaafaaaafaaaafaaaafaaaafaaaafaaaafaaaafaaaafaaaafaaaafaaaafaaaafaaaafaaaafaaaafaaaafaaaafaaaafaaaafaaaafaaaafaaaafaaaafaaaafaaaafaaaafaaaafaaaafaaaafaaaafaaaafaaaafaaaafaaaafaaaafaaaafaaaafaaaafaaaafaaaafaaaafaaaafaaaafaaaafaaaafaaaafaaaafaaaafaaaafaaaafaaaafaaaafaaaafaaaafaaaafaaaafaaaafaaaafaaaafaaaafaaaafaaaafaaaafaaaafaaaafaaaafaaaafaaaafaaaafaaaafaaaafaaaafaaaafaaaafaaaafaaaafaaaafaaaafaaaafaaaafaaaafaaaafaaaafaaaafaaaafaaaafaaaafaaaafaaaafaaaafaaaafaaaafaaaafaaaafaaaafaaaafaaaafaaaafaaaafaaaafaaaafaaaafaaaafaaaafaaaafaaaafaaaafaaaafaaaafaaaafaaaafaaaafaaaafaaaafaaaafaaaafaaaafaaaafaaaafaaaafaaaafaaaafaaaafaaaafaaaafaaaafaaaafaaaafaaaafaaaafaaaafaaaafaaaafaaaafaaaafaaaafaaaafaaaafaaaafaaaafaaaafaaaafaaaafaaaafaaaafaaaafaaaafaaaafaaaafaaaafaaaafaaaafaaaafaaaafaaaafaaaafaaaafaaaafaaaafaaaafaaaafaaaafaaaafaaaafaaaafaaaafaaaafaaaafaaaafaaaafaaaafaaaafaaaafaaaafaaaafaaaafaaaafaaaafaaaafaaaafaaaafaaaafaaaafaaaafaaaafaaaafaaaafaaaafaaaafaaaafaaaafaaaafaaaafaaaafaaaafaaaafaaaafaaaafaaaafaaaafaaaafaaaafaaaafaaaafaaaafaaaafaaaafaaaafaaaafaaaafaaaafaaaafaaaafaaaafaaaafaaaafaaaafaaaafaaaafaaaafaaaafaaaafaaaafaaaafaaaafaaaafaaaafaaaafaaaafaaaafaaaafaaaafaaaafaaaafaaaafaaaafaaaafaaaafaaaafaaaafaaaafaaaafaaaafaaaafaaaafaaaafaaaafaaaafaaaafaaaafaaaafaaaafaaaafaaaafaaaafaaaafaaaafaaaafaaaafaaaafaaaafaaaafaaaafaaaafaaaafaaaafaaaafaaaafaaaafaaaafaaaafaaaafaaaafaaaafaaaafaaaafaaaafaaaafaaaafaaaafaaaafaaaafaaaafaaaafaaaafaaaafaaaafaaaafaaaafaaaafaaaafaaaafaaaafaaaafaaaafaaaafaaaafaaaafaaaafaaaafaaaafaaaafaaaafaaaafaaaafaaaafaaaafaaaafaaaafaaaafaaaafaaaafaaaafaaaafaaaafaaaafaaaafaaaafaaaafaaaafaaaafaaaafaaaafaaaafaaaafaaaafaaaafaaaafaaaafaaaafaaaafaaaafaaaafaaaafaaaafaaaafaaaafaaaafaaaafaaaafaaaafaaaafaaaafaaaafaaaafaaaafaaaafaaaafaaaafaaaafaaaafaaaafaaaafaaaafaaaafaaaafaaaafaaaafaaaafaaaafaaaafaaaafaaaafaaaafaaaafaaaafaaaafaaaafaaaafaaaafaaaafaaaafaaaafaaaafaaaafaaaafaaaafaaaafaaaafaaaafaaaafaaaafaaaafaaaafaaaafaaaafaaaafaaaafaaaafaaaafaaaafaaaafaaaafaaaafaaaafaaaafaaaafaaaafaaaafaaaafaaaafaaaafaaaafaaaafaaaafaaaafaaaafaaaafaaaafaaaafaaaafaaaafaaaafaaaafaaaafaaaafaaaafaaaafaaaafaaaafaaaafaaaafaaaafaaaafaaaafaaaafaaaafaaaafaaaafaaaafaaaafaaaafaaaafaaaafaaaafaaaafaaaafaaaafaaaafaaaafaaaafaaaafaaaafaaaafaaaafaaaafaaaafaaaafaaaafaaaafaaaafaaaafaaaafaaaafaaaafaaaafaaaafaaaafaaaafaaaafaaaafaaaafaaaafaaaafaaaafaaaafaaaafaaaafaaaafaaaafaaaafaaaafaaaafaaaafaaaafaaaafaaaafaaaafaaaafaaaafaaaafaaaafaaaafaaaafaaaafaaaafaaaafaaaafaaaafaaaafaaaafaaaafaaaafaaaafaaaafaaaafaaaafaaaafaaaafaaaafaaaafaaaafaaaafaaaafaaaafaaaafaaaafaaaafaaaafaaaafaaaafaaaafaaaafaaaafaaaafaaaafaaaafaaaafaaaafaaaafaaaafaaaafaaaafaaaafaaaafaaaafaaaafaaaafaaaafaaaafaaaafaaaafaaaafaaaafaaaafaaaafaaaafaaaafaaaafaaaafaaaafaaaafaaaafaaaafaaaafaaaafaaaafaaaafaaaafaaaafaaaafaaaafaaaafaaaafaaaafaaaafaaaafaaaafaaaafaaaafaaaafaaaafaaaafaaaafaaaafaaaafaaaafaaaafaaaafaaaafaaaafaaaafaaaafaaaafaaaafaaaafaaaafaaaafaaaafaaaafaaaafaaaafaaaafaaaafaaaafaaaafaaaafaaaafaaaafaaaafaaaafaaaafaaaafaaaafaaaafaaaafaaaafaaaafaaaafaaaafaaaafaaaafaaaafaaaafaaaafaaaafaaaafaaaafaaaafaaaafaaaafaaaafaaaafaaaafaaaafaaaafaaaafaaaafaaaafaaaafaaaafaaaafaaaafaaaafaaaafaaaafaaaafaaaafaaaafaaaafaaaafaaaafaaaafaaaafaaaafaaaafaaaafaaaafaaaafaaaafaaaafaaaafaaaafaaaafaaaafaaaafaaaafaaaafaaaafaaaafaaaafaaaafaaaafaaaafaaaafaaaafaaaafaaaafaaaafaaaafaaaafaaaafaaaafaaaafaaaafaaaafaaaafaaaafaaaafaaaafaaaafaaaafaaaafaaaafaaaafaaaafaaaafaaaafaaaafaaaafaaaafaaaafaaaafaaaafaaaafaaaafaaaafaaaafaaaafaaaafaaaafaaaafaaaafaaaafaaaafaaaafaaaafaaaafaaaafaaaafaaaafaaaafaaaafaaaafaaaafaaaafaaaafaaaafaaaafaaaafaaaafaaaafaaaafaaaafaaaafaaaafaaaafaaaafaaaafaaaafaaaafaaaafaaaafaaaafaaaafaaaafaaaafaaaafaaaafaaaafaaaafaaaafaaaafaaaafaaaafaaaafaaaafaaaafaaaafaaaafaaaafaaaafaaaafaaaafaaaafaaaafaaaafaaaafaaaafaaaafaaaafaaaafaaaafaaaafaaaafaaaafaaaafaaaafaaaafaaaafaaaafaaaafaaaafaaaafaaaafaaaafaaaafaaaafaaaafaaaafaaaafaaaafaaaafaaaafaaaafaaaafaaaafaaaafaaaafaaaafaaaafaaaafaaaafaaaafaaaafaaaafaaaafaaaafaaaafaaaafaaaafaaaafaaaafaaaafaaaafaaaafaaaafaaaafaaaafaaaafaaaafaaaafaaaafaaaafaaaafaaaafaaaafaaaafaaaafaaaafaaaafaaaafaaaafaaaafaaaafaaaafaaaafaaaafaaaafaaaafaaaafaaaafaaaafaaaafaaaafaaaafaaaafaaaafaaaafaaaafaaaafaaaafaaaafaaaafaaaafaaaafaaaafaaaafaaaafaaaafaaaafaaaafaaaafaaaafaaaafaaaafaaaafaaaafaaaafaaaafaaaafaaaafaaaafaaaafaaaafaaaafaaaafaaaafaaaafaaaafaaaafaaaafaaaafaaaafaaaafaaaafaaaafaaaafaaaafaaaafaaaafaaaafaaaafaaaafaaaafaaaafaaaafaaaafaaaafaaaafaaaafaaaafaaaafaaaafaaaafaaaafaaaafaaaafaaaafaaaafaaaafaaaafaaaafaaaafaaaafaaaafaaaafaaaafaaaafaaaafaaaafaaaafaaaafaaaafaaaafaaaafaaaafaaaafaaaafaaaafaaaafaaaafaaaafaaaafaaaafaaaafaaaafaaaafaaaafaaaafaaaafaaaafaaaafaaaafaaaafaaaafaaaafaaaafaaaafaaaafaaaafaaaafaaaafaaaafaaaafaaaafaaaafaaaafaaaafaaaafaaaafaaaafaaaafaaaafaaaafaaaafaaaafaaaafaaaafaaaafaaaafaaaafaaaafaaaafaaaafaaaafaaaafaaaafaaaafaaaafaaaafaaaafaaaafaaaafaaaafaaaafaaaafaaaafaaaafaaaafaaaafaaaafaaaafaaaafaaaafaaaafaaaafaaaafaaaafaaaafaaaafaaaafaaaafaaaafaaaafaaaafaaaafaaaafaaaafaaaafaaaafaaaafaaaafaaaafaaaafaaaafaaaafaaaafaaaafaaaafaaaafaaaafaaaafaaaafaaaafaaaafaaaafaaaafaaaafaaaafaaaafaaaafaaaafaaaafaaaafaaaafaaaafaaaafaaaafaaaafaaaafaaaafaaaafaaaafaaaafaaaafaaaafaaaafaaaafaaaafaaaafaaaafaaaafaaaafaaaafaaaafaaaafaaaafaaaafaaaafaaaafaaaafaaaafaaaafaaaafaaaafaaaafaaaafaaaafaaaafaaaafaaaafaaaafaaaafaaaafaaaafaaaafaaaafaaaafaaaafaaaafaaaafaaaafaaaafaaaafaaaafaaaafaaaafaaaafaaaafaaaafaaaafaaaafaaaafaaaafaaaafaaaafaaaafaaaafaaaafaaaafaaaafaaaafaaaafaaaafaaaafaaaafaaaafaaaafaaaafaaaafaaaafaaaafaaaafaaaafaaaafaaaafaaaafaaaafaaaafaaaafaaaafaaaafaaaafaaaafaaaafaaaafaaaafaaaafaaaafaaaafaaaafaaaafaaaafaaaafaaaafaaaafaaaafaaaafaaaafaaaafaaaafaaaafaaaafaaaafaaaafaaaafaaaafaaaafaaaafaaaafaaaafaaaafaaaafaaaafaaaafaaaafaaaafaaaafaaaafaaaafaaaafaaaafaaaafaaaafaaaafaaaafaaaafaaaafaaaafaaaafaaaafaaaafaaaafaaaafaaaafaaaafaaaafaaaafaaaafaaaafaaaafaaaafaaaafaaaafaaaafaaaafaaaafaaaafaaaafaaaafaaaafaaaafaaaafaaaafaaaafaaaafaaaafaaaafaaaafaaaafaaaafaaaafaaaafaaaafaaaafaaaafaaaafaaaafaaaafaaaafaaaafaaaafaaaafaaaafaaaafaaaafaaaafaaaafaaaafaaaafaaaafaaaafaaaafaaaafaaaafaaaafaaaafaaaafaaaafaaaafaaaafaaaafaaaafaaaafaaaafaaaafaaaafaaaafaaaafaaaafaaaafaaaafaaaafaaaafaaaafaaaafaaaafaaaafaaaafaaaafaaaafaaaafaaaafaaaafaaaafaaaafaaaafaaaafaaaafaaaafaaaafaaaafaaaafaaaafaaaafaaaafaaaafaaaafaaaafaaaafaaaafaaaafaaaafaaaafaaaafaaaafaaaafaaaafaaaafaaaafaaaafaaaafaaaafaaaafaaaafaaaafaaaafaaaafaaaafaaaafaaaafaaaafaaaafaaaafaaaafaaaafaaaafaaaafaaaafaaaafaaaafaaaafaaaafaaaafaaaafaaaafaaaafaaaafaaaafaaaafaaaafaaaafaaaafaaaafaaaafaaaafaaaafaaaafaaaafaaaafaaaafaaaafaaaafaaaafaaaafaaaafaaaafaaaafaaaafaaaafaaaafaaaafaaaafaaaafaaaafaaaafaaaafaaaafaaaafaaaafaaaafaaaafaaaafaaaafaaaafaaaafaaaafaaaafaaaafaaaafaaaafaaaafaaaafaaaafaaaafaaaafaaaafaaaafaaaafaaaafaaaafaaaafaaaafaaaafaaaafaaaafaaaafaaaafaaaafaaaafaaaafaaaafaaaafaaaafaaaafaaaafaaaafaaaafaaaafaaaafaaaafaaaafaaaafaaaafaaaafaaaafaaaafaaaafaaaafaaaafaaaafaaaafaaaafaaaafaaaafaaaafaaaafaaaafaaaafaaaafaaaafaaaafaaaafaaaafaaaafaaaafaaaafaaaafaaaafaaaafaaaafaaaafaaaafaaaafaaaafaaaafaaaafaaaafaaaafaaaafaaaafaaaafaaaafaaaafaaaafaaaafaaaafaaaafaaaafaaaafaaaafaaaafaaaafaaaafaaaafaaaafaaaafaaaafaaaafaaaafaaaafaaaafaaaafaaaafaaaafaaaafaaaafaaaafaaaafaaaafaaaafaaaafaaaafaaaafaaaafaaaafaaaafaaaafaaaafaaaafaaaafaaaafaaaafaaaafaaaafaaaafaaaafaaaafaaaafaaaafaaaafaaaafaaaafaaaafaaaafaaaafaaaafaaaafaaaafaaaafaaaafaaaafaaaafaaaafaaaafaaaafaaaafaaaafaaaafaaaafaaaafaaaafaaaafaaaafaaaafaaaafaaaafaaaafaaaafaaaafaaaafaaaafaaaafaaaafaaaafaaaafaaaafaaaafaaaafaaaafaaaafaaaafaaaafaaaafaaaafaaaafaaaafaaaafaaaafaaaafaaaafaaaafaaaafaaaafaaaafaaaafaaaafaaaafaaaafaaaafaaaafaaaafaaaafaaaafaaaafaaaafaaaafaaaafaaaafaaaafaaaafaaaafaaaafaaaafaaaafaaaafaaaafaaaafaaaafaaaafaaaafaaaafaaaafaaaafaaaafaaaafaaaafaaaafaaaafaaaafaaaafaaaafaaaafaaaafaaaafaaaafaaaafaaaafaaaafaaaafaaaafaaaafaaaafaaaafaaaafaaaafaaaafaaaafaaaafaaaafaaaafaaaafaaaafaaaafaaaafaaaafaaaafaaaafaaaafaaaafaaaafaaaafaaaafaaaafaaaafaaaafaaaafaaaafaaaafaaaafaaaafaaaafaaaafaaaafaaaafaaaafaaaafaaaafaaaafaaaafaaaafaaaafaaaafaaaafaaaafaaaafaaaafaaaafaaaafaaaafaaaafaaaafaaaafaaaafaaaafaaaafaaaafaaaafaaaafaaaafaaaafaaaafaaaafaaaafaaaafaaaafaaaafaaaafaaaafaaaafaaaafaaaafaaaafaaaafaaaafaaaafaaaafaaaafaaaafaaaafaaaafaaaafaaaafaaaafaaaafaaaafaaaafaaaafaaaafaaaafaaaafaaaafaaaafaaaafaaaafaaaafaaaafaaaafaaaafaaaafaaaafaaaafaaaafaaaafaaaafaaaafaaaafaaaafaaaafaaaafaaaafaaaafaaaafaaaafaaaafaaaafaaaafaaaafaaaafaaaafaaaafaaaafaaaafaaaafaaaafaaaafaaaafaaaafaaaafaaaafaaaafaaaafaaaafaaaafaaaafaaaafaaaafaaaafaaaafaaaafaaaafaaaafaaaafaaaafaaaafaaaafaaaafaaaafaaaafaaaafaaaafaaaafaaaafaaaafaaaafaaaafaaaafaaaafaaaafaaaafaaaafaaaafaaaafaaaafaaaafaaaafaaaafaaaafaaaafaaaafaaaafaaaafaaaafaaaafaaaafaaaafaaaafaaaafaaaafaaaafaaaafaaaafaaaafaaaafaaaafaaaafaaaafaaaafaaaafaaaafaaaafaaaafaaaafaaaafaaaafaaaafaaaafaaaafaaaafaaaafaaaafaaaafaaaafaaaafaaaafaaaafaaaafaaaafaaaafaaaafaaaafaaaafaaaafaaaafaaaafaaaafaaaafaaaafaaaafaaaafaaaafaaaafaaaafaaaafaaaafaaaafaaaafaaaafaaaafaaaafaaaafaaaafaaaafaaaafaaaafaaaafaaaafaaaafaaaafaaaafaaaafaaaafaaaafaaaafaaaafaaaafaaaafaaaafaaaafaaaafaaaafaaaafaaaafaaaafaaaafaaaafaaaafaaaafaaaafaaaafaaaafaaaafaaaafaaaafaaaafaaaafaaaafaaaafaaaafaaaafaaaafaaaafaaaafaaaafaaaafaaaafaaaafaaaafaaaafaaaafaaaafaaaafaaaafaaaafaaaafaaaafaaaafaaaafaaaafaaaafaaaafaaaafaaaafaaaafaaaafaaaafaaaafaaaafaaaafaaaafaaaafaaaafaaaafaaaafaaaafaaaafaaaafaaaafaaaafaaaafaaaafaaaafaaaafaaaafaaaafaaaafaaaafaaaafaaaafaaaafaaaafaaaafaaaafaaaafaaaafaaaafaaaafaaaafaaaafaaaafaaaafaaaafaaaafaaaafaaaafaaaafaaaafaaaafaaaafaaaafaaaafaaaafaaaafaaaafaaaafaaaafaaaafaaaafaaaafaaaafaaaafaaaafaaaafaaaafaaaafaaaafaaaafaaaafaaaafaaaafaaaafaaaafaaaafaaaafaaaafaaaafaaaafaaaafaaaafaaaafaaaafaaaafaaaafaaaafaaaafaaaafaaaafaaaafaaaafaaaafaaaafaaaafaaaafaaaafaaaafaaaafaaaafaaaafaaaafaaaafaaaafaaaafaaaafaaaafaaaafaaaafaaaafaaaafaaaafaaaafaaaafaaaafaaaafaaaafaaaafaaaafaaaafaaaafaaaafaaaafaaaafaaaafaaaafaaaafaaaafaaaafaaaafaaaafaaaafaaaafaaaafaaaafaaaafaaaafaaaafaaaafaaaafaaaafaaaafaaaafaaaafaaaafaaaafaaaafaaaafaaaafaaaafaaaafaaaafaaaafaaaafaaaafaaaafaaaafaaaafaaaafaaaafaaaafaaaafaaaafaaaafaaaafaaaafaaaafaaaafaaaafaaaafaaaafaaaafaaaafaaaafaaaafaaaafaaaafaaaafaaaafaaaafaaaafaaaafaaaafaaaafaaaafaaaafaaaafaaaafaaaafaaaafaaaafaaaafaaaafaaaafaaaafaaaafaaaafaaaafaaaafaaaafaaaafaaaafaaaafaaaafaaaafaaaafaaaafaaaafaaaafaaaafaaaafaaaafaaaafaaaafaaaafaaaafaaaafaaaafaaaafaaaafaaaafaaaafaaaafaaaafaaaafaaaafaaaafaaaafaaaafaaaafaaaafaaaafaaaafaaaafaaaafaaaafaaaafaaaafaaaafaaaafaaaafaaaafaaaafaaaafaaaafaaaafaaaafaaaafaaaafaaaafaaaafaaaafaaaafaaaafaaaafaaaafaaaafaaaafaaaafaaaafaaaafaaaafaaaafaaaafaaaafaaaafaaaafaaaafaaaafaaaafaaaafaaaafaaaafaaaafaaaafaaaafaaaafaaaafaaaafaaaafaaaafaaaafaaaafaaaafaaaafaaaafaaaafaaaafaaaafaaaafaaaafaaaafaaaafaaaafaaaafaaaafaaaafaaaafaaaafaaaafaaaafaaaafaaaafaaaafaaaafaaaafaaaafaaaafaaaafaaaafaaaafaaaafaaaafaaaafaaaafaaaafaaaafaaaafaaaafaaaafaaaafaaaafaaaafaaaafaaaafaaaafaaaafaaaafaaaafaaaafaaaafaaaafaaaafaaaafaaaafaaaafaaaafaaaafaaaafaaaafaaaafaaaafaaaafaaaafaaaafaaaafaaaafaaaafaaaafaaaafaaaafaaaafaaaafaaaafaaaafaaaafaaaafaaaafaaaafaaaafaaaafaaaafaaaafaaaafaaaafaaaafaaaafaaaafaaaafaaaafaaaafaaaafaaaafaaaafaaaafaaaafaaaafaaaafaaaafaaaafaaaafaaaafaaaafaaaafaaaafaaaafaaaafaaaafaaaafaaaafaaaafaaaafaaaafaaaafaaaafaaaafaaaafaaaafaaaafaaaafaaaafaaaafaaaafaaaafaaaafaaaafaaaafaaaafaaaafaaaafaaaafaaaafaaaafaaaafaaaafaaaafaaaafaaaafaaaafaaaafaaaafaaaafaaaafaaaafaaaafaaaafaaaafaaaafaaaafaaaafaaaafaaaafaaaafaaaafaaaafaaaafaaaafaaaafaaaafaaaafaaaafaaaafaaaafaaaafaaaafaaaafaaaafaaaafaaaafaaaafaaaafaaaafaaaafaaaafaaaafaaaafaaaafaaaafaaaafaaaafaaaafaaaafaaaafaaaafaaaafaaaafaaaafaaaafaaaafaaaafaaaafaaaafaaaafaaaafaaaafaaaafaaaafaaaafaaaafaaaafaaaafaaaafaaaafaaaafaaaafaaaafaaaafaaaafaaaafaaaafaaaafaaaafaaaafaaaafaaaafaaaafaaaafaaaafaaaafaaaafaaaafaaaafaaaafaaaafaaaafaaaafaaaafaaaafaaaafaaaafaaaafaaaafaaaafaaaafaaaafaaaafaaaafaaaafaaaafaaaafaaaafaaaafaaaafaaaafaaaafaaaafaaaafaaaafaaaafaaaafaaaafaaaafaaaafaaaafaaaafaaaafaaaafaaaafaaaafaaaafaaaafaaaafaaaafaaaafaaaafaaaafaaaafaaaafaaaafaaaafaaaafaaaafaaaafaaaafaaaafaaaafaaaafaaaafaaaafaaaafaaaafaaaafaaaafaaaafaaaafaaaafaaaafaaaafaaaafaaaafaaaafaaaafaaaafaaaafaaaafaaaafaaaafaaaafaaaafaaaafaaaafaaaafaaaafaaaafaaaafaaaafaaaafaaaafaaaafaaaafaaaafaaaafaaaafaaaafaaaafaaaafaaaafaaaafaaaafaaaafaaaafaaaafaaaafaaaafaaaafaaaafaaaafaaaafaaaafaaaafaaaafaaaafaaaafaaaafaaaafaaaafaaaafaaaafaaaafaaaafaaaafaaaafaaaafaaaafaaaafaaaafaaaafaaaafaaaafaaaafaaaafaaaafaaaafaaaafaaaafaaaafaaaafaaaafaaaafaaaafaaaafaaaafaaaafaaaafaaaafaaaafaaaafaaaafaaaafaaaafaaaafaaaafaaaafaaaafaaaafaaaafaaaafaaaafaaaafaaaafaaaafaaaafaaaafaaaafaaaafaaaafaaaafaaaafaaaafaaaafaaaafaaaafaaaafaaaafaaaafaaaafaaaafaaaafaaaafaaaafaaaafaaaafaaaafaaaafaaaafaaaafaaaafaaaafaaaafaaaafaaaafaaaafaaaafaaaafaaaafaaaafaaaafaaaafaaaafaaaafaaaafaaaafaaaafaaaafaaaafaaaafaaaafaaaafaaaafaaaafaaaafaaaafaaaafaaaafaaaafaaaafaaaafaaaafaaaafaaaafaaaafaaaafaaaafaaaafaaaafaaaafaaaafaaaafaaaafaaaafaaaafaaaafaaaafaaaafaaaafaaaafaaaafaaaafaaaafaaaafaaaafaaaafaaaafaaaafaaaafaaaafaaaafaaaafaaaafaaaafaaaafaaaafaaaafaaaafaaaafaaaafaaaafaaaafaaaafaaaafaaaafaaaafaaaafaaaafaaaafaaaafaaaafaaaafaaaafaaaafaaaafaaaafaaaafaaaafaaaafaaaafaaaafaaaafaaaafaaaafaaaafaaaafaaaafaaaafaaaafaaaafaaaafaaaafaaaafaaaafaaaafaaaafaaaafaaaafaaaafaaaafaaaafaaaafaaaafaaaafaaaafaaaafaaaafaaaafaaaafaaaafaaaafaaaafaaaafaaaafaaaafaaaafaaaafaaaafaaaafaaaafaaaafaaaafaaaafaaaafaaaafaaaafaaaafaaaafaaaafaaaafaaaafaaaafaaaafaaaafaaaafaaaafaaaafaaaafaaaafaaaafaaaafaaaafaaaafaaaafaaaafaaaafaaaafaaaafaaaafaaaafaaaafaaaafaaaafaaaafaaaafaaaafaaaafaaaafaaaafaaaafaaaafaaaafaaaafaaaafaaaafaaaafaaaafaaaafaaaafaaaafaaaafaaaafaaaafaaaafaaaafaaaafaaaafaaaafaaaafaaaafaaaafaaaafaaaafaaaafaaaafaaaafaaaafaaaafaaaafaaaafaaaafaaaafaaaafaaaafaaaafaaaafaaaafaaaafaaaafaaaafaaaafaaaafaaaafaaaafaaaafaaaafaaaafaaaafaaaafaaaafaaaafaaaafaaaafaaaafaaaafaaaafaaaafaaaafaaaafaaaafaaaafaaaafaaaafaaaafaaaafaaaafaaaafaaaafaaaafaaaafaaaafaaaafaaaafaaaafaaaafaaaafaaaafaaaafaaaafaaaafaaaafaaaafaaaafaaaafaaaafaaaafaaaafaaaafaaaafaaaafaaaafaaaafaaaafaaaafaaaafaaaafaaaafaaaafaaaafaaaafaaaafaaaafaaaafaaaafaaaafaaaafaaaafaaaafaaaafaaaafaaaafaaaafaaaafaaaafaaaafaaaafaaaafaaaafaaaafaaaafaaaafaaaafaaaafaaaafaaaafaaaafaaaafaaaafaaaafaaaafaaaafaaaafaaaafaaaafaaaafaaaafaaaafaaaafaaaafaaaafaaaafaaaafaaaafaaaafaaaafaaaafaaaafaaaafaaaafaaaafaaaafaaaafaaaafaaaafaaaafaaaafaaaafaaaafaaaafaaaafaaaafaaaafaaaafaaaafaaaafaaaafaaaafaaaafaaaafaaaafaaaafaaaafaaaafaaaafaaaafaaaafaaaafaaaafaaaafaaaafaaaafaaaafaaaafaaaafaaaafaaaafaaaafaaaafaaaafaaaafaaaafaaaafaaaafaaaafaaaafaaaafaaaafaaaafaaaafaaaafaaaafaaaafaaaafaaaafaaaafaaaafaaaafaaaafaaaafaaaafaaaafaaaafaaaafaaaafaaaafaaaafaaaafaaaafaaaafaaaafaaaafaaaafaaaafaaaafaaaafaaaafaaaafaaaafaaaafaaaafaaaafaaaafaaaafaaaafaaaafaaaafaaaafaaaafaaaafaaaafaaaafaaaafaaaafaaaafaaaafaaaafaaaafaaaafaaaafaaaafaaaafaaaafaaaafaaaafaaaafaaaafaaaafaaaafaaaafaaaafaaaafaaaafaaaafaaaafaaaafaaaafaaaafaaaafaaaafaaaafaaaafaaaafaaaafaaaafaaaafaaaafaaaafaaaafaaaafaaaafaaaafaaaafaaaafaaaafaaaafaaaafaaaafaaaafaaaafaaaafaaaafaaaafaaaafaaaafaaaafaaaafaaaafaaaafaaaafaaaafaaaafaaaafaaaafaaaafaaaafaaaafaaaafaaaafaaaafaaaafaaaafaaaafaaaafaaaafaaaafaaaafaaaafaaaafaaaafaaaafaaaafaaaafaaaafaaaafaaaafaaaafaaaafaaaafaaaafaaaafaaaafaaaafaaaafaaaafaaaafaaaafaaaafaaaafaaaafaaaafaaaafaaaafaaaafaaaafaaaafaaaafaaaafaaaafaaaafaaaafaaaafaaaafaaaafaaaafaaaafaaaafaaaafaaaafaaaafaaaafaaaafaaaafaaaafaaaafaaaafaaaafaaaafaaaafaaaafaaaafaaaafaaaafaaaafaaaafaaaafaaaafaaaafaaaafaaaafaaaafaaaafaaaafaaaafaaaafaaaafaaaafaaaafaaaafaaaafaaaafaaaafaaaafaaaafaaaafaaaafaaaafaaaafaaaafaaaafaaaafaaaafaaaafaaaafaaaafaaaafaaaafaaaafaaaafaaaafaaaafaaaafaaaafaaaafaaaafaaaafaaaafaaaafaaaafaaaafaaaafaaaafaaaafaaaafaaaafaaaafaaaafaaaafaaaafaaaafaaaafaaaafaaaafaaaafaaaafaaaafaaaafaaaafaaaafaaaafaaaafaaaafaaaafaaaafaaaafaaaafaaaafaaaafaaaafaaaafaaaafaaaafaaaafaaaafaaaafaaaafaaaafaaaafaaaafaaaafaaaafaaaafaaaafaaaafaaaafaaaafaaaafaaaafaaaafaaaafaaaafaaaafaaaafaaaafaaaafaaaafaaaafaaaafaaaafaaaafaaaafaaaafaaaafaaaafaaaafaaaafaaaafaaaafaaaafaaaafaaaafaaaafaaaafaaaafaaaafaaaafaaaafaaaafaaaafaaaafaaaafaaaafaaaafaaaafaaaafaaaafaaaafaaaafaaaafaaaafaaaafaaaafaaaafaaaafaaaafaaaafaaaafaaaafaaaafaaaafaaaafaaaafaaaafaaaafaaaafaaaafaaaafaaaafaaaafaaaafaaaafaaaafaaaafaaaafaaaafaaaafaaaafaaaafaaaafaaaafaaaafaaaafaaaafaaaafaaaafaaaafaaaafaaaafaaaafaaaafaaaafaaaafaaaafaaaafaaaafaaaafaaaafaaaafaaaafaaaafaaaafaaaafaaaafaaaafaaaafaaaafaaaafaaaafaaaafaaaafaaaafaaaafaaaafaaaafaaaafaaaafaaaafaaaafaaaafaaaafaaaafaaaafaaaafaaaafaaaafaaaafaaaafaaaafaaaafaaaafaaaafaaaafaaaafaaaafaaaafaaaafaaaafaaaafaaaafaaaafaaaafaaaafaaaafaaaafaaaafaaaafaaaafaaaafaaaafaaaafaaaafaaaafaaaafaaaafaaaafaaaafaaaafaaaafaaaafaaaafaaaafaaaafaaaafaaaafaaaafaaaafaaaafaaaafaaaafaaaafaaaafaaaafaaaafaaaafaaaafaaaafaaaafaaaafaaaafaaaafaaaafaaaafaaaafaaaafaaaafaaaafaaaafaaaafaaaafaaaafaaaafaaaafaaaafaaaafaaaafaaaafaaaafaaaafaaaafaaaafaaaafaaaafaaaafaaaafaaaafaaaafaaaafaaaafaaaafaaaafaaaafaaaafaaaafaaaafaaaafaaaafaaaafaaaafaaaafaaaafaaaafaaaafaaaafaaaafaaaafaaaafaaaafaaaafaaaafaaaafaaaafaaaafaaaafaaaafaaaafaaaafaaaafaaaafaaaafaaaafaaaafaaaafaaaafaaaafaaaafaaaafaaaafaaaafaaaafaaaafaaaafaaaafaaaafaaaafaaaafaaaafaaaafaaaafaaaafaaaafaaaafaaaafaaaafaaaafaaaafaaaafaaaafaaaafaaaafaaaafaaaafaaaafaaaafaaaafaaaafaaaafaaaafaaaafaaaafaaaafaaaafaaaafaaaafaaaafaaaafaaaafaaaafaaaafaaaafaaaafaaaafaaaafaaaafaaaafaaaafaaaafaaaafaaaafaaaafaaaafaaaafaaaafaaaafaaaafaaaafaaaafaaaafaaaafaaaafaaaafaaaafaaaafaaaafaaaafaaaafaaaafaaaafaaaafaaaafaaaafaaaafaaaafaaaafaaaafaaaafaaaafaaaafaaaafaaaafaaaafaaaafaaaafaaaafaaaafaaaafaaaafaaaafaaaafaaaafaaaafaaaafaaaafaaaafaaaafaaaafaaaafaaaafaaaafaaaafaaaafaaaafaaaafaaaafaaaafaaaafaaaafaaaafaaaafaaaafaaaafaaaafaaaafaaaafaaaafaaaafaaaafaaaafaaaafaaaafaaaafaaaafaaaafaaaafaaaafaaaafaaaafaaaafaaaafaaaafaaaafaaaafaaaafaaaafaaaafaaaafaaaafaaaafaaaafaaaafaaaafaaaafaaaafaaaafaaaafaaaafaaaafaaaafaaaafaaaafaaaafaaaafaaaafaaaafaaaafaaaafaaaafaaaafaaaafaaaafaaaafaaaafaaaafaaaafaaaafaaaafaaaafaaaafaaaafaaaafaaaafaaaafaaaafaaaafaaaafaaaafaaaafaaaafaaaafaaaafaaaafaaaafaaaafaaaafaaaafaaaafaaaafaaaafaaaafaaaafaaaafaaaafaaaafaaaafaaaafaaaafaaaafaaaafaaaafaaaafaaaafaaaafaaaafaaaafaaaafaaaafaaaafaaaafaaaafaaaafaaaafaaaafaaaafaaaafaaaafaaaafaaaafaaaafaaaafaaaafaaaafaaaafaaaafaaaafaaaafaaaafaaaafaaaafaaaafaaaafaaaafaaaafaaaafaaaafaaaafaaaafaaaafaaaafaaaafaaaafaaaafaaaafaaaafaaaafaaaafaaaafaaaafaaaafaaaafaaaafaaaafaaaafaaaafaaaafaaaafaaaafaaaafaaaafaaaafaaaafaaaafaaaafaaaafaaaafaaaafaaaafaaaafaaaafaaaafaaaafaaaafaaaafaaaafaaaafaaaafaaaafaaaafaaaafaaaafaaaafaaaafaaaafaaaafaaaafaaaafaaaafaaaafaaaafaaaafaaaafaaaafaaaafaaaafaaaafaaaafaaaafaaaafaaaafaaaafaaaafaaaafaaaafaaaafaaaafaaaafaaaafaaaafaaaafaaaafaaaafaaaafaaaafaaaafaaaafaaaafaaaafaaaafaaaafaaaafaaaafaaaafaaaafaaaafaaaafaaaafaaaafaaaafaaaafaaaafaaaafaaaafaaaafaaaafaaaafaaaafaaaafaaaafaaaafaaaafaaaafaaaafaaaafaaaafaaaafaaaafaaaafaaaafaaaafaaaafaaaafaaaafaaaafaaaafaaaafaaaafaaaafaaaafaaaafaaaafaaaafaaaafaaaafaaaafaaaafaaaafaaaafaaaafaaaafaaaafaaaafaaaafaaaafaaaafaaaafaaaafaaaafaaaafaaaafaaaafaaaafaaaafaaaafaaaafaaaafaaaafaaaafaaaafaaaafaaaafaaaafaaaafaaaafaaaafaaaafaaaafaaaafaaaafaaaafaaaafaaaafaaaafaaaafaaaafaaaafaaaafaaaafaaaafaaaafaaaafaaaafaaaafaaaafaaaafaaaafaaaafaaaafaaaafaaaafaaaafaaaafaaaafaaaafaaaafaaaafaaaafaaaafaaaafaaaafaaaafaaaafaaaafaaaafaaaafaaaafaaaafaaaafaaaafaaaafaaaafaaaafaaaafaaaafaaaafaaaafaaaafaaaafaaaafaaaafaaaafaaaafaaaafaaaafaaaafaaaafaaaafaaaafaaaafaaaafaaaafaaaafaaaafaaaafaaaafaaaafaaaafaaaafaaaafaaaafaaaafaaaafaaaafaaaafaaaafaaaafaaaafaaaafaaaafaaaafaaaafaaaafaaaafaaaafaaaafaaaafaaaafaaaafaaaafaaaafaaaafaaaafaaaafaaaafaaaafaaaafaaaafaaaafaaaafaaaafaaaafaaaafaaaafaaaafaaaafaaaafaaaafaaaafaaaafaaaafaaaafaaaafaaaafaaaafaaaafaaaafaaaafaaaafaaaafaaaafaaaafaaaafaaaafaaaafaaaafaaaafaaaafaaaafaaaafaaaafaaaafaaaafaaaafaaaafaaaafaaaafaaaafaaaafaaaafaaaafaaaafaaaafaaaafaaaafaaaafaaaafaaaafaaaafaaaafaaaafaaaafaaaafaaaafaaaafaaaafaaaafaaaafaaaafaaaafaaaafaaaafaaaafaaaafaaaafaaaafaaaafaaaafaaaafaaaafaaaafaaaafaaaafaaaafaaaafaaaafaaaafaaaafaaaafaaaafaaaafaaaafaaaafaaaafaaaafaaaafaaaafaaaafaaaafaaaafaaaafaaaafaaaafaaaafaaaafaaaafaaaafaaaafaaaafaaaafaaaafaaaafaaaafaaaafaaaafaaaafaaaafaaaafaaaafaaaafaaaafaaaafaaaafaaaafaaaafaaaafaaaafaaaafaaaafaaaafaaaafaaaafaaaafaaaafaaaafaaaafaaaafaaaafaaaafaaaafaaaafaaaafaaaafaaaafaaaafaaaafaaaafaaaafaaaafaaaafaaaafaaaafaaaafaaaafaaaafaaaafaaaafaaaafaaaafaaaafaaaafaaaafaaaafaaaafaaaafaaaafaaaafaaaafaaaafaaaafaaaafaaaafaaaafaaaafaaaafaaaafaaaafaaaafaaaafaaaafaaaafaaaafaaaafaaaafaaaafaaaafaaaafaaaafaaaafaaaafaaaafaaaafaaaafaaaafaaaafaaaafaaaafaaaafaaaafaaaafaaaafaaaafaaaafaaaafaaaafaaaafaaaafaaaafaaaafaaaafaaaafaaaafaaaafaaaafaaaafaaaafaaaafaaaafaaaafaaaafaaaafaaaafaaaafaaaafaaaafaaaafaaaafaaaafaaaafaaaafaaaafaaaafaaaafaaaafaaaafaaaafaaaafaaaafaaaafaaaafaaaafaaaafaaaafaaaafaaaafaaaafaaaafaaaafaaaafaaaafaaaafaaaafaaaafaaaafaaaafaaaafaaaafaaaafaaaafaaaafaaaafaaaafaaaafaaaafaaaafaaaafaaaafaaaafaaaafaaaafaaaafaaaafaaaafaaaafaaaafaaaafaaaafaaaafaaaafaaaafaaaafaaaafaaaafaaaafaaaafaaaafaaaafaaaafaaaafaaaafaaaafaaaafaaaafaaaafaaaafaaaafaaaafaaaafaaaafaaaafaaaafaaaafaaaafaaaafaaaafaaaafaaaafaaaafaaaafaaaafaaaafaaaafaaaafaaaafaaaafaaaafaaaafaaaafaaaafaaaafaaaafaaaafaaaafaaaafaaaafaaaafaaaafaaaafaaaafaaaafaaaafaaaafaaaafaaaafaaaafaaaafaaaafaaaafaaaafaaaafaaaafaaaafaaaafaaaafaaaafaaaafaaaafaaaafaaaafaaaafaaaafaaaafaaaafaaaafaaaafaaaafaaaafaaaafaaaafaaaafaaaafaaaafaaaafaaaafaaaafaaaafaaaafaaaafaaaafaaaafaaaafaaaafaaaafaaaafaaaafaaaafaaaafaaaafaaaafaaaafaaaafaaaafaaaafaaaafaaaafaaaafaaaafaaaafaaaafaaaafaaaafaaaafaaaafaaaafaaaafaaaafaaaafaaaafaaaafaaaafaaaafaaaafaaaafaaaafaaaafaaaafaaaafaaaafaaaafaaaafaaaafaaaafaaaafaaaafaaaafaaaafaaaafaaaafaaaafaaaafaaaafaaaafaaaafaaaafaaaafaaaafaaaafaaaafaaaafaaaafaaaafaaaafaaaafaaaafaaaafaaaafaaaafaaaafaaaafaaaafaaaafaaaafaaaafaaaafaaaafaaaafaaaafaaaafaaaafaaaafaaaafaaaafaaaafaaaafaaaafaaaafaaaafaaaafaaaafaaaafaaaafaaaafaaaafaaaafaaaafaaaafaaaafaaaafaaaafaaaafaaaafaaaafaaaafaaaafaaaafaaaafaaaafaaaafaaaafaaaafaaaafaaaafaaaafaaaafaaaafaaaafaaaafaaaafaaaafaaaafaaaafaaaafaaaafaaaafaaaafaaaafaaaafaaaafaaaafaaaafaaaafaaaafaaaafaaaafaaaafaaaafaaaafaaaafaaaafaaaafaaaafaaaafaaaafaaaafaaaafaaaafaaaafaaaafaaaafaaaafaaaafaaaafaaaafaaaafaaaafaaaafaaaafaaaafaaaafaaaafaaaafaaaafaaaafaaaafaaaafaaaafaaaafaaaafaaaafaaaafaaaafaaaafaaaafaaaafaaaafaaaafaaaafaaaafaaaafaaaafaaaafaaaafaaaafaaaafaaaafaaaafaaaafaaaafaaaafaaaafaaaafaaaafaaaafaaaafaaaafaaaafaaaafaaaafaaaafaaaafaaaafaaaafaaaafaaaafaaaafaaaafaaaafaaaafaaaafaaaafaaaafaaaafaaaafaaaafaaaafaaaafaaaafaaaafaaaafaaaafaaaafaaaafaaaafaaaafaaaafaaaafaaaafaaaafaaaafaaaafaaaafaaaafaaaafaaaafaaaafaaaafaaaafaaaafaaaafaaaafaaaafaaaafaaaafaaaafaaaafaaaafaaaafaaaafaaaafaaaafaaaafaaaafaaaafaaaafaaaafaaaafaaaafaaaafaaaafaaaafaaaafaaaafaaaafaaaafaaaafaaaafaaaafaaaafaaaafaaaafaaaafaaaafaaaafaaaafaaaafaaaafaaaafaaaafaaaafaaaafaaaafaaaafaaaafaaaafaaaafaaaafaaaafaaaafaaaafaaaafaaaafaaaafaaaafaaaafaaaafaaaafaaaafaaaafaaaafaaaafaaaafaaaafaaaafaaaafaaaafaaaafaaaafaaaafaaaafaaaafaaaafaaaafaaaafaaaafaaaafaaaafaaaafaaaafaaaafaaaafaaaafaaaafaaaafaaaafaaaafaaaafaaaafaaaafaaaafaaaafaaaafaaaafaaaafaaaafaaaafaaaafaaaafaaaafaaaafaaaafaaaafaaaafaaaafaaaafaaaafaaaafaaaafaaaafaaaafaaaafaaaafaaaafaaaafaaaafaaaafaaaafaaaafaaaafaaaafaaaafaaaafaaaafaaaafaaaafaaaafaaaafaaaafaaaafaaaafaaaafaaaafaaaafaaaafaaaafaaaafaaaafaaaafaaaafaaaafaaaafaaaafaaaafaaaafaaaafaaaafaaaafaaaafaaaafaaaafaaaafaaaafaaaafaaaafaaaafaaaafaaaafaaaafaaaafaaaafaaaafaaaafaaaafaaaafaaaafaaaafaaaafaaaafaaaafaaaafaaaafaaaafaaaafaaaafaaaafaaaafaaaafaaaafaaaafaaaafaaaafaaaafaaaafaaaafaaaafaaaafaaaafaaaafaaaafaaaafaaaafaaaafaaaafaaaafaaaafaaaafaaaafaaaafaaaafaaaafaaaafaaaafaaaafaaaafaaaafaaaafaaaafaaaafaaaafaaaafaaaafaaaafaaaafaaaafaaaafaaaafaaaafaaaafaaaafaaaafaaaafaaaafaaaafaaaafaaaafaaaafaaaafaaaafaaaafaaaafaaaafaaaafaaaafaaaafaaaafaaaafaaaafaaaafaaaafaaaafaaaafaaaafaaaafaaaafaaaafaaaafaaaafaaaafaaaafaaaafaaaafaaaafaaaafaaaafaaaafaaaafaaaafaaaafaaaafaaaafaaaafaaaafaaaafaaaafaaaafaaaafaaaafaaaafaaaafaaaafaaaafaaaafaaaafaaaafaaaafaaaafaaaafaaaafaaaafaaaafaaaafaaaafaaaafaaaafaaaafaaaafaaaafaaaafaaaafaaaafaaaafaaaafaaaafaaaafaaaafaaaafaaaafaaaafaaaafaaaafaaaafaaaafaaaafaaaafaaaafaaaafaaaafaaaafaaaafaaaafaaaafaaaafaaaafaaaafaaaafaaaafaaaafaaaafaaaafaaaafaaaafaaaafaaaafaaaafaaaafaaaafaaaafaaaafaaaafaaaafaaaafaaaafaaaafaaaafaaaafaaaafaaaafaaaafaaaafaaaafaaaafaaaafaaaafaaaafaaaafaaaafaaaafaaaafaaaafaaaafaaaafaaaafaaaafaaaafaaaafaaaafaaaafaaaafaaaafaaaafaaaafaaaafaaaafaaaafaaaafaaaafaaaafaaaafaaaafaaaafaaaafaaaafaaaafaaaafaaaafaaaafaaaafaaaafaaaafaaaafaaaafaaaafaaaafaaaafaaaafaaaafaaaafaaaafaaaafaaaafaaaafaaaafaaaafaaaafaaaafaaaafaaaafaaaafaaaafaaaafaaaafaaaafaaaafaaaafaaaafaaaafaaaafaaaafaaaafaaaafaaaafaaaafaaaafaaaafaaaafaaaafaaaafaaaafaaaafaaaafaaaafaaaafaaaafaaaafaaaafaaaafaaaafaaaafaaaafaaaafaaaafaaaafaaaafaaaafaaaafaaaafaaaafaaaafaaaafaaaafaaaafaaaafaaaafaaaafaaaafaaaafaaaafaaaafaaaafaaaafaaaafaaaafaaaafaaaafaaaafaaaafaaaafaaaafaaaafaaaafaaaafaaaafaaaafaaaafaaaafaaaafaaaafaaaafaaaafaaaafaaaafaaaafaaaafaaaafaaaafaaaafaaaafaaaafaaaafaaaafaaaafaaaafaaaafaaaafaaaafaaaafaaaafaaaafaaaafaaaafaaaafaaaafaaaafaaaafaaaafaaaafaaaafaaaafaaaafaaaafaaaafaaaafaaaafaaaafaaaafaaaafaaaafaaaafaaaafaaaafaaaafaaaafaaaafaaaafaaaafaaaafaaaafaaaafaaaafaaaafaaaafaaaafaaaafaaaafaaaafaaaafaaaafaaaafaaaafaaaafaaaafaaaafaaaafaaaafaaaafaaaafaaaafaaaafaaaafaaaafaaaafaaaafaaaafaaaafaaaafaaaafaaaafaaaafaaaafaaaafaaaafaaaafaaaafaaaafaaaafaaaafaaaafaaaafaaaafaaaafaaaafaaaafaaaafaaaafaaaafaaaafaaaafaaaafaaaafaaaafaaaafaaaafaaaafaaaafaaaafaaaafaaaafaaaafaaaafaaaafaaaafaaaafaaaafaaaafaaaafaaaafaaaafaaaafaaaafaaaafaaaafaaaafaaaafaaaafaaaafaaaafaaaafaaaafaaaafaaaafaaaafaaaafaaaafaaaafaaaafaaaafaaaafaaaafaaaafaaaafaaaafaaaafaaaafaaaafaaaafaaaafaaaafaaaafaaaafaaaafaaaafaaaafaaaafaaaafaaaafaaaafaaaafaaaafaaaafaaaafaaaafaaaafaaaafaaaafaaaafaaaafaaaafaaaafaaaafaaaafaaaafaaaafaaaafaaaafaaaafaaaafaaaafaaaafaaaafaaaafaaaafaaaafaaaafaaaafaaaafaaaafaaaafaaaafaaaafaaaafaaaafaaaafaaaafaaaafaaaafaaaafaaaafaaaafaaaafaaaafaaaafaaaafaaaafaaaafaaaafaaaafaaaafaaaafaaaafaaaafaaaafaaaafaaaafaaaafaaaafaaaafaaaafaaaafaaaafaaaafaaaafaaaafaaaafaaaafaaaafaaaafaaaafaaaafaaaafaaaafaaaafaaaafaaaafaaaafaaaafaaaafaaaafaaaafaaaafaaaafaaaafaaaafaaaafaaaafaaaafaaaafaaaafaaaafaaaafaaaafaaaafaaaafaaaafaaaafaaaafaaaafaaaafaaaafaaaafaaaafaaaafaaaafaaaafaaaafaaaafaaaafaaaafaaaafaaaafaaaafaaaafaaaafaaaafaaaafaaaafaaaafaaaafaaaafaaaafaaaafaaaafaaaafaaaafaaaafaaaafaaaafaaaafaaaafaaaafaaaafaaaafaaaafaaaafaaaafaaaafaaaafaaaafaaaafaaaafaaaafaaaafaaaafaaaafaaaafaaaafaaaafaaaafaaaafaaaafaaaafaaaafaaaafaaaafaaaafaaaafaaaafaaaafaaaafaaaafaaaafaaaafaaaafaaaafaaaafaaaafaaaafaaaafaaaafaaaafaaaafaaaafaaaafaaaafaaaafaaaafaaaafaaaafaaaafaaaafaaaafaaaafaaaafaaaafaaaafaaaafaaaafaaaafaaaafaaaafaaaafaaaafaaaafaaaafaaaafaaaafaaaafaaaafaaaafaaaafaaaafaaaafaaaafaaaafaaaafaaaafaaaafaaaafaaaafaaaafaaaafaaaafaaaafaaaafaaaafaaaafaaaafaaaafaaaafaaaafaaaafaaaafaaaafaaaafaaaafaaaafaaaafaaaafaaaafaaaafaaaafaaaafaaaafaaaafaaaafaaaafaaaafaaaafaaaafaaaafaaaafaaaafaaaafaaaafaaaafaaaafaaaafaaaafaaaafaaaafaaaafaaaafaaaafaaaafaaaafaaaafaaaafaaaafaaaafaaaafaaaafaaaafaaaafaaaafaaaafaaaafaaaafaaaafaaaafaaaafaaaafaaaafaaaafaaaafaaaafaaaafaaaafaaaafaaaafaaaafaaaafaaaafaaaafaaaafaaaafaaaafaaaafaaaafaaaafaaaafaaaafaaaafaaaafaaaafaaaafaaaafaaaafaaaafaaaafaaaafaaaafaaaafaaaafaaaafaaaafaaaafaaaafaaaafaaaafaaaafaaaafaaaafaaaafaaaafaaaafaaaafaaaafaaaafaaaafaaaafaaaafaaaafaaaafaaaafaaaafaaaafaaaafaaaafaaaafaaaafaaaafaaaafaaaafaaaafaaaafaaaafaaaafaaaafaaaafaaaafaaaafaaaafaaaafaaaafaaaafaaaafaaaafaaaafaaaafaaaafaaaafaaaafaaaafaaaafaaaafaaaafaaaafaaaafaaaafaaaafaaaafaaaafaaaafaaaafaaaafaaaafaaaafaaaafaaaafaaaafaaaafaaaafaaaafaaaafaaaafaaaafaaaafaaaafaaaafaaaafaaaafaaaafaaaafaaaafaaaafaaaafaaaafaaaafaaaafaaaafaaaafaaaafaaaafaaaafaaaafaaaafaaaafaaaafaaaafaaaafaaaafaaaafaaaafaaaafaaaafaaaafaaaafaaaafaaaafaaaafaaaafaaaafaaaafaaaafaaaafaaaafaaaafaaaafaaaafaaaafaaaafaaaafaaaafaaaafaaaafaaaafaaaafaaaafaaaafaaaafaaaafaaaafaaaafaaaafaaaafaaaafaaaafaaaafaaaafaaaafaaaafaaaafaaaafaaaafaaaafaaaafaaaafaaaafaaaafaaaafaaaafaaaafaaaafaaaafaaaafaaaafaaaafaaaafaaaafaaaafaaaafaaaafaaaafaaaafaaaafaaaafaaaafaaaafaaaafaaaafaaaafaaaafaaaafaaaafaaaafaaaafaaaafaaaafaaaafaaaafaaaafaaaafaaaafaaaafaaaafaaaafaaaafaaaafaaaafaaaafaaaafaaaafaaaafaaaafaaaafaaaafaaaafaaaafaaaafaaaafaaaafaaaafaaaafaaaafaaaafaaaafaaaafaaaafaaaafaaaafaaaafaaaafaaaafaaaafaaaafaaaafaaaafaaaafaaaafaaaafaaaafaaaafaaaafaaaafaaaafaaaafaaaafaaaafaaaafaaaafaaaafaaaafaaaafaaaafaaaafaaaafaaaafaaaafaaaafaaaafaaaafaaaafaaaafaaaafaaaafaaaafaaaafaaaafaaaafaaaafaaaafaaaafaaaafaaaafaaaafaaaafaaaafaaaafaaaafaaaafaaaafaaaafaaaafaaaafaaaafaaaafaaaafaaaafaaaafaaaafaaaafaaaafaaaafaaaafaaaafaaaafaaaafaaaafaaaafaaaafaaaafaaaafaaaafaaaafaaaafaaaafaaaafaaaafaaaafaaaafaaaafaaaafaaaafaaaafaaaafaaaafaaaafaaaafaaaafaaaafaaaafaaaafaaaafaaaafaaaafaaaafaaaafaaaafaaaafaaaafaaaafaaaafaaaafaaaafaaaafaaaafaaaafaaaafaaaafaaaafaaaafaaaafaaaafaaaafaaaafaaaafaaaafaaaafaaaafaaaafaaaafaaaafaaaafaaaafaaaafaaaafaaaafaaaafaaaafaaaafaaaafaaaafaaaafaaaafaaaafaaaafaaaafaaaafaaaafaaaafaaaafaaaafaaaafaaaafaaaafaaaafaaaafaaaafaaaafaaaafaaaafaaaafaaaafaaaafaaaafaaaafaaaafaaaafaaaafaaaafaaaafaaaafaaaafaaaafaaaafaaaafaaaafaaaafaaaafaaaafaaaafaaaafaaaafaaaafaaaafaaaafaaaafaaaafaaaafaaaafaaaafaaaafaaaafaaaafaaaafaaaafaaaafaaaafaaaafaaaafaaaafaaaafaaaafaaaafaaaafaaaafaaaafaaaafaaaafaaaafaaaafaaaafaaaafaaaafaaaafaaaafaaaafaaaafaaaafaaaafaaaafaaaafaaaafaaaafaaaafaaaafaaaafaaaafaaaafaaaafaaaafaaaafaaaafaaaafaaaafaaaafaaaafaaaafaaaafaaaafaaaafaaaafaaaafaaaafaaaafaaaafaaaafaaaafaaaafaaaafaaaafaaaafaaaafaaaafaaaafaaaafaaaafaaaafaaaafaaaafaaaafaaaafaaaafaaaafaaaafaaaafaaaafaaaafaaaafaaaafaaaafaaaafaaaafaaaafaaaafaaaafaaaafaaaafaaaafaaaafaaaafaaaafaaaafaaaafaaaafaaaafaaaafaaaafaaaafaaaafaaaafaaaafaaaafaaaafaaaafaaaafaaaafaaaafaaaafaaaafaaaafaaaafaaaafaaaafaaaafaaaafaaaafaaaafaaaafaaaafaaaafaaaafaaaafaaaafaaaafaaaafaaaafaaaafaaaafaaaafaaaafaaaafaaaafaaaafaaaafaaaafaaaafaaaafaaaafaaaafaaaafaaaafaaaafaaaafaaaafaaaafaaaafaaaafaaaafaaaafaaaafaaaafaaaafaaaafaaaafaaaafaaaafaaaafaaaafaaaafaaaafaaaafaaaafaaaafaaaafaaaafaaaafaaaafaaaafaaaafaaaafaaaafaaaafaaaafaaaafaaaafaaaafaaaafaaaafaaaafaaaafaaaafaaaafaaaafaaaafaaaafaaaafaaaafaaaafaaaafaaaafaaaafaaaafaaaafaaaafaaaafaaaafaaaafaaaafaaaafaaaafaaaafaaaafaaaafaaaafaaaafaaaafaaaafaaaafaaaafaaaafaaaafaaaafaaaafaaaafaaaafaaaafaaaafaaaafaaaafaaaafaaaafaaaafaaaafaaaafaaaafaaaafaaaafaaaafaaaafaaaafaaaafaaaafaaaafaaaafaaaafaaaafaaaafaaaafaaaafaaaafaaaafaaaafaaaafaaaafaaaafaaaafaaaafaaaafaaaafaaaafaaaafaaaafaaaafaaaafaaaafaaaafaaaafaaaafaaaafaaaafaaaafaaaafaaaafaaaafaaaafaaaafaaaafaaaafaaaafaaaafaaaafaaaafaaaafaaaafaaaafaaaafaaaafaaaafaaaafaaaafaaaafaaaafaaaafaaaafaaaafaaaafaaaafaaaafaaaafaaaafaaaafaaaafaaaafaaaafaaaafaaaafaaaafaaaafaaaafaaaafaaaafaaaafaaaafaaaafaaaafaaaafaaaafaaaafaaaafaaaafaaaafaaaafaaaafaaaafaaaafaaaafaaaafaaaafaaaafaaaafaaaafaaaafaaaafaaaafaaaafaaaafaaaafaaaafaaaafaaaafaaaafaaaafaaaafaaaafaaaafaaaafaaaafaaaafaaaafaaaafaaaafaaaafaaaafaaaafaaaafaaaafaaaafaaaafaaaafaaaafaaaafaaaafaaaafaaaafaaaafaaaafaaaafaaaafaaaafaaaafaaaafaaaafaaaafaaaafaaaafaaaafaaaafaaaafaaaafaaaafaaaafaaaafaaaafaaaafaaaafaaaafaaaafaaaafaaaafaaaafaaaafaaaafaaaafaaaafaaaafaaaafaaaafaaaafaaaafaaaafaaaafaaaafaaaafaaaafaaaafaaaafaaaafaaaafaaaafaaaafaaaafaaaafaaaafaaaafaaaafaaaafaaaafaaaafaaaafaaaafaaaafaaaafaaaafaaaafaaaafaaaafaaaafaaaafaaaafaaaafaaaafaaaafaaaafaaaafaaaafaaaafaaaafaaaafaaaafaaaafaaaafaaaafaaaafaaaafaaaafaaaafaaaafaaaafaaaafaaaafaaaafaaaafaaaafaaaafaaaafaaaafaaaafaaaafaaaafaaaafaaaafaaaafaaaafaaaafaaaafaaaafaaaafaaaafaaaafaaaafaaaafaaaafaaaafaaaafaaaafaaaafaaaafaaaafaaaafaaaafaaaafaaaafaaaafaaaafaaaafaaaafaaaafaaaafaaaafaaaafaaaafaaaafaaaafaaaafaaaafaaaafaaaafaaaafaaaafaaaafaaaafaaaafaaaafaaaafaaaafaaaafaaaafaaaafaaaafaaaafaaaafaaaafaaaafaaaafaaaafaaaafaaaafaaaafaaaafaaaafaaaafaaaafaaaafaaaafaaaafaaaafaaaafaaaafaaaafaaaafaaaafaaaafaaaafaaaafaaaafaaaafaaaafaaaafaaaafaaaafaaaafaaaafaaaafaaaafaaaafaaaafaaaafaaaafaaaafaaaafaaaafaaaafaaaafaaaafaaaafaaaafaaaafaaaafaaaafaaaafaaaafaaaafaaaafaaaafaaaafaaaafaaaafaaaafaaaafaaaafaaaafaaaafaaaafaaaafaaaafaaaafaaaafaaaafaaaafaaaafaaaafaaaafaaaafaaaafaaaafaaaafaaaafaaaafaaaafaaaafaaaafaaaafaaaafaaaafaaaafaaaafaaaafaaaafaaaafaaaafaaaafaaaafaaaafaaaafaaaafaaaafaaaafaaaafaaaafaaaafaaaafaaaafaaaafaaaafaaaafaaaafaaaafaaaafaaaafaaaafaaaafaaaafaaaafaaaafaaaafaaaafaaaafaaaafaaaafaaaafaaaafaaaafaaaafaaaafaaaafaaaafaaaafaaaafaaaafaaaafaaaafaaaafaaaafaaaafaaaafaaaafaaaafaaaafaaaafaaaafaaaafaaaafaaaafaaaafaaaafaaaafaaaafaaaafaaaafaaaafaaaafaaaafaaaafaaaafaaaafaaaafaaaafaaaafaaaafaaaafaaaafaaaafaaaafaaaafaaaafaaaafaaaafaaaafaaaafaaaafaaaafaaaafaaaafaaaafaaaafaaaafaaaafaaaafaaaafaaaafaaaafaaaafaaaafaaaafaaaafaaaafaaaafaaaafaaaafaaaafaaaafaaaafaaaafaaaafaaaafaaaafaaaafaaaafaaaafaaaafaaaafaaaafaaaafaaaafaaaafaaaafaaaafaaaafaaaafaaaafaaaafaaaafaaaafaaaafaaaafaaaafaaaafaaaafaaaafaaaafaaaafaaaafaaaafaaaafaaaafaaaafaaaafaaaafaaaafaaaafaaaafaaaafaaaafaaaafaaaafaaaafaaaafaaaafaaaafaaaafaaaafaaaafaaaafaaaafaaaafaaaafaaaafaaaafaaaafaaaafaaaafaaaafaaaafaaaafaaaafaaaafaaaafaaaafaaaafaaaafaaaafaaaafaaaafaaaafaaaafaaaafaaaafaaaafaaaafaaaafaaaafaaaafaaaafaaaafaaaafaaaafaaaafaaaafaaaafaaaafaaaafaaaafaaaafaaaafaaaafaaaafaaaafaaaafaaaafaaaafaaaafaaaafaaaafaaaafaaaafaaaafaaaafaaaafaaaafaaaafaaaafaaaafaaaafaaaafaaaafaaaafaaaafaaaafaaaafaaaafaaaafaaaafaaaafaaaafaaaafaaaafaaaafaaaafaaaafaaaafaaaafaaaafaaaafaaaafaaaafaaaafaaaafaaaafaaaafaaaafaaaafaaaafaaaafaaaafaaaafaaaafaaaafaaaafaaaafaaaafaaaafaaaafaaaafaaaafaaaafaaaafaaaafaaaafaaaafaaaafaaaafaaaafaaaafaaaafaaaafaaaafaaaafaaaafaaaafaaaafaaaafaaaafaaaafaaaafaaaafaaaafaaaafaaaafaaaafaaaafaaaafaaaafaaaafaaaafaaaafaaaafaaaafaaaafaaaafaaaafaaaafaaaafaaaafaaaafaaaafaaaafaaaafaaaafaaaafaaaafaaaafaaaafaaaafaaaafaaaafaaaafaaaafaaaafaaaafaaaafaaaafaaaafaaaafaaaafaaaafaaaafaaaafaaaafaaaafaaaafaaaafaaaafaaaafaaaafaaaafaaaafaaaafaaaafaaaafaaaafaaaafaaaafaaaafaaaafaaaafaaaafaaaafaaaafaaaafaaaafaaaafaaaafaaaafaaaafaaaafaaaafaaaafaaaafaaaafaaaafaaaafaaaafaaaafaaaafaaaafaaaafaaaafaaaafaaaafaaaafaaaafaaaafaaaafaaaafaaaafaaaafaaaafaaaafaaaafaaaafaaaafaaaafaaaafaaaafaaaafaaaafaaaafaaaafaaaafaaaafaaaafaaaafaaaafaaaafaaaafaaaafaaaafaaaafaaaafaaaafaaaafaaaafaaaafaaaafaaaafaaaafaaaafaaaafaaaafaaaafaaaafaaaafaaaafaaaafaaaafaaaafaaaafaaaafaaaafaaaafaaaafaaaafaaaafaaaafaaaafaaaafaaaafaaaafaaaafaaaafaaaafaaaafaaaafaaaafaaaafaaaafaaaafaaaafaaaafaaaafaaaafaaaafaaaafaaaafaaaafaaaafaaaafaaaafaaaafaaaafaaaafaaaafaaaafaaaafaaaafaaaafaaaafaaaafaaaafaaaafaaaafaaaafaaaafaaaafaaaafaaaafaaaafaaaafaaaafaaaafaaaafaaaafaaaafaaaafaaaafaaaafaaaafaaaafaaaafaaaafaaaafaaaafaaaafaaaafaaaafaaaafaaaafaaaafaaaafaaaafaaaafaaaafaaaafaaaafaaaafaaaafaaaafaaaafaaaafaaaafaaaafaaaafaaaafaaaafaaaafaaaafaaaafaaaafaaaafaaaafaaaafaaaafaaaafaaaafaaaafaaaafaaaafaaaafaaaafaaaafaaaafaaaafaaaafaaaafaaaafaaaafaaaafaaaafaaaafaaaafaaaafaaaafaaaafaaaafaaaafaaaafaaaafaaaafaaaafaaaafaaaafaaaafaaaafaaaafaaaafaaaafaaaafaaaafaaaafaaaafaaaafaaaafaaaafaaaafaaaafaaaafaaaafaaaafaaaafaaaafaaaafaaaafaaaafaaaafaaaafaaaafaaaafaaaafaaaafaaaafaaaafaaaafaaaafaaaafaaaafaaaafaaaafaaaafaaaafaaaafaaaafaaaafaaaafaaaafaaaafaaaafaaaafaaaafaaaafaaaafaaaafaaaafaaaafaaaafaaaafaaaafaaaafaaaafaaaafaaaafaaaafaaaafaaaafaaaafaaaafaaaafaaaafaaaafaaaafaaaafaaaafaaaafaaaafaaaafaaaafaaaafaaaafaaaafaaaafaaaafaaaafaaaafaaaafaaaafaaaafaaaafaaaafaaaafaaaafaaaafaaaafaaaafaaaafaaaafaaaafaaaafaaaafaaaafaaaafaaaafaaaafaaaafaaaafaaaafaaaafaaaafaaaafaaaafaaaafaaaafaaaafaaaafaaaafaaaafaaaafaaaafaaaafaaaafaaaafaaaafaaaafaaaafaaaafaaaafaaaafaaaafaaaafaaaafaaaafaaaafaaaafaaaafaaaafaaaafaaaafaaaafaaaafaaaafaaaafaaaafaaaafaaaafaaaafaaaafaaaafaaaafaaaafaaaafaaaafaaaafaaaafaaaafaaaafaaaafaaaafaaaafaaaafaaaafaaaafaaaafaaaafaaaafaaaafaaaafaaaafaaaafaaaafaaaafaaaafaaaafaaaafaaaafaaaafaaaafaaaafaaaafaaaafaaaafaaaafaaaafaaaafaaaafaaaafaaaafaaaafaaaafaaaafaaaafaaaafaaaafaaaafaaaafaaaafaaaafaaaafaaaafaaaafaaaafaaaafaaaafaaaafaaaafaaaafaaaafaaaafaaaafaaaafaaaafaaaafaaaafaaaafaaaafaaaafaaaafaaaafaaaafaaaafaaaafaaaafaaaafaaaafaaaafaaaafaaaafaaaafaaaafaaaafaaaafaaaafaaaafaaaafaaaafaaaafaaaafaaaafaaaafaaaafaaaafaaaafaaaafaaaafaaaafaaaafaaaafaaaafaaaafaaaafaaaafaaaafaaaafaaaafaaaafaaaafaaaafaaaafaaaafaaaafaaaafaaaafaaaafaaaafaaaafaaaafaaaafaaaafaaaafaaaafaaaafaaaafaaaafaaaafaaaafaaaafaaaafaaaafaaaafaaaafaaaafaaaafaaaafaaaafaaaafaaaafaaaafaaaafaaaafaaaafaaaafaaaafaaaafaaaafaaaafaaaafaaaafaaaafaaaafaaaafaaaafaaaafaaaafaaaafaaaafaaaafaaaafaaaafaaaafaaaafaaaafaaaafaaaafaaaafaaaafaaaafaaaafaaaafaaaafaaaafaaaafaaaafaaaafaaaafaaaafaaaafaaaafaaaafaaaafaaaafaaaafaaaafaaaafaaaafaaaafaaaafaaaafaaaafaaaafaaaafaaaafaaaafaaaafaaaafaaaafaaaafaaaafaaaafaaaafaaaafaaaafaaaafaaaafaaaafaaaafaaaafaaaafaaaafaaaafaaaafaaaafaaaafaaaafaaaafaaaafaaaafaaaafaaaafaaaafaaaafaaaafaaaafaaaafaaaafaaaafaaaafaaaafaaaafaaaafaaaafaaaafaaaafaaaafaaaafaaaafaaaafaaaafaaaafaaaafaaaafaaaafaaaafaaaafaaaafaaaafaaaafaaaafaaaafaaaafaaaafaaaafaaaafaaaafaaaafaaaafaaaafaaaafaaaafaaaafaaaafaaaafaaaafaaaafaaaafaaaafaaaafaaaafaaaafaaaafaaaafaaaafaaaafaaaafaaaafaaaafaaaafaaaafaaaafaaaafaaaafaaaafaaaafaaaafaaaafaaaafaaaafaaaafaaaafaaaafaaaafaaaafaaaafaaaafaaaafaaaafaaaafaaaafaaaafaaaafaaaafaaaafaaaafaaaafaaaafaaaafaaaafaaaafaaaafaaaafaaaafaaaafaaaafaaaafaaaafaaaafaaaafaaaafaaaafaaaafaaaafaaaafaaaafaaaafaaaafaaaafaaaafaaaafaaaafaaaafaaaafaaaafaaaafaaaafaaaafaaaafaaaafaaaafaaaafaaaafaaaafaaaafaaaafaaaafaaaafaaaafaaaafaaaafaaaafaaaafaaaafaaaafaaaafaaaafaaaafaaaafaaaafaaaafaaaafaaaafaaaafaaaafaaaafaaaafaaaafaaaafaaaafaaaafaaaafaaaafaaaafaaaafaaaafaaaafaaaafaaaafaaaafaaaafaaaafaaaafaaaafaaaafaaaafaaaafaaaafaaaafaaaafaaaafaaaafaaaafaaaafaaaafaaaafaaaafaaaafaaaafaaaafaaaafaaaafaaaafaaaafaaaafaaaafaaaafaaaafaaaafaaaafaaaafaaaafaaaafaaaafaaaafaaaafaaaafaaaafaaaafaaaafaaaafaaaafaaaafaaaafaaaafaaaafaaaafaaaafaaaafaaaafaaaafaaaafaaaafaaaafaaaafaaaafaaaafaaaafaaaafaaaafaaaafaaaafaaaafaaaafaaaafaaaafaaaafaaaafaaaafaaaafaaaafaaaafaaaafaaaafaaaafaaaafaaaafaaaafaaaafaaaafaaaafaaaafaaaafaaaafaaaafaaaafaaaafaaaafaaaafaaaafaaaafaaaafaaaafaaaafaaaafaaaafaaaafaaaafaaaafaaaafaaaafaaaafaaaafaaaafaaaafaaaafaaaafaaaafaaaafaaaafaaaafaaaafaaaafaaaafaaaafaaaafaaaafaaaafaaaafaaaafaaaafaaaafaaaafaaaafaaaafaaaafaaaafaaaafaaaafaaaafaaaafaaaafaaaafaaaafaaaafaaaafaaaafaaaafaaaafaaaafaaaafaaaafaaaafaaaafaaaafaaaafaaaafaaaafaaaafaaaafaaaafaaaafaaaafaaaafaaaafaaaafaaaafaaaafaaaafaaaafaaaafaaaafaaaafaaaafaaaafaaaafaaaafaaaafaaaafaaaafaaaafaaaafaaaafaaaafaaaafaaaafaaaafaaaafaaaafaaaafaaaafaaaafaaaafaaaafaaaafaaaafaaaafaaaafaaaafaaaafaaaafaaaafaaaafaaaafaaaafaaaafaaaafaaaafaaaafaaaafaaaafaaaafaaaafaaaafaaaafaaaafaaaafaaaafaaaafaaaafaaaafaaaafaaaafaaaafaaaafaaaafaaaafaaaafaaaafaaaafaaaafaaaafaaaafaaaafaaaafaaaafaaaafaaaafaaaafaaaafaaaafaaaafaaaafaaaafaaaafaaaafaaaafaaaafaaaafaaaafaaaafaaaafaaaafaaaafaaaafaaaafaaaafaaaafaaaafaaaafaaaafaaaafaaaafaaaafaaaafaaaafaaaafaaaafaaaafaaaafaaaafaaaafaaaafaaaafaaaafaaaafaaaafaaaafaaaafaaaafaaaafaaaafaaaafaaaafaaaafaaaafaaaafaaaafaaaafaaaafaaaafaaaafaaaafaaaafaaaafaaaafaaaafaaaafaaaafaaaafaaaafaaaafaaaafaaaafaaaafaaaafaaaafaaaafaaaafaaaafaaaafaaaafaaaafaaaafaaaafaaaafaaaafaaaafaaaafaaaafaaaafaaaafaaaafaaaafaaaafaaaafaaaafaaaafaaaafaaaafaaaafaaaafaaaafaaaafaaaafaaaafaaaafaaaafaaaafaaaafaaaafaaaafaaaafaaaafaaaafaaaafaaaafaaaafaaaafaaaafaaaafaaaafaaaafaaaafaaaafaaaafaaaafaaaafaaaafaaaafaaaafaaaafaaaafaaaafaaaafaaaafaaaafaaaafaaaafaaaafaaaafaaaafaaaafaaaafaaaafaaaafaaaafaaaafaaaafaaaafaaaafaaaafaaaafaaaafaaaafaaaafaaaafaaaafaaaafaaaafaaaafaaaafaaaafaaaafaaaafaaaafaaaafaaaafaaaafaaaafaaaafaaaafaaaafaaaafaaaafaaaafaaaafaaaafaaaafaaaafaaaafaaaafaaaafaaaafaaaafaaaafaaaafaaaafaaaafaaaafaaaafaaaafaaaafaaaafaaaafaaaafaaaafaaaafaaaafaaaafaaaafaaaafaaaafaaaafaaaafaaaafaaaafaaaafaaaafaaaafaaaafaaaafaaaafaaaafaaaafaaaafaaaafaaaafaaaafaaaafaaaafaaaafaaaafaaaafaaaafaaaafaaaafaaaafaaaafaaaafaaaafaaaafaaaafaaaafaaaafaaaafaaaafaaaafaaaafaaaafaaaafaaaafaaaafaaaafaaaafaaaafaaaafaaaafaaaafaaaafaaaafaaaafaaaafaaaafaaaafaaaafaaaafaaaafaaaafaaaafaaaafaaaafaaaafaaaafaaaafaaaafaaaafaaaafaaaafaaaafaaaafaaaafaaaafaaaafaaaafaaaafaaaafaaaafaaaafaaaafaaaafaaaafaaaafaaaafaaaafaaaafaaaafaaaafaaaafaaaafaaaafaaaafaaaafaaaafaaaafaaaafaaaafaaaafaaaafaaaafaaaafaaaafaaaafaaaafaaaafaaaafaaaafaaaafaaaafaaaafaaaafaaaafaaaafaaaafaaaafaaaafaaaafaaaafaaaafaaaafaaaafaaaafaaaafaaaafaaaafaaaafaaaafaaaafaaaafaaaafaaaafaaaafaaaafaaaafaaaafaaaafaaaafaaaafaaaafaaaafaaaafaaaafaaaafaaaafaaaafaaaafaaaafaaaafaaaafaaaafaaaafaaaafaaaafaaaafaaaafaaaafaaaafaaaafaaaafaaaafaaaafaaaafaaaafaaaafaaaafaaaafaaaafaaaafaaaafaaaafaaaafaaaafaaaafaaaafaaaafaaaafaaaafaaaafaaaafaaaafaaaafaaaafaaaafaaaafaaaafaaaafaaaafaaaafaaaafaaaafaaaafaaaafaaaafaaaafaaaafaaaafaaaafaaaafaaaafaaaafaaaafaaaafaaaafaaaafaaaafaaaafaaaafaaaafaaaafaaaafaaaafaaaafaaaafaaaafaaaafaaaafaaaafaaaafaaaafaaaafaaaafaaaafaaaafaaaafaaaafaaaafaaaafaaaafaaaafaaaafaaaafaaaafaaaafaaaafaaaafaaaafaaaafaaaafaaaafaaaafaaaafaaaafaaaafaaaafaaaafaaaafaaaafaaaafaaaafaaaafaaaafaaaafaaaafaaaafaaaafaaaafaaaafaaaafaaaafaaaafaaaafaaaafaaaafaaaafaaaafaaaafaaaafaaaafaaaafaaaafaaaafaaaafaaaafaaaafaaaafaaaafaaaafaaaafaaaafaaaafaaaafaaaafaaaafaaaafaaaafaaaafaaaafaaaafaaaafaaaafaaaafaaaafaaaafaaaafaaaafaaaafaaaafaaaafaaaafaaaafaaaafaaaafaaaafaaaafaaaafaaaafaaaafaaaafaaaafaaaafaaaafaaaafaaaafaaaafaaaafaaaafaaaafaaaafaaaafaaaafaaaafaaaafaaaafaaaafaaaafaaaafaaaafaaaafaaaafaaaafaaaafaaaafaaaafaaaafaaaafaaaafaaaafaaaafaaaafaaaafaaaafaaaafaaaafaaaafaaaafaaaafaaaafaaaafaaaafaaaafaaaafaaaafaaaafaaaafaaaafaaaafaaaafaaaafaaaafaaaafaaaafaaaafaaaafaaaafaaaafaaaafaaaafaaaafaaaafaaaafaaaafaaaafaaaafaaaafaaaafaaaafaaaafaaaafaaaafaaaafaaaafaaaafaaaafaaaafaaaafaaaafaaaafaaaafaaaafaaaafaaaafaaaafaaaafaaaafaaaafaaaafaaaafaaaafaaaafaaaafaaaafaaaafaaaafaaaafaaaafaaaafaaaafaaaafaaaafaaaafaaaafaaaafaaaafaaaafaaaafaaaafaaaafaaaafaaaafaaaafaaaafaaaafaaaafaaaafaaaafaaaafaaaafaaaafaaaafaaaafaaaafaaaafaaaafaaaafaaaafaaaafaaaafaaaafaaaafaaaafaaaafaaaafaaaafaaaafaaaafaaaafaaaafaaaafaaaafaaaafaaaafaaaafaaaafaaaafaaaafaaaafaaaafaaaafaaaafaaaafaaaafaaaafaaaafaaaafaaaafaaaafaaaafaaaafaaaafaaaafaaaafaaaafaaaafaaaafaaaafaaaafaaaafaaaafaaaafaaaafaaaafaaaafaaaafaaaafaaaafaaaafaaaafaaaafaaaafaaaafaaaafaaaafaaaafaaaafaaaafaaaafaaaafaaaafaaaafaaaafaaaafaaaafaaaafaaaafaaaafaaaafaaaafaaaafaaaafaaaafaaaafaaaafaaaafaaaafaaaafaaaafaaaafaaaafaaaafaaaafaaaafaaaafaaaafaaaafaaaafaaaafaaaafaaaafaaaafaaaafaaaafaaaafaaaafaaaafaaaafaaaafaaaafaaaafaaaafaaaafaaaafaaaafaaaafaaaafaaaafaaaafaaaafaaaafaaaafaaaafaaaafaaaafaaaafaaaafaaaafaaaafaaaafaaaafaaaafaaaafaaaafaaaafaaaafaaaafaaaafaaaafaaaafaaaafaaaafaaaafaaaafaaaafaaaafaaaafaaaafaaaafaaaafaaaafaaaafaaaafaaaafaaaafaaaafaaaafaaaafaaaafaaaafaaaafaaaafaaaafaaaafaaaafaaaafaaaafaaaafaaaafaaaafaaaafaaaafaaaafaaaafaaaafaaaafaaaafaaaafaaaafaaaafaaaafaaaafaaaafaaaafaaaafaaaafaaaafaaaafaaaafaaaafaaaafaaaafaaaafaaaafaaaafaaaafaaaafaaaafaaaafaaaafaaaafaaaafaaaafaaaafaaaafaaaafaaaafaaaafaaaafaaaafaaaafaaaafaaaafaaaafaaaafaaaafaaaafaaaafaaaafaaaafaaaafaaaafaaaafaaaafaaaafaaaafaaaafaaaafaaaafaaaafaaaafaaaafaaaafaaaafaaaafaaaafaaaafaaaafaaaafaaaafaaaafaaaafaaaafaaaafaaaafaaaafaaaafaaaafaaaafaaaafaaaafaaaafaaaafaaaafaaaafaaaafaaaafaaaafaaaafaaaafaaaafaaaafaaaafaaaafaaaafaaaafaaaafaaaafaaaafaaaafaaaafaaaafaaaafaaaafaaaafaaaafaaaafaaaafaaaafaaaafaaaafaaaafaaaafaaaafaaaafaaaafaaaafaaaafaaaafaaaafaaaafaaaafaaaafaaaafaaaafaaaafaaaafaaaafaaaafaaaafaaaafaaaafaaaafaaaafaaaafaaaafaaaafaaaafaaaafaaaafaaaafaaaafaaaafaaaafaaaafaaaafaaaafaaaafaaaafaaaafaaaafaaaafaaaafaaaafaaaafaaaafaaaafaaaafaaaafaaaafaaaafaaaafaaaafaaaafaaaafaaaafaaaafaaaafaaaafaaaafaaaafaaaafaaaafaaaafaaaafaaaafaaaafaaaafaaaafaaaafaaaafaaaafaaaafaaaafaaaafaaaafaaaafaaaafaaaafaaaafaaaafaaaafaaaafaaaafaaaafaaaafaaaafaaaafaaaafaaaafaaaafaaaafaaaafaaaafaaaafaaaafaaaafaaaafaaaafaaaafaaaafaaaafaaaafaaaafaaaafaaaafaaaafaaaafaaaafaaaafaaaafaaaafaaaafaaaafaaaafaaaafaaaafaaaafaaaafaaaafaaaafaaaaejjjjfaaaafaaaafaaaafaaaafaaaafaaaafaaaafaaaafaaaafaaaafaaaafaaaafaaaafaaaafaaaafaaaafaaaafaaaafaaaafaaaafaaaafaaaafaaaafaaaafaaaafaaaafaaaafaaaafaaaafaaaafaaaafaaaafaaaafaaaafaaaafaaaafaaaafaaaafaaaafaaaafaaaafaaaafaaaafaaaafaaaafaaaafaaaafaaaafaaaafaaaafaaaafaaaafaaaafaaaafaaaafaaaafaaaafaaaafaaaafaaaafaaaafaaaafaaaafaaaafaaaafaaaafaaaafaaaafaaaafaaaafaaaafaaaafaaaafaaaafaaaafaaaafaaaafaaaafaaaafaaaafaaaafaaaafaaaafaaaafaaaafaaaafaaaafaaaafaaaafaaaafaaaafaaaafaaaafaaaafaaaafaaaafaaaafaaaafaaaafaaaafaaaafaaaafaaaafaaaafaaaafaaaafaaaafaaaafaaaafaaaafaaaafaaaafaaaafaaaafaaaafaaaafaaaafaaaafaaaafaaaafaaaafaaaafaaaafaaaafaaaafaaaafaaaafaaaafaaaafaaaafaaaafaaaafaaaafaaaafaaaafaaaafaaaafaaaafaaaafaaaafaaaafaaaafaaaafaaaafaaaafaaaafaaaafaaaafaaaafaaaafaaaafaaaafaaaafaaaafaaaafaaaafaaaafaaaafaaaafaaaafaaaafaaaafaaaafaaaafaaaafaaaafaaaafaaaafaaaafaaaafaaaafaaaafaaaafaaaafaaaafaaaafaaaafaaaafaaaafaaaafaaaafaaaafaaaafaaaafaaaafaaaafaaaafaaaafaaaafaaaafaaaafaaaafaaaafaaaafaaaafaaaafaaaafaaaafaaaafaaaafaaaafaaaafaaaafaaaafaaaafaaaafaaaafaaaafaaaafaaaafaaaafaaaafaaaafaaaafaaaafaaaafaaaafaaaafaaaafaaaafaaaafaaaafaaaafaaaafaaaafaaaafaaaafaaaafaaaafaaaafaaaafaaaafaaaafaaaafaaaafaaaafaaaafaaaafaaaafaaaafaaaafaaaafaaaafaaaafaaaafaaaafaaaafaaaafaaaafaaaafaaaafaaaafaaaafaaaafaaaafaaaafaaaafaaaafaaaafaaaafaaaafaaaafaaaafaaaafaaaafaaaafaaaafaaaafaaaafaaaafaaaafaaaafaaaafaaaafaaaafaaaafaaaafaaaafaaaafaaaafaaaafaaaafaaaafaaaafaaaafaaaafaaaafaaaafaaaafaaaafaaaafaaaafaaaafaaaafaaaafaaaafaaaafaaaafaaaafaaaafaaaafaaaafaaaafaaaafaaaafaaaafaaaafaaaafaaaafaaaafaaaafaaaafaaaafaaaafaaaafaaaafaaaafaaaafaaaafaaaafaaaafaaaafaaaafaaaafaaaafaaaafaaaafaaaafaaaafaaaafaaaafaaaafaaaafaaaafaaaafaaaafaaaafaaaafaaaafaaaafaaaafaaaafaaaafaaaafaaaafaaaafaaaafaaaafaaaafaaaafaaaafaaaafaaaafaaaafaaaafaaaafaaaafaaaafaaaafaaaafaaaafaaaafaaaafaaaafaaaafaaaafaaaafaaaafaaaafaaaafaaaafaaaafaaaafaaaafaaaafaaaafaaaafaaaafaaaafaaaafaaaafaaaafaaaafaaaafaaaafaaaafaaaafaaaafaaaafaaaafaaaafaaaafaaaafaaaafaaaafaaaafaaaafaaaafaaaafaaaafaaaafaaaafaaaafaaaafaaaafaaaafaaaafaaaafaaaafaaaafaaaafaaaafaaaafaaaafaaaafaaaafaaaafaaaafaaaafaaaafaaaafaaaafaaaafaaaafaaaafaaaafaaaafaaaafaaaafaaaafaaaafaaaafaaaafaaaafaaaafaaaafaaaafaaaafaaaafaaaafaaaafaaaafaaaafaaaafaaaafaaaafaaaafaaaafaaaafaaaafaaaafaaaafaaaafaaaafaaaafaaaafaaaafaaaafaaaafaaaafaaaafaaaafaaaafaaaafaaaafaaaafaaaafaaaafaaaafaaaafaaaafaaaafaaaafaaaafaaaafaaaafaaaafaaaafaaaafaaaafaaaafaaaafaaaafaaaafaaaafaaaafaaaafaaaafaaaafaaaafaaaafaaaafaaaafaaaafaaaafaaaafaaaafaaaafaaaafaaaafaaaafaaaafaaaafaaaafaaaafaaaafaaaafaaaafaaaafaaaafaaaafaaaafaaaafaaaafaaaafaaaafaaaafaaaafaaaafaaaafaaaafaaaafaaaafaaaafaaaafaaaafaaaafaaaafaaaafaaaafaaaafaaaafaaaafaaaafaaaafaaaafaaaafaaaafaaaafaaaafaaaafaaaafaaaafaaaafaaaafaaaafaaaafaaaafaaaafaaaafaaaafaaaafaaaafaaaafaaaafaaaafaaaafaaaafaaaafaaaafaaaafaaaafaaaafaaaafaaaafaaaafaaaafaaaafaaaafaaaafaaaafaaaafaaaafaaaafaaaafaaaafaaaafaaaafaaaafaaaafaaaafaaaafaaaafaaaafaaaafaaaafaaaafaaaafaaaafaaaafaaaafaaaafaaaafaaaafaaaafaaaafaaaafaaaafaaaafaaaafaaaafaaaafaaaafaaaafaaaafaaaafaaaafaaaafaaaafaaaafaaaafaaaafaaaafaaaafaaaafaaaafaaaafaaaafaaaafaaaafaaaafaaaafaaaafaaaafaaaafaaaafaaaafaaaafaaaafaaaafaaaafaaaafaaaafaaaafaaaafaaaafaaaafaaaafaaaafaaaafaaaafaaaafaaaafaaaafaaaafaaaafaaaafaaaafaaaafaaaafaaaafaaaafaaaafaaaafaaaafaaaafaaaafaaaafaaaafaaaafaaaafaaaafaaaafaaaafaaaafaaaafaaaafaaaafaaaafaaaafaaaafaaaafaaaafaaaafaaaafaaaafaaaafaaaafaaaafaaaafaaaafaaaafaaaafaaaafaaaafaaaafaaaafaaaafaaaafaaaafaaaafaaaafaaaafaaaafaaaafaaaafaaaafaaaafaaaafaaaafaaaafaaaafaaaafaaaafaaaafaaaafaaaafaaaafaaaafaaaafaaaafaaaafaaaafaaaafaaaafaaaafaaaafaaaafaaaafaaaafaaaafaaaafaaaafaaaafaaaafaaaafaaaafaaaafaaaafaaaafaaaafaaaafaaaafaaaafaaaafaaaafaaaafaaaafaaaafaaaafaaaafaaaafaaaafaaaafaaaafaaaafaaaafaaaafaaaafaaaafaaaafaaaafaaaafaaaafaaaafaaaafaaaafaaaafaaaafaaaafaaaafaaaafaaaafaaaafaaaafaaaafaaaafaaaafaaaafaaaafaaaafaaaafaaaafaaaafaaaafaaaafaaaafaaaafaaaafaaaafaaaafaaaafaaaafaaaafaaaafaaaafaaaafaaaafaaaafaaaafaaaafaaaafaaaafaaaafaaaafaaaafaaaafaaaafaaaafaaaafaaaafaaaafaaaafaaaafaaaafaaaafaaaafaaaafaaaafaaaafaaaafaaaafaaaafaaaafaaaafaaaafaaaafaaaafaaaafaaaafaaaafaaaafaaaafaaaafaaaafaaaafaaaafaaaafaaaafaaaafaaaafaaaafaaaafaaaafaaaafaaaafaaaafaaaafaaaafaaaafaaaafaaaafaaaafaaaafaaaafaaaafaaaafaaaafaaaafaaaafaaaafaaaafaaaafaaaafaaaafaaaafaaaafaaaafaaaafaaaafaaaafaaaafaaaafaaaafaaaafaaaafaaaafaaaafaaaafaaaafaaaafaaaafaaaafaaaafaaaafaaaafaaaafaaaafaaaafaaaafaaaafaaaafaaaafaaaafaaaafaaaafaaaafaaaafaaaafaaaafaaaafaaaafaaaafaaaafaaaafaaaafaaaafaaaafaaaafaaaafaaaafaaaafaaaafaaaafaaaafaaaafaaaafaaaafaaaafaaaafaaaafaaaafaaaafaaaafaaaafaaaafaaaafaaaafaaaafaaaafaaaafaaaafaaaafaaaafaaaafaaaafaaaafaaaafaaaafaaaafaaaafaaaafaaaafaaaafaaaafaaaafaaaafaaaafaaaafaaaafaaaafaaaafaaaafaaaafaaaafaaaafaaaafaaaafaaaafaaaafaaaafaaaafaaaafaaaafaaaafaaaafaaaafaaaafaaaafaaaafaaaafaaaafaaaafaaaafaaaafaaaafaaaafaaaafaaaafaaaafaaaafaaaafaaaafaaaafaaaafaaaafaaaafaaaafaaaafaaaafaaaafaaaafaaaafaaaafaaaafaaaafaaaafaaaafaaaafaaaafaaaafaaaafaaaafaaaafaaaafaaaafaaaafaaaafaaaafaaaafaaaafaaaafaaaafaaaafaaaafaaaafaaaafaaaafaaaafaaaafaaaafaaaafaaaafaaaafaaaafaaaafaaaafaaaafaaaafaaaafaaaafaaaafaaaafaaaafaaaafaaaafaaaafaaaafaaaafaaaafaaaafaaaafaaaafaaaafaaaafaaaafaaaafaaaafaaaafaaaafaaaafaaaafaaaafaaaafaaaafaaaafaaaafaaaafaaaafaaaafaadcfaadcfaadcfaadcfaadcfaadcfaadcfaadcfaadcfaadcfaadcfaadcfaadcfaadcfaadcfaadcfaadcfaadcfaadcfaadcfaadcfaadcfaadcfaadcfaadcfaadcfaaaafaaaafaaaafaaaafaaaafaaaafaaaafaaaafaaaafaaaafaaaafaaaafaaaafaaaafaaaafaaaafaaaafaaaafaaaafaaaafaaaafaaaafaaaafaaaafaaaafaaaafaaaafaaaafaaaafaaaafaaaafaaaafaaaafaaaafaaaafaaaafaaaafaaaafaaaafaaaafaaaafaaaafaaaafaaaafaaaafaaaafaaaafaaaafaaaafaaaafaaaafaaaafaaaafaaaafaaaafaaaafaaaafaaaafaaaafaaaafaaaafaaaafaaaafaaaafaaaafaaaafaaaafaaaafaaaafaaaafaaaafaaaafaaaafaaaafaaaafaaaafaaaafaaaafaaaafaaaafaaaafaaaafaaaafaaaafaaaafaaaafaaaafaaaafaaaafaaaafaaaafaaaafaaaafaaaafaaaafaaaafaaaafaaaafaaaafaaaafaaaafaaaafaaaafaaaafaaaafaaaafaaaafaaaafaaaafaaaafaaaafaaaafaaaafaaaafaaaafaaaafaaaafaaaafaaaafaaaafaaaafaaaafaaaafaaaafaaaafaaaafaaaafaaaafaaaafaaaafaaaafaaaafaaaafaaaafaaaafaaaafaaaafaaaafaaaafaaaafaaaafaaaafaaaafaaaafaaaafaaaafaaaafaaaafaaaafaaaafaaaafaaaafaaaafaaaafaaaafaaaafaaaafaaaafaaaafaaaafaaaafaaaafaaaafaaaafaaaafaaaafaaaafaaaafaaaafaaaafaaaafaaaafaaaafaaaafaaaafaaaafaaaafaaaafaaaafaaaafaaaafaaaafaaaafaaaafaaaafaaaafaaaafaaaafaaaafaaaafaaaafaaaafaaaafaaaafaaaafaaaafaaaafaaaafaaaafaaaafaaaafaaaafaaaafaaaafaaaafaaaafaaaafaaaafaaaafaaaafaaaafaaaafaaaafaaaafaaaafaaaafaaaafaaaafaaaafaaaafaaaafaaaafaaaafaaaafaaaafaaaafaaaafaaaafaaaafaaaafaaaafaaaafaaaafaaaafaaaafaaaafaaaafaaaafaaaafaaaafaaaafaaaafaaaafaaaafaaaafaaaafaaaafaaaafaaaafaaaafaaaafaaaafaaaafaaaafaaaafaaaafaaaafaaaafaaaafaaaafaaaafaaaafaaaafaaaafaaaafaaaafaaaafaaaafaaaafaaaafaaaafaaaafaaaafaaaafaaaafaaaafaaaafaaaafaaaafaaaafaaaafaaaafaaaafaaaafaaaafaaaafaaaafaaaafaaaafaaaafaaaafaaaafaaaafaaaafaaaafaaaafaaaafaaaafaaaafaaaafaaaafaaaafaaaafaaaafaaaafaaaafaaaafaaaafaaaafaaaafaaaafaaaafaaaafaaaafaaaafaaaafaaaafaaaafaaaafaaaafaaaafaaaafaaaafaaaafaaaafaaaafaaaafaaaafaaaafaaaafaaaafaaaafaaaafaaaafaaaafaaaafaaaafaaaafaaaafaaaafaaaafaaaafaaaafaaaafaaaafaaaafaaaafaaaafaaaafaaaafaaaafaaaafaaaafaaaafaaaafaaaafaaaafaaaafaaaafaaaafaaaafaaaafaaaafaaaafaaaafaaaafaaaafaaaafaaaafaaaafaaaafaaaafaaaafaaaafaaaafaaaafaaaafaaaafaaaafaaaafaaaafaaaafaaaafaaaafaaaafaaaafaaaafaaaafaaaafaaaafaaaafaaaafaaaafaaaafaaaafaaaafaaaafaaaafaaaafaaaafaaaafaaaafaaaafaaaafaaaafaaaafaaaafaaaafaaaafaaaafaaaafaaaafaaaafaaaafaaaafaaaafaaaafaaaafaaaafaaaafaaaafaaaafaaaafaaaafaaaafaaaafaaaafaaaafaaaafaaaafaaaafaaaafaaaafaaaafaaaafaaaafaaaafaaaafaaaafaaaafaaaafaaaafaaaafaaaafaaaafaaaafaaaafaaaafaaaafaaaafaaaafaaaafaaaafaaaafaaaafaaaafaaaafaaaafaaaafaaaafaaaafaaaafaaaafaaaafaaaafaaaafaaaafaaaafaaaafaaaafaaaafaaaafaaaafaaaafaaaafaaaafaaaafaaaafaaaafaaaafaaaafaaaafaaaafaaaafaaaafaaaafaaaafaaaafaaaafaaaafaaaafaaaafaaaafaaaafaaaafaaaafaaaafaaaafaaaafaaaafaaaafaaaafaaaafaaaafaaaafaaaafaaaafaaaafaaaafaaaafaaaafaaaafaaaafaaaafaaaafaaaafaaaafaaaafaaaafaaaafaaaafaaaafaaaafaaaafaaaafaaaafaaaafaaaafaaaafaaaafaaaafaaaafaaaafaaaafaaaafaaaafaaaafaaaafaaaafaaaafaaaafaaaafaaaafaaaafaaaafaaaafaaaafaaaafaaaafaaaafaaaafaaaafaaaafaaaafaaaafaaaafaaaafaaaafaaaafaaaafaaaafaaaafaaaafaaaafaaaafaaaafaaaafaaaafaaaafaaaafaaaafaaaafaaaafaaaafaaaafaaaafaaaafaaaafaaaafaaaafaaaafaaaafaaaafaaaafaaaafaaaafaaaafaaaafaaaafaaaafaaaafaaaafaaaafaaaafaaaafaaaafaaaafaaaafaaaafaaaafaaaafaaaafaaaafaaaafaaaafaaaafaaaafaaaafaaaafaaaafaaaafaaaafaaaafaaaafaaaafaaaafaaaafaaaafaaaafaaaafaaaafaaaafaaaafaaaafaaaafaaaafaaaafaaaafaaaafaaaafaaaafaaaafaaaafaaaafaaaafaaaafaaaafaaaafaaaafaaaafaaaafaaaafaaaafaaaafaaaafaaaafaaaafaaaafaaaafaaaafaaaafaaaafaaaafaaaafaaaafaaaafaaaafaaaafaaaafaaaafaaaafaaaafaaaafaaaafaaaafaaaafaaaafaaaafaaaafaaaafaaaafaaaafaaaafaaaafaaaafaaaafaaaafaaaafaaaafaaaafaaaafaaaafaaaafaaaafaaaafaaaafaaaafaaaafaaaafaaaafaaaafaaaafaaaafaaaafaaaafaaaafaaaafaaaafaaaafaaaafaaaafaaaafaaaafaaaafaaaafaaaafaaaafaaaafaaaafaaaafaaaafaaaafaaaafaaaafaaaafaaaafaaaafaaaafaaaafaaaafaaaafaaaafaaaafaaaafaaaafaaaafaaaafaaaafaaaafaaaafaaaafaaaafaaaafaaaafaaaafaaaafaaaafaaaafaaaafaaaafaaaafaaaafaaaafaaaafaaaafaaaafaaaafaaaafaaaafaaaafaaaafaaaafaaaafaaaafaaaafaaaafaaaafaaaafaaaafaaaafaaaafaaaafaaaafaaaafaaaafaaaafaaaafaaaafaaaafaaaafaaaafaaaafaaaafaaaafaaaafaaaafaaaafaaaafaaaafaaaafaaaafaaaafaaaafaaaafaaaafaaaafaaaafaaaafaaaafaaaafaaaafaaaafaaaafaaaafaaaafaaaafaaaafaaaafaaaafaaaafaaaafaaaafaaaafaaaafaaaafaaaafaaaafaaaafaaaafaaaafaaaafaaaafaaaafaaaafaaaafaaaafaaaafaaaafaaaafaaaafaaaafaaaafaaaafaaaafaaaafaaaafaaaafaaaafaaaafaaaafaaaafaaaafaaaafaaaafaaaafaaaafaaaafaaaafaaaafaaaafaaaafaaaafaaaafaaaafaaaafaaaafaaaafaaaafaaaafaaaafaaaafaaaafaaaafaaaafaaaafaaaafaaaafaaaafaaaafaaaafaaaafaaaafaaaafaaaafaaaafaaaafaaaafaaaafaaaafaaaafaaaafaaaafaaaafaaaafaaaafaaaafaaaafaaaafaaaafaaaafaaaafaaaafaaaafaaaafaaaafaaaafaaaafaaaafaaaafaaaafaaaafaaaafaaaafaaaafaaaafaaaafaaaafaaaafaaaafaaaafaaaafaaaafaaaafaaaafaaaafaaaafaaaafaaaafaaaafaaaafaaaafaaaafaaaafaaaafaaaafaaaafaaaafaaaafaaaafaaaafaaaafaaaafaaaafaaaafaaaafaaaafaaaafaaaafaaaafaaaafaaaafaaaafaaaafaaaafaaaafaaaafaaaafaaaafaaaafaaaafaaaafaaaafaaaafaaaafaaaafaaaafaaaafaaaafaaaafaaaafaaaafaaaafaaaafaaaafaaaafaaaafaaaafaaaafaaaafaaaafaaaafaaaafaaaafaaaafaaaafaaaafaaaafaaaafaaaafaaaafaaaafaaaafaaaafaaaafaaaafaaaafaaaafaaaafaaaafaaaafaaaafaaaafaaaafaaaafaaaafaaaafaaaafaaaafaaaafaaaafaaaafaaaafaaaafaaaafaaaafaaaafaaaafaaaafaaaafaaaafaaaafaaaafaaaafaaaafaaaafaaaafaaaafaaaafaaaafaaaafaaaafaaaafaaaafaaaafaaaafaaaafaaaafaaaafaaaafaaaafaaaafaaaafaaaafaaaafaaaafaaaafaaaafaaaafaaaafaaaafaaaafaaaafaaaafaaaafaaaafaaaafaaaafaaaafaaaafaaaafaaaafaaaafaaaafaaaafaaaafaaaafaaaafaaaafaaaafaaaafaaaafaaaafaaaafaaaafaaaafaaaafaaaafaaaafaaaafaaaafaaaafaaaafaaaafaaaafaaaafaaaafaaaafaaaafaaaafaaaafaaaafaaaafaaaafaaaafaaaafaaaafaaaafaaaafaaaafaaaafaaaafaaaafaaaafaaaafaaaafaaaafaaaafaaaafaaaafaaaafaaaafaaaafaaaafaaaafaaaafaaaafaaaafaaaafaaaafaaaafaaaafaaaafaaaafaaaafaaaafaaaafaaaafaaaafaaaafaaaafaaaafaaaafaaaafaaaafaaaafaaaafaaaafaaaafaaaafaaaafaaaafaaaafaaaafaaaafaaaafaaaafaaaafaaaafaaaafaaaafaaaafaaaafaaaafaaaafaaaafaaaafaaaafaaaafaaaafaaaafaaaafaaaafaaaafaaaafaaaafaaaafaaaafaaaafaaaafaaaafaaaafaaaafaaaafaaaafaaaafaaaafaaaafaaaafaaaafaaaafaaaafaaaafaaaafaaaafaaaafaaaafaaaafaaaafaaaafaaaafaaaafaaaafaaaafaaaafaaaafaaaafaaaafaaaafaaaafaaaafaaaafaaaafaaaafaaaafaaaafaaaafaaaafaaaafaaaafaaaafaaaafaaaafaaaafaaaafaaaafaaaafaaaafaaaafaaaafaaaafaaaafaaaafaaaafaaaafaaaafaaaafaaaafaaaafaaaafaaaafaaaafaaaafaaaafaaaafaaaafaaaafaaaafaaaafaaaafaaaafaaaafaaeafaaeafaaeafaaeafaaeafaaeafaaeafaaeafaaeafaaeafaaeafaaeafaaeafaaeafaaeafaaeafaaeafaaeafaaeafaaeafaaeafaaeafaaeafaaeafaaeafaaeafaaeafaaeafaaeafaaeafaaeafaaeafaaeafaaeafaaeafaaeafaaeafaaeafaaeafaaeafaaaafaaaafaaaafaaaafaaaafaaaafaaaafaaaafaaaafaaaafaaaafaaaafaaaafaaaafaaaafaaaafaaaafaaaafaaaafaaaafaaaafaaaafaaaafaaaafaaaafaaaafaaaafaaaafaaaafaaaafaaaafaaaafaaaafaaaafaaaafaaaafaaaafaaaafaaaafaaaafaaaafaaaafaaaafaaaafaaaafaaaafaaaafaaaafaaaafaaaafaaaafaaaafaaaafaaaafaaaafaaaafaaaafaaaafaaaafaaaafaaaafaaaafaaaafaaaafaaaafaaaafaaaafaaaafaaaafaaaafaaaafaaaafaaaafaaaafaaaafaaaafaaaafaaaafaaaafaaaafaaaafaaaafaaaafaaaafaaaafaaaafaaaafaaaafaaaafaaaafaaaafaaaafaaaafaaaafaaaafaaaafaaaafaaaafaaaafaaaafaaaafaaaafaaaafaaaafaaaafaaaafaaaafaaaafaaaafaaaafaaaafaaaafaaaafaaaafaaaafaaaafaaaafaaaafaaaafaaaafaaaafaaaafaaaafaaaafaaaafaaaafaaaafaaaafaaaafaaaafaaaafaaaafaaaafaaaafaaaafaaaafaaeafaaeafaaeafaaeafaaeafaaeafaaeafaaeafaaeafaaeafaaeafaaeafaaeafaaeafaaeafaaeafaaeafaaeafaaeafaaeafaaeafaaeafaaeafaaeafaaeafaaeafaaeafaaeafaaeafaaeafaaeafaaeafaaeafaaeafaaeafaaeafaaaafaaaafaaaafaaaafaaaafaaaafaaaafaaaafaaaafaaaafaaaafaaaafaaaafaaaafaaaafaaaafaaaafaaaafaaaafaaaafaaaafaaaafaaaafaaaafaaaafaaaafaaaafaaaafaaaafaaaafaaaafaaaafaaaafaaaafaaaafaaaafaaaafaaaafaaaafaaaafaaaafaaaafaaaafaaaafaaaafaaaafaaaafaaaafaaaafaaaafaaaafaaaafaaaafaaaafaaaafaaaafaaaafaaaafaaaafaaaafaaaafaaaafaaaafaaaafaaaafaaaafaaaafaaaafaaaafaaaafaaaafaaaafaaaafaaaafaaaafaaaafaaaafaaaafaaaafaaaafaaaafaaaafaaaafaaaafaaaafaaaafaaaafaaaafaaaafaaaafaaaafaaaafaaaafaaaafaaaafaaaafaaaafaaaafaaaafaaaafaaaafaaaafaaaafaaaafaaaafaaaafaaaafaaaafaaaafaaaafaaaafaaaafaaaafaaaafaaaafaaaafaaaafaaaafaaaafaaaafaaaafaaaafaaaafaaaafaaaafaaaafaaaafaaaafaaaafaaaafaaaafaaaafaaaafaaaafaaaafaaaafaaaafaaaafaaaafaaaafaaaafaaaafaaaafaaaafaaaafaaaafaaaafaaaafaaaafaaaafaaaafaaaafaaaafaaaafaaaafaaaafaadjfaadjfaadjfaadjfaadjfaadjfaadjfaadjfaadjfaadjfaadjfaaaafaadjfaadjfaadjfaadjfaadjfaadjfaadjfaadjfaadjfaadjfaadjfaadjfaadjfaadjfaadjfaaaafaadjfaadjfaadjfaadjfaadjfaadjfaadjfaaaafaadjfaadjfaaaafaaaafaaaafaaaafaaaafaaaafaaaafaaaafaaaafaaaafaaaafaaaafaaaafaaaafaaaafaaaafaaaafaaaafaaaafaaaafaaaafaaaafaaaafaaaafaaaafaaaafaaaafaaaafaaaafaaaafaaaafaaaafaaaafaaaafaaaafaaaafaaaafaaaafaaaafaaaafaaaafaaaafaaaafaaaafaaaafaaaafaaaafaaaafaaaafaaaafaaaafaaaafaaaafaaaafaaaafaaaafaaaafaaaafaaaafaaaafaaaafaaaafaaaafaaaafaaaafaaaafaaaafaaaafaaaafaaaafaaaafaaaafaaaafaaaafaaaafaaaafaaaafaaaafaaaafaaaafaaaafaaaafaaaafaaaafaaaafaaaafaaaafaaaafaaaafaaaafaaaafaaaafaaaafaaaafaaaafaaaafaaaafaaaafaaaafaaaafaaaafaaaafaaaafaaaafaaaafaaaafaaaafaaaafaaaafaaaafaaaafaaaafaaaafaaaafaaaafaaaafaaaafaaaafaaaafaaaafaaaafaaaafaaaafaaaafaaaafaaaafaaaafaaaafaaaafaaaafaaaafaaaafaaaafaaaafaaaafaaaafaaaafaaaafaaaafaaaafaaaafaaaafaaaafaaaafaaaafaaaafaaaafaaaafaaaafaaaafaaaafaaaafaaaafaaaafaaaafaaaafaaaafaaaafaaaafaaaafaaaafaaaafaaaafaaaafaaaafaaaafaaaafaaaafaaaafaaaafaaaafaaaafaaaafaaaafaaaafaaaafaaaafaaaafaaaafaaaafaaaafaaaafaaaafaaaafaaaafaaaafaaaafaaaafaaaafaaaafaaaafaaaafaaaafaaaafaaaafaaaafaaaafaaaafaaaafaaaafaaaafaaaafaaaafaaaafaaaafaaaafaaaafaaaafaaaafaaaafaaaafaaaafaaaafaaaafaaaafaaaafaaaafaaaafaaaafaaaafaaaafaaaafaaaafaaaafaaaafaaaafaaaafaaaafaaaafaaaafaaaafaaaafaaaafaaaafaaaafaaaafaaaafaaaafaaaafaaaafaaaafaaaafaaaafaaaafaaaafaaaafaaaafaaaafaaaafaaaafaaaafaaaafaaaafaaaafaaaafaaaafaaaafaaaafaaaafaaaafaaaafaaaafaaaafaaaafaaaafaaaafaaaafaaaafaaaafaaaafaaaafaaaafaaaafaaaafaaaafaaaafaaaafaaaafaaaafaaaafaaaafaaaafaaaafaaaafaaaafaaaafaaaafaaaafaaaafaaaafaaaafaaaafaaaafaaaafaaaafaaaafaaaafaaaafaaaafaaaafaaaafaaaafaaaafaaaafaaaafaaaafaaaafaaaafaaaafaaaafaaaafaaaafaaaafaaaafaaaafaaaafaaaafaaaafaaaafaaaafaaaafaaaafaaaafaaaafaaaafaaaafaaaafaaaafaaaafaaaafaaaafaaaafaaaafaaaafaaaafaaaafaaaafaaaafaaaafaaaafaaaafaaaafaaaafaaaafaaaafaaaafaaaafaaaafaaaafaaaafaaaafaaaafaaaafaaaafaaaafaaaafaaaafaaaafaaaafaaaafaaaafaaaafaaaafaaaafaaaafaaaafaaaafaaaafaaaafaaaafaaaafaaaafaaaafaaaafaaaafaaaafaaaafaaaafaaaafaaaafaaaafaaaafaaaafaaaafaaaafaaaafaaaafaaaafaaaafaaaafaaaafaaaafaaaafaaaafaaaafaaaafaaaafaaaafaaaafaaaafaaaafaaaafaaaafaaaafaaaafaaaafaaaafaaaafaaaafaaaafaaaafaaaafaaaafaaaafaaaafaaaafaaaafaaaafaaaafaaaafaaaafaaaafaaaafaaaafaaaafaaaafaaaafaaaafaaaafaaaafaaaafaaaafaaaafaaaafaaaafaaaafaaaafaaaafaaaafaaaafaaaafaaaafaaaafaaaafaaaafaaaafaaaafaaaafaaaafaaaafaaaafaaaafaaaafaaaafaaaafaaaafaaaafaaaafaaaafaaaafaaaafaaaafaaaafaaaafaaaafaaaafaaaafaaaafaaaafaaaafaaaafaaaafaaaafaaaafaaaafaaaafaaaafaaaafaaaafaaaafaaaafaaaafaaaafaaaafaaaafaaaafaaaafaaaafaaaafaaaafaaaafaaaafaaaafaaaafaaaafaaaafaaaafaaaafaaaafaaaafaaaafaaaafaaaafaaaafaaaafaaaafaaaafaaaafaaaafaaaafaaaafaaaafaaaafaaaafaaaafaaaafaaaafaaaafaaaafaaaafaaaafaaaafaaaafaaaafaaaafaaaafaaaafaaaafaaaafaaaafaaaafaaaafaaaafaaaafaaaafaaaafaaaafaaaafaaaafaaaafaaaafaaaafaaaafaaaafaaaafaaaafaaaafaaaafaaaafaaaafaaaafaaaafaaaafaaaafaaaafaaaafaaaafaaaafaaaafaaaafaaaafaaaafaaaafaaaafaaaafaaaafaaaafaaaafaaaafaaaafaaaafaaaafaaaafaaaafaaaafaaaafaaaafaaaafaaaafaaaafaaaafaaaafaaaafaaaafaaaafaaaafaaaafaaaafaaaafaaaafaaaafaaaafaaaafaaaafaaaafaaaafaaaafaaaafaaaafaaaafaaaafaaaafaaaafaaaafaaaafaaaafaaaafaaaafaaaafaaaafaaaafaaaafaaaafaaaafaaaafaaaafaaaafaaaafaaaafaaaafaaaafaaaafaaaafaaaafaaaafaaaafaaaafaaaafaaaafaaaafaaaafaaaafaaaafaaaafaaaafaaaafaaaafaaaafaaaafaaaafaaaafaaaafaaaafaaaafaaaafaaaafaaaafaaaafaaaafaaaafaaaafaaaafaaaafaaaafaaaafaaaafaaaafaaaafaaaafaaaafaaaafaaaafaaaafaaaafaaaafaaaafaaaafaaaafaaaafaaaafaaaafaaaafaaaafaaaafaaaafaaaafaaaafaaaafaaaafaaaafaaaafaaaafaaaafaaaafaaaafaaaafaaaafaaaafaaaafaaaafaaaafaaaafaaaafaaaafaaaafaaaafaaaafaaaafaaaafaaaafaaaafaaaafaaaafaaaafaaaafaaaafaaaafaaaafaaaafaaaafaaaafaaaafaaaafaaaafaaaafaaaafaaaafaaaafaaaafaaaafaaaafaaaafaaaafaaaafaaaafaaaafaaaafaaaafaaaafaaaafaaaafaaaafaaaafaaaafaaaafaaaafaaaafaaaafaaaafaaaafaaaafaaaafaaaafaaaafaaaafaaaafaaaafaaaafaaaafaaaafaaaafaaaafaaaafaaaafaaaafaaaafaaaafaaaafaaaafaaaafaaaafaaaafaaaafaaaafaaaafaaaafaaaafaaaafaaaafaaaafaaaafaaaafaaaafaaaafaaaafaaaafaaaafaaaafaaaafaaaafaaaafaaaafaaaafaaaafaaaafaaaafaaaafaaaafaaaafaaaafaaaafaaaafaaaafaaaafaaaafaaaafaaaafaaaafaaaafaaaafaaaafaaaafaaaafaaaafaaaafaaaafaaaafaaaafaaaafaaaafaaaafaaaafaaaafaaaafaaaafaaaafaaaafaaaafaaaafaaaafaaaafaaaafaaaafaaaafaaaafaaaafaaaafaaaafaaaafaaaafaaaafaaaafaaaafaaaafaaaafaaaafaaaafaaaafaaaafaaaafaaaafaaaafaaaafaaaafaaaafaaaafaaaafaaaafaaaafaaaafaaaafaaaafaaaafaaaafaaaafaaaafaaaafaaaafaaaafaaaafaaaafaaaafaaaafaaaafaaaafaaaafaaaafaaaafaaaafaaaafaaaafaaaafaaaafaaaafaaaafaaaafaaaafaaaafaaaafaaaafaaaafaaaafaaaafaaaafaaaafaaaafaaaafaaaafaaaafaaaafaaaafaaaafaaaafaaaafaaaafaaaafaaaafaaaafaaaafaaaafaaaafaaaafaaaafaaaafaaaafaaaafaaaafaaaafaaaafaaaafaaaafaaaafaaaafaaaafaaaafaaaafaaaafaaaafaaaafaaaafaaaafaaaafaaaafaaaafaaaafaaaafaaaafaaaafaaaafaaaafaaaafaaaafaaaafaaaafaaaafaaaafaaaafaaaafaaaafaaaafaaaafaaaafaaaafaaaafaaaafaaaafaaaafaaaafaaaafaaaafaaaafaaaafaaaafaaaafaaaafaaaafaaaafaaaafaaaafaaaafaaaafaaaafaaaafaaaafaaaafaaaafaaaafaaaafaaaafaaaafaaaafaaaafaaaafaaaafaaaafaaaafaaaafaaaafaaaafaaaafaaaafaaaafaaaafaaaafaaaafaaaafaaaafaaaafaaaafaaaafaaaafaaaafaaaafaaaafaaaafaaaafaaaafaaaafaaaafaaaafaaaafaaaafaaaafaaaafaaaafaaaafaaaafaaaafaaaafaaaafaaaafaaaafaaaafaaaafaaaafaaaafaaaafaaaafaaaafaaaafaaaafaaaafaaaafaaaafaaaafaaaafaaaafaaaafaaaafaaaafaaaafaaaafaaaafaaaafaaaafaaaafaaaafaaaafaaaafaaaafaaaafaaaafaaaafaaaafaaaafaaaafaaaafaaaafaaaafaaaafaaaafaaaafaaaafaaaafaaaafaaaafaaaafaaaafaaaafaaaafaaaafaaaafaaaafaaaafaaaafaaaafaaaafaaaafaaaafaaaafaaaafaaaafaaaafaaaafaaaafaaaafaaaafaaaafaaaafaaaafaaaafaaaafaaaafaaaafaaaafaaaafaaaafaaaafaaaafaaaafaaaafaaaafaaaafaaaafaaaafaaaafaaaafaaaafaaaafaaaafaaaafaaaafaaaafaaaafaaaafaaaafaaaafaaaafaaaafaaaafaaaafaaaafaaaafaaaafaaaafaaaafaaaafaaaafaaaafaaaafaaaafaaaafaaaafaaaafaaaafaaaafaaaafaaaafaaaafaaaafaaaafaaaafaaaafaaaafaaaafaaaafaaaafaaaafaaaafaaaafaaaafaaaafaaaafaaaafaaaafaaaafaaaafaaaafaaaafaaaafaaaafaaaafaaaafaaaafaaaafaaaafaaaafaaaafaaaafaaaafaaaafaaaafaaaafaaaafaaaafaaaafaaaafaaaafaaaafaaaafaaaafaaaafaaaafaaaafaaaafaaaafaaaafaaaafaaaafaaaafaaaafaaaafaaaafaaaafaaaafaaaafaaaafaaaafaaaafaaaafaaaafaaaafaaaafaaaafaaaafaaaafaaaafaaaafaaaafaaaafaaaafaaaafaaaafaaaafaaaafaaaafaaaafaaaafaaaafaaaafaaaafaaaafaaaafaaaafaaaafaaaafaaaafaaaafaaaafaaaafaaaafaaaafaaaafaaaafaaaafaaaafaaaafaaaafaaaafaaaafaaaafaaaafaaaafaaaafaaaafaaaafaaaafaaaafaaaafaaaafaaaafaaaafaaaafaaaafaaaafaaaafaaaafaaaafaaaafaaaafaaaafaaaafaaaafaaaafaaaafaaaafaaaafaaaafaaaafaaaafaaaafaaaafaaaafaaaafaaaafaaaafaaaafaaaafaaaafaaaafaaaafaaaafaaaafaaaafaaaafaaaafaaaafaaaafaaaafaaaafaaaafaaaafaaaafaaaafaaaafaaaafaaaafaaaafaaaafaaaafaaaafaaaafaaaafaaaafaaaafaaaafaaaafaaaafaaaafaaaafaaaafaaaafaaaafaaaafaaaafaaaafaaaafaaaafaaaafaaaafaaaafaaaafaaaafaaaafaaaafaaaafaaaafaaaafaaaafaaaafaaaafaaaafaaaafaaaafaaaafaaaafaaaafaaaafaaaafaaaafaaaafaaaafaaaafaaaafaaaafaaaafaaaafaaaafaaaafaaaafaaaafaaaafaaaafaaaafaaaafaaaafaaaafaaaafaaaafaaaafaaaafaaaafaaaafaaaafaaaafaaaafaaaafaaaafaaaafaaaafaaaafaaaafaaaafaaaafaaaafaaaafaaaafaaaafaaaafaaaafaaaafaaaafaaaafaaaafaaaafaaaafaaaafaaaafaaaafaaaafaaaafaaaafaaaafaaaafaaaafaaaafaaaafaaaafaaaafaaaafaaaafaaaafaaaafaaaafaaaafaaaafaaaafaaaafaaaafaaaafaaaafaaaafaaaafaaaafaaaafaaaafaaaafaaaafaaaafaaaafaaaafaaaafaaaafaaaafaaaafaaaafaaaafaaaafaaaafaaaafaaaafaaaafaaaafaaaafaaaafaaaafaaaafaaaafaaaafaaaafaaaafaaaafaaaafaaaafaaaafaaaafaaaafaaaafaaaafaaaafaaaafaaaafaaaafaaaafaaaafaaaafaaaafaaaafaaaafaaaafaaaafaaaafaaaafaaaafaaaafaaaafaaaafaaaafaaaafaaaafaaaafaaaafaaaafaaaafaaaafaaaafaaaafaaaafaaaafaaaafaaaafaaaafaaaafaaaafaaaafaaaafaaaafaaaafaaaafaaaafaaaafaaaafaaaafaaaafaaaafaaaafaaaafaaaafaaaafaaaafaaaafaaaafaaaafaaaafaaaafaaaafaaaafaaaafaaaafaaaafaaaafaaaafaaaafaaaafaaaafaaaafaaaafaaaafaaaafaaaafaaaafaaaafaaaafaaaafaaaafaaaafaaaafaaaafaaaafaaaafaaaafaaaafaaaafaaaafaaaafaaaafaaaafaaaafaaaafaaaafaaaafaaaafaaaafaaaafaaaafaaaafaaaafaaaafaaaafaaaafaaaafaaaafaaaafaaaafaaaafaaaafaaaafaaaafaaaafaaaafaaaafaaaafaaaafaaaafaaaafaaaafaaaafaaaafaaaafaaaafaaaafaaaafaaaafaaaafaaaafaaaafaaaafaaaafaaaafaaaafaaaafaaaafaaaafaaaafaaaafaaaafaaaafaaaafaaaafaaaafaaaafaaaafaaaafaaaafaaaafaaaafaaaafaaaafaaaafaaaafaaaafaaaafaaaafaaaafaaaafaaaafaaaafaaaafaaaafaaaafaaaafaaaafaaaafaaaafaaaafaaaafaaaafaaaafaaaafaaaafaaaafaaaafaaaafaaaafaaaafaaaafaaaafaaaafaaaafaaaafaaaafaaaafaaaafaaaafaaaafaaaafaaaafaaaafaaaafaaaafaaaafaaaafaaaafaaaafaaaafaaaafaaaafaaaafaaaafaaaafaaaafaaaafaaaafaaaafaaaafaaaafaaaafaaaafaaaafaaaafaaaafaaaafaaaafaaaafaaaafaaaafaaaafaaaafaaaafaaaafaaaafaaaafaaaafaaaafaaaafaaaafaaaafaaaafaaaafaaaafaaaafaaaafaaaafaaaafaaaafaaaafaaaafaaaafaaaafaaaafaaaafaaaafaaaafaaaafaaaafaaaafaaaafaaaafaaaafaaaafaaaafaaaafaaaafaaaafaaaafaaaafaaaafaaaafaaaafaaaafaaaafaaaafaaaafaaaafaaaafaaaafaaaafaaaafaaaafaaaafaaaafaaaafaaaafaaaafaaaafaaaafaaaafaaaafaaaafaaaafaaaafaaaafaaaafaaaafaaaafaaaafaaaafaaaafaaaafaaaafaaaafaaaafaaaafaaaafaaaafaaaafaaaafaaaafaaaafaaaafaaaafaaaafaaaafaaaafaaaafaaaafaaaafaaaafaaaafaaaafaaaafaaaafaaaafaaaafaaaafaaaafaaaafaaaafaaaafaaaafaaaafaaaafaaaafaaaafaaaafaaaafaaaafaaaafaaaafaaaafaagefaagefaagefaagefaagefaagefaagefaagefaagefaagefaagefaagefaagefaagefaagefaagefaagefaagefaagefaagefaagefaagefaagefaagefaagefaagefaagefaagefaagefaagefaagefaagefaagefaagefaagefaagefaagefaagefaagefaagefaagefaagefaagefaagefaagefaagefaagefaagefaagefaagefaagefaaaafaaaafaaaafaaaafaaaafaaaafaaaafaaaafaaaafaaaafaaaafaaaafaaaafaaaafaaaafaaaafaaaafaaaafaaaafaaaafaaaafaaaafaaaafaaaafaaaafaaaafaaaafaaaafaaaafaaaafaaaafaaaafaaaafaaaafaaaafaaaafaaaafaaaafaaaafaaaafaaaafaaaafaaaafaaaafaaaafaaaafaaaafaaaafaaaafaaaafaaaafaaaafaaaafaaaafaaaafaaaafaaaafaaaafaaaafaaaafaaaafaaaafaaaafaaaafaaaafaaaafaaaafaaaafaaaafaaaafaaaafaaaafaaaafaaaafaaaafaaaafaaaafaaaafaaaafaaaafaaaafaaaafaaaafaaaafaaaafaaaafaaaafaaaafaaaafaaaafaaaafaaaafaaaafaaaafaaaafaaaafaaaafaaaafaaaafaaaafaaaafaaaafaaaafaaaafaaaafaaaafaaaafaaaafaaaafaaaafaaaafaaaafaaaafaaaafaaaafaaaafaaaafaaaafaaaafaaaafaaaafaaaafaaaafaaaafaaaafaaaafaaaafaaaafaaaafaaaafaaaafaaaafaaaafaaaafaaaafaaaafaaaafaaaafaaaafaaaafaaaafaaaafaaaafaaaafaaaafaaaafaaaafaaaafaaaafaaaafaaaafaaaafaaaafaaaafaaaafaaaafaaaafaaaafaaaafaaaafaaaafaaaafaaaafaaaafaaaafaaaafaaaafaaaafaaaafaaaafaaaafaaaafaaaafaaaafaaaafaaaafaaaafaaaafaaaafaaaafaaaafaaaafaaaafaaaafaaaafaaaafaaaafaaaafaaaafaaaafaaaafaaaafaaaafaaaafaaaafaaaafaaaafaaaafaaaafaaaafaaaafaaaafaaaafaaaafaaaafaaaafaaaafaaaafaaaafaaaafaaaafaaaafaaaafaaaafaaaafaaaafaaaafaaaafaaaafaaaafaaaafaaaafaaaafaaaafaaaafaaaafaaaafaaaafaaaafaaaafaaaafaaaafaaaafaaaafaaaafaaaafaaaafaaaafaaaafaaaafaaaafaaaafaaaafaaaafaaaafaaaafaaaafaaaafaaaafaaaafaaaafaaaafaaaafaaaafaaaafaaaafaaaafaaaafaaaafaaaafaaaafaaaafaaaafaaaafaaaafaaaafaaaafaaaafaaaafaaaafaaaafaaaafaaaafaaaafaaaafaaaafaaaafaaaafaaaafaaaafaaaafaaaafaaaafaaaafaaaafaaaafaaaafaaaafaaaafaaaafaaaafaaaafaaaafaaaafaaaafaaaafaaaafaaaafaaaafaaaafaaaafaaaafaaaafaaaafaaaafaaaafaaaafaaaafaaaafaaaafaaaafaaaafaaaafaaaafaaaafaaaafaaaafaaaafaaaafaaaafaaaafaaaafaaaafaaaafaaaafaaaafaaaafaaaafaaaafaaaafaaaafaaaafaaaafaaaafaaaafaaaafaaaafaaaafaaaafaaaafaaaafaaaafaaaafaaaafaaaafaaaafaaaafaaaafaaaafaaaafaaaafaaaafaaaafaaaafaaaafaaaafaaaafaaaafaaaafaaaafaaaafaaaafaaaafaaaafaaaafaaaafaaaafaaaafaaaafaaaafaaaafaaaafaaaafaaaafaaaafaaaafaaaafaaaafaaaafaaaafaaaafaaaafaaaafaaaafaaaafaaaafaaaafaaaafaaaafaaaafaaaafaaaafaaaafaaaafaaaafaaaafaaaafaaaafaaaafaaaafaaaafaaaafaaaafaaaafaaaafaaaafaaaafaaaafaaaafaaaafaaaafaaaafaaaafaaaafaaaafaaaafaaaafaaaafaaaafaaaafaaaafaaaafaaaafaaaafaaaafaaaafaaaafaaaafaaaafaaaafaaaafaaaafaaaafaaaafaaaafaaaafaaaafaaaafaaaafaaaafaaaafaaaafaaaafaaaafaaaafaaaafaaaafaaaafaaaafaaaafaaaafaaaafaaaafaaaafaaaafaaaafaaaafaaaafaaaafaaaafaaaafaaaafaaaafaaaafaaaafaaaafaaaafaaaafaaaafaaaafaaaafaaaafaaaafaaaafaaaafaaaafaaaafaaaafaaaafaaaafaaaafaaaafaaaafaaaafaaaafaaaafaaaafaaaafaaaafaaaafaaaafaaaafaaaafaaaafaaaafaaaafaaaafaaaafaaaafaaaafaaaafaaaafaaaafaaaafaaaafaaaafaaaafaaaafaaaafaaaafaaaafaaaafaaaafaaaafaaaafaaaafaaaafaaaafaaaafaaaafaaaafaaaafaaaafaaaafaaaafaaaafaaaafaaaafaaaafaaaafaaaafaaaafaaaafaaaafaaaafaaaafaaaafaaaafaaaafaaaafaaaafaaaafaaaafaaaafaaaafaaaafaaaafaaaafaaaafaaaafaaaafaaaafaaaafaaaafaaaafaaaafaaaafaaaafaaaafaaaafaaaafaaaafaaaafaaaafaaaafaaaafaaaafaaaafaaaafaaaafaaaafaaaafaaaafaaaafaaaafaaaafaaaafaaaafaaaafaaaafaaaafaaaafaaaafaaaafaaaafaaaafaaaafaaaafaaaafaaaafaaaafaaaafaaaafaaaafaaaafaaaafaaaafaaaafaaaafaaaafaaaafaaaafaaaafaaaafaaaafaaaafaaaafaaaafaaaafaaaafaaaafaaaafaaaafaaaafaaaafaaaafaaaafaaaafaaaafaaaafaaaafaaaafaaaafaaaafaaaafaaaafaaaafaaaafaaaafaaaafaaaafaaaafaaaafaaaafaaaafaaaafaaaafaaaafaaaafaaaafaaaafaaaafaaaafaaaafaaaafaaaafaaaafaaaafaaaafaaaafaaaafaaaafaaaafaaaafaaaafaaaafaaaafaaaafaaaafaaaafaaaafaaaafaaaafaaaafaaaafaaaafaaaafaaaafaaaafaaaafaaaafaaaafaaaafaaaafaaaafaaaafaaaafaaaafaaaafaaaafaaaafaaaafaaaafaaaafaaaafaaaafaaaafaaaafaaaafaaaafaaaafaaaafaaaafaaaafaaaafaaaafaaaafaaaafaaaafaaaafaaaafaaaafaaaafaaaafaaaafaaaafaaaafaaaafaaaafaaaafaaaafaaaafaaaafaaaafaaaafaaaafaaaafaaaafaaaafaaaafaaaafaaaafaaaafaaaafaaaafaaaafaaaafaaaafaaaafaaaafaaaafaaaafaaaafaaaafaaaafaaaafaaaafaaaafaaaafaaaafaaaafaaaafaaaafaaaafaaaafaaaafaaaafaaaafaaaafaaaafaaaafaaaafaaaafaaaafaaaafaaaafaaaafaaaafaaaafaaaafaaaafaaaafaaaafaaaafaaaafaaaafaaaafaaaafaaaafaaaafaaaafaaaafaaaafaaaafaaaafaaaafaaaafaaaafaaaafaaaafaaaafaaaafaaaafaaaafaaaafaaaafaaaafaaaafaaaafaaaafaaaafaaaafaaaafaaaafaaaafaaaafaaaafaaaafaaaafaaaafaaaafaaaafaaaafaaaafaaaafaaaafaaaafaaaafaaaafaaaafaaaafaaaafaaaafaaaafaaaafaaaafaaaafaaaafaaaafaaaafaaaafaaaafaaaafaaaafaaaafaaaafaaaafaaaafaaaafaaaafaaaafaaaafaaaafaaaafaaaafaaaafaaaafaaaafaaaafaaaafaaaafaaaafaaaafaaaafaaaafaaaafaaaafaaaafaaaafaaaafaaaafaaaafaaaafaaaafaaaafaaaafaaaafaaaafaaaafaaaafaaaafaaaafaaaafaaaafaaaafaaaafaaaafaaaafaaaafaaaafaaaafaaaafaaaafaaaafaaaafaaaafaaaafaaaafaaaafaaaafaaaafaaaafaaaafaaaafaaaafaaaafaaaafaaaafaaaafaaaafaaaafaaaafaaaafaaaafaaaafaaaafaaaafaaaafaaaafaaaafaaaafaaaafaaaafaaaafaaaafaaaafaaaafaaaafaaaafaaaafaaaafaaaafaaaafaaaafaaaafaaaafaaaafaaaafaaaafaaaafaaaafaaaafaaaafaaaafaaaafaaaafaaaafaaaafaaaafaaaafaaaafaaaafaaaafaaaafaaaafaaaafaaaafaaaafaaaafaaaafaaaafaaaafaaaafaaaafaaaafaaaafaaaafaaaafaaaafaaaafaaaafaaaafaaaafaaaafaaaafaaaafaaaafaaaafaaaafaaaafaaaafaaaafaaaafaaaafaaaafaaaafaaaafaaaafaaaafaaaafaaaafaaaafaaaafaaaafaaaafaaaafaaaafaaaafaaaafaaaafaaaafaaaafaaaafaaaafaaaafaaaafaaaafaaaafaaaafaaaafaaaafaaaafaaaafaaaafaaaafaaaafaaaafaaaafaaaafaaaafaaaafaaaafaaaafaaaafaaaafaaaafaaaafaaaafaaaafaaaafaaaafaaaafaaaafaaaafaaaafaaaafaaaafaaaafaaaafaaaafaaaafaaaafaaaafaaaafaaaafaaaafaaaafaaaafaaaafaaaafaaaafaaaafaaaafaaaafaaaafaaaafaaaafaaaafaaaafaaaafaaaafaaaafaaaafaaaafaaaafaaaafaaaafaaaafaaaafaaaafaaaafaaaafaaaafaaaafaaaafaaaafaaaafaaaafaaaafaaaafaaaafaaaafaaaafaaaafaaaafaaaafaaaafaaaafaaaafaaaafaaaafaaaafaaaafaaaafaaaafaaaafaaaafaaaafaaaafaaaafaaaafaaaafaaaafaaaafaaaafaaaafaaaafaaaafaaaafaaaafaaaafaaaafaaaafaaaafaaaafaaaafaaaafaaaafaaaafaaaafaaaafaaaafaaaafaaaafaaaafaaaafaaaafaaaafaaaafaaaafaaaafaaaafaaaafaaaafaaaafaaaafaaaafaaaafaaaafaaaafaaaafaaaafaaaafaaaafaaaafaaaafaaaafaaaafaaaafaaaafaaaafaaaafaaaafaaaafaaaafaaaafaaaafaaaafaaaafaaaafaaaafaaaafaaaafaaaafaaaafaaaafaaaafaaaafaaaafaaaafaaaafaaaafaaaafaaaafaaaafaaaafaaaafaaaafaaaafaaaafaaaafaaaafaaaafaaaafaaaafaaaafaaaafaaaafaaaafaaaafaaaafaaaafaaaafaaaafaaaafaaaafaaaafaaaafaaaafaaaafaaaafaaaafaaaafaaaafaaaafaaaafaaaafaaaafaaaafaaaafaaaafaaaafaaaafaaaafaaaafaaaafaaaafaaaafaaaafaaaafaaaafaaaafaaaafaaaafaaaafaaaafaaaafaaaafaaaafaaaafaaaafaaaafaaaafaaaafaaaafaaaafaaaafaaaafaaaafaaaafaaaafaaaafaaaafaaaafaaaafaaaafaaaafaaaafaaaafaaaafaaaafaaaafaaaafaaaafaaaafaaaafaaaafaaaafaaaafaaaafaaaafaaaafaaaafaaaafaaaafaaaafaaaafaaaafaaaafaaaafaaaafaaaafaaaafaaaafaaaafaaaafaaaafaaaafaaaafaaaafaaaafaaaafaaaafaaaafaaaafaaaafaaaafaaaafaaaafaaaafaaaafaaaafaaaafaaaafaaaafaaaafaaaafaaaafaaaafaaaafaaaafaaaafaaaafaaaafaaaafaaaafaaaafaaaafaaaafaaaafaaaafaaaafaaaafaaaafaaaafaaaafaaaafaaaafaaaafaaaafaaaafaaaafaaaafaaaafaaaafaaaafaaaafaaaafaaaafaaaafaaaafaaaafaaaafaaaafaaaafaaaafaaaafaaaafaaaafaaaafaaaafaaaafaaaafaaaafaaaafaaaafaaaafaaaafaaaafaaaafaaaafaaaafaaaafaaaafaaaafaaaafaaaafaaaafaaaafaaaafaaaafaaaafaaaafaaaafaaaafaaaafaaaafaaaafaaaafaaaafaaaafaaaafaaaafaaaafaaaafaaaafaaaafaaaafaaaafaaaafaaaafaaaafaaaafaaaafaaaafaaaafaaaafaaaafaaaafaaaafaaaafaaaafaaaafaaaafaaaafaaaafaaaafaaaafaaaafaaaafaaaafaaaafaaaafaaaafaaaafaaaafaaaafaaaafaaaafaaaafaaaafaaaafaaaafaaaafaaaafaaaafaaaafaaaafaaaafaaaafaaaafaaaafaaaafaaaafaaaafaaaafaaaafaaaafaaaafaaaafaaaafaaaafaaaafaaaafaaaafaaaafaaaafaaaafaaaafaaaafaaaafaaaafaaaafaaaafaaaafaaaafaaaafaaaafaaaafaaaafaaaafaaaafaaaafaaaafaaaafaaaafaaaafaaaafaaaafaaaafaaaafaaaafaaaafaaaafaaaafaaaafaaaafaaaafaaaafaaaafaaaafaaaafaaaafaaaafaaaafaaaafaaaafaaaafaaaafaaaafaaaafaaaafaaaafaaaafaaaafaaaafaaaafaaaafaaaafaaaafaaaafaaaafaaaafaaaafaaaafaaaafaaaafaaaafaaaafaaaafaaaafaaaafaaaafaaaafaaaafaaaafaaaafaaaafaaaafaaaafaaaafaaaafaaaafaaaafaaaafaaaafaaaafaaaafaaaafaaaafaaaafaaaafaaaafaaaafaaaafaaaafaaaafaaaafaaaafaaaafaaaafaaaafaaaafaaaafaaaafaaaafaaaafaaaafaaaafaaaafaaaafaaaafaaaafaaaafaaaafaaaafaaaafaaaafaaaafaaaafaaaafaaaafaaaafaaaafaaaafaaaafaaaafaaaafaaaafaaaafaaaafaaaafaaaafaaaafaaaafaaaafaaaafaaaafaaaafaaaafaaaafaaaafaaaafaaaafaaaafaaaafaaaafaaaafaaaafaaaafaaaafaaaafaaaafaaaafaaaafaaaafaaaafaaaafaaaafaaaafaaaafaaaafaaaafaaaafaaaafaaaafaaaafaaaafaaaafaaaafaaaafaaaafaaaafaaaafaaaafaaaafaaaafaaaafaaaafaaaafaaaafaaaafaaaafaaaafaaaafaaaafaaaafaaaafaaaafaaaafaaaafaaaafaaaafaaaafaaaafaaaafaaaafaaaafaaaafaaaafaaaafaaaafaaaafaaaafaaaafaaaafaaaafaaaafaaaafaaaafaaaafaaaafaaaafaaaafaaaafaaaafaaaafaaaafaaaafaaaafaaaafaaaafaaaafaaaafaaaafaaaafaaaafaaaafaaaafaaaafaaaafaaaafaaaafaaaafaaaafaaaafaaaafaaaafaaaafaaaafaaaafaaaafaaaafaaaafaaaafaaaafaaaafaaaafaaaafaaaafaaaafaaaafaaaafaaaafaaaafaaaafaaaafaaaafaaaafaaaafaaaafaaaafaaaafaaaafaaaafaaaafaaaafaaaafaaaafaaaafaaaafaaaafaaaafaaaafaaaafaaaafaaaafaaaafaaaafaaaafaaaafaaaafaaaafaaaafaaaafaaaafaaaafaaaafaaaafaaaafaaaafaaaafaaaafaaaafaaaafaaaafaaaafaaaafaaaafaaaafaaaafaaaafaaaafaaaafaaaafaaaafaaaafaaaafaaaafaaaafaaaafaaaafaaaafaaaafaaaafaaaafaaaafaaaafaaaafaaaafaaaafaaaafaaaafaaaafaaaafaaaafaaaafaaaafaaaafaaaafaaaafaaaafaaaafaaaafaaaafaaaafaaaafaaaafaaaafaaaafaaaafaaaafaaaafaaaafaaaafaaaafaaaafaaaafaaaafaaaafaaaafaaaafaaaafaaaafaaaafaaaafaaaafaaaafaaaafaaaafaaaafaaaafaaaafaaaafaaaafaaaafaaaafaaaafaaaafaaaafaaaafaaaafaaaafaaaafaaaafaaaafaaaafaaaafaaaafaaaafaaaafaaaafaaaafaaaafaaaafaaaafaaaafaaaafaaaafaaaafaaaafaaaafaaaafaaaafaaaafaaaafaaaafaaaafaaaafaaaafaaaafaaaafaaaafaaaafaaaafaaaafaaaafaaaafaaaafaaaafaaaafaaaafaaaafaaaafaaaafaaaafaaaafaaaafaaaafaaaafaaaafaaaafaaaafaaaafaaaafaaaafaaaafaaaafaaaafaaaafaaaafaaaafaaaafaaaafaaaafaaaafaaaafaaaafaaaafaaaafaaaafaaaafaaaafaaaafaaaafaaaafaaaafaaaafaaaafaaaafaaaafaaaafaaaafaaaafaaaafaaaafaaaafaaaafaaaafaaaafaaaafaaaafaaaafaaaafaaaafaaaafaaaafaaaafaaaafaaaafaaaafaaaafaaaafaaaafaaaafaaaafaaaafaaaafaaaafaaaafaaaafaaaafaaaafaaaafaaaafaaaafaaaafaaaafaaaafaaaafaaaafaaaafaaaafaaaafaaaafaaaafaaaafaaaafaaaafaaaafaaaafaaaafaaaafaaaafaaaafaaaafaaaafaaaafaaaafaaaafaaaafaaaafaaaafaaaafaaaafaaaafaaaafaaaafaaaafaaaafaaaafaaaafaaaafaaaafaaaafaaaafaaaafaaaafaaaafaaaafaaaafaaaafaaaafaaaafaaaafaaaafaaaafaaaafaaaafaaaafaaaafaaaafaaaafaaaafaaaafaaaafaaaafaaaafaaaafaaaafaaaafaaaafaaaafaaaafaaaafaaaafaaaafaaaafaaaafaaaafaaaafaaaafaaaafaaaafaaaafaaaafaaaafaaaafaaaafaaaafaaaafaaaafaaaafaaaafaaaafaaaafaaaafaaaafaaaafaaaafaaaafaaaafaaaafaaaafaaaafaaaafaaaafaaaafaaaafaaaafaaaafaaaafaaaafaaaafaaaafaaaafaaaafaaaafaaaafaaaafaaaafaaaafaaaafaaaafaaaafaaaafaaaafaaaafaaaafaaaafaaaafaaaafaaaafaaaafaaaafaaaafaaaafaaaafaaaafaaaafaaaafaaaafaaaafaaaafaaaafaaaafaaaafaaaafaaaafaaaafaaaafaaaafaaaafaaaafaaaafaaaafaaaafaaaafaaaafaaaafaaaafaaaafaaaafaaaafaaaafaaaafaaaafaaaafaaaafaaaafaaaafaaaafaaaafaaaafaaaafaaaafaaaafaaaafaaaafaaaafaaaafaaaafaaaafaaaafaaaafaaaafaaaafaaaafaaaafaaaafaaaafaaaafaaaafaaaafaaaafaaaafaaaafaaaafaaaafaaaafaaaafaaaafaaaafaaaafaaaafaaaafaaaafaaaafaaaafaaaafaaaafaaaafaaaafaaaafaaaafaaaafaaaafaaaafaaaafaaaafaaaafaaaafaaaafaaaafaaaafaaaafaaaafaaaafaaaafaaaafaaaafaaaafaaaafaaaafaaaafaaaafaaaafaaaafaaaafaaaafaaaafaaaafaaaafaaaafaaaafaaaafaaaafaaaafaaaafaaaafaaaafaaaafaaaafaaaafaaaafaaaafaaaafaaaafaaaafaaaafaaaafaaaafaaaafaaaafaaaafaaaafaaaafaaaafaaaafaaaafaaaafaaaafaaaafaaaafaaaafaaaafaaaafaaaafaaaafaaaafaaaafaaaafaaaafaaaafaaaafaaaafaaaafaaaafaaaafaaaafaaaafaaaafaaaafaaaafaaaafaaaafaaaafaaaafaaaafaaaafaaaafaaaafaaaafaaaafaaaafaaaafaaaafaaaafaaaafaaaafaaaafaaaafaaaafaaaafaaaafaaaafaaaafaaaafaaaafaaaafaaaafaaaafaaaafaaaafaaaafaaaafaaaafaaaafaaaafaaaafaaaafaaaafaaaafaaaafaaaafaaaafaaaafaaaafaaaafaaaafaaaafaaaafaaaafaaaafaaaafaaaafaaaafaaaafaaaafaaaafaaaafaaaafaaaafaaaafaaaafaaaafaaaafaaaafaaaafaaaafaaaafaaaafaaaafaaaafaaaafaaaafaaaafaaaafaaaafaaaafaaaafaaaafaaaafaaaafaaaafaaaafaaaafaaaafaaaafaaaafaaaafaaaafaaaafaaaafaaaafaaaafaaaafaaaafaaaafaaaafaaaafaaaafaaaafaaaafaaaafaaaafaaaafaaaafaaaafaaaafaaaafaaaafaaaafaaaafaaaafaaaafaaaafaaaafaaaafaaaafaaaafaaaafaaaafaaaafaaaafaaaafaaaafaaaafaaaafaaaafaaaafaaaafaaaafaaaafaaaafaaaafaaaafaaaafaaaafaaaafaaaafaaaafaaaafaaaafaaaafaaaafaaaafaaaafaaaafaaaafaaaafaaaafaaaafaaaafaaaafaaaafaaaafaaaafaaaafaaaafaaaafaaaafaaaafaaaafaaaafaaaafaaaafaaaafaaaafaaaafaaaafaaaafaaaafaaaafaaaafaaaafaaaafaaaafaaaafaaaafaaaafaaaafaaaafaaaafaaaafaaaafaaaafaaaafaaaafaaaafaaaafaaaafaaaafaaaafaaaafaaaafaaaafaaaafaaaafaaaafaaaafaaaafaaaafaaaafaaaafaaaafaaaafaaaafaaaafaaaafaaaafaaaafaaaafaaaafaaaafaaaafaaaafaaaafaaaafaaaafaaaafaaaafaaaafaaaafaaaafaaaafaaaafaaaafaaaafaaaafaaaafaaaafaaaafaaaafaaaafaaaafaaaafaaaafaaaafaaaafaaaafaaaafaaaafaaaafaaaafaaaafaaaafaaaafaaaafaaaafaaaafaaaafaaaafaaaafaaaafaaaafaaaafaaaafaaaafaaaafaaaafaaaafaaaafaaaafaaaafaaaafaaaafaaaafaaaafaaaafaaaafaaaafaaaafaaaafaaaafaaaafaaaafaaaafaaaafaaaafaaaafaaaafaaaafaaaafaaaafaaaafaaaafaaaafaaaafaaaafaaaafaaaafaaaafaaaafaaaafaaaafaaaafaaaafaaaafaaaafaaaafaaaafaaaafaaaafaaaafaaaafaaaafaaaafaaaafaaaafaaaafaaaafaaaafaaaafaaaafaaaafaaaafaaaafaaaafaaaafaaaafaaaafaaaafaaaafaaaafaaaafaaaafaaaafaaaafaaaafaaaafaaaafaaaafaaaafaaaafaaaafaaaafaaaafaaaafaaaafaaaafaaaafaaaafaaaafaaaafaaaafaaaafaaaafaaaafaaaafaaaafaaaafaaaafaaaafaaaafaaaafaaaafaaaafaaaafaaaafaaaafaaaafaaaafaaaafaaaafaaaafaaaafaaaafaaaafaaaafaaaafaaaafaaaafaaaafaaaafaaaafaaaafaaaafaaaafaaaafaaaafaaaafaaaafaaaafaaaafaaaafaaaafaaaafaaaafaaaafaaaafaaaafaaaafaaaafaaaafaaaafaaaafaaaafaaaafaaaafaaaafaaaafaaaafaaaafaaaafaaaafaaaafaaaafaaaafaaaafaaaafaaaafaaaafaaaafaaaafaaaafaaaafaaaafaaaafaaaafaaaafaaaafaaaafaaaafaaaafaaaafaaaafaaaafaaaafaaaafaaaafaaaafaaaafaaaafaaaafaaaafaaaafaaaafaaaafaaaafaaaafaaaafaaaafaaaafaaaafaaaafaaaafaaaafaaaafaaaafaaaafaaaafaaaafaaaafaaaafaaaafaaaafaaaafaaaafaaaafaaaafaaaafaaaafaaaafaaaafaaaafaaaafaaaafaaaafaaaafaaaafaaaafaaaafaaaafaaaafaaaafaaaafaaaafaaaafaaaafaaaafaaaafaaaafaaaafaaaafaaaafaaaafaaaafaaaafaaaafaaaafaaaafaaaafaaaafaaaafaaaafaaaafaaaafaaaafaaaafaaaafaaaafaaaafaaaafaaaafaaaafaaaafaaaafaaaafaaaafaaaafaaaafaaaafaaaafaaaafaaaafaaaafaaaafaaaafaaaafaaaafaaaafaaaafaaaafaaaafaaaafaaaafaaaafaaaafaaaafaaaafaaaafaaaafaaaafaaaafaaaafaaaafaaaafaaaafaaaafaaaafaaaafaaaafaaaafaaaafaaaafaaaafaaaafaaaafaaaafaaaafaaaafaaaafaaaafaaaafaaaafaaaafaaaafaaaafaaaafaaaafaaaafaaaafaaaafaaaafaaaafaaaafaaaafaaaafaaaafaaaafaaaafaaaafaaaafaaaafaaaafaaaafaaaafaaaafaaaafaaaafaaaafaaaafaaaafaaaafaaaafaaaafaaaafaaaafaaaafaaaafaaaafaaaafaaaafaaaafaaaafaaaafaaaafaaaafaaaafaaaafaaaafaaaafaaaafaaaafaaaafaaaafaaaafaaaafaaaafaaaafaaaafaaaafaaaafaaaafaaaafaaaafaaaafaaaafaaaafaaaafaaaafaaaafaaaafaaaafaaaafaaaafaaaafaaaafaaaafaaaafaaaafaaaafaaaafaaaafaaaafaaaafaaaafaaaafaaaafaaaafaaaafaaaafaaaafaaaafaaaafaaaafaaaafaaaafaaaafaaaafaaaafaaaafaaaafaaaafaaaafaaaafaaaafaaaafaaaafaaaafaaaafaaaafaaaafaaaafaaaafaaaafaaaafaaaafaaaafaaaafaaaafaaaafaaaafaaaafaaaafaaaafaaaafaaaafaaaafaaaafaaaafaaaafaaaafaaaafaaaafaaaafaaaafaaaafaaaafaaaafaaaafaaaafaaaafaaaafaaaafaaaafaaaafaaaafaaaafaaaafaaaafaaaafaaaafaaaafaaaafaaaafaaaafaaaafaaaafaaaafaaaafaaaafaaaafaaaafaaaafaaaafaaaafaaaafaaaafaaaafaaaafaaaafaaaafaaaafaaaafaaaafaaaafaaaafaaaafaaaafaaaafaaaafaaaafaaaafaaaafaaaafaaaafaaaafaaaafaaaafaaaafaaaafaaaafaaaafaaaafaaaafaaaafaaaafaaaafaaaafaaaafaaaafaaaafaaaafaaaafaaaafaaaafaaaafaaaafaaaafaaaafaaaafaaaafaaaafaaaafaaaafaaaafaaaafaaaafaaaafaaaafaaaafaaaafaaaafaaaafaaaafaaaafaaaafaaaafaaaafaaaafaaaafaaaafaaaafaaaafaaaafaaaafaaaafaaaafaaaafaaaafaaaafaaaafaaaafaaaafaaaafaaaafaaaafaaaafaaaafaaaafaaaafaaaafaaaafaaaafaaaafaaaafaaaafaaaafaaaafaaaafaaaafaaaafaaaafaaaafaaaafaaaafaaaafaaaafaaaafaaaafaaaafaaaafaaaafaaaafaaaafaaaafaaaafaaaafaaaafaaaafaaaafaaaafaaaafaaaafaaaafaaaafaaaafaaaafaaaafaaaafaaaafaaaafaaaafaaaafaaaafaaaafaaaafaaaafaaaafaaaafaaaafaaaafaaaafaaaafaaaafaaaafaaaafaaaafaaaafaaaafaaaafaaaafaaaafaaaafaaaafaaaafaaaafaaaafaaaafaaaafaaaafaadcfaadcfaadcfaadcfaadcfaadcfaadcfaadcfaadcfaadcfaadcfaadcfaadcfaadcfaadcfaadcfaadcfaadcfaadcfaadcfaadcfaadcfaadcfaadcfaadcfaadcfaadcfaadcfaadcfaadcfaadcfaadcfaaaafaaaafaaaafaaaafaaaafaaaafaaaafaaaafaaaafaaaafaaaafaaaafaaaafaaaafaaaafaaaafaaaafaaaafaaaafaaaafaaaafaaaafaaaafaaaafaaaafaaaafaaaafaaaafaaaafaaaafaaaafaaaafaaaafaaaafaaaafaaaafaaaafaaaafaaaafaaaafaaaafaaaafaaaafaaaafaaaafaaaafaaaafaaaafaaaafaaaafaaaafaaaafaaaafaaaafaaaafaaaafaaaafaaaafaaaafaaaafaaaafaaaafaaaafaaaafaaaafaaaafaaaafaaaafaaaafaaaafaaaafaaaafaaaafaaaafaaaafaaaafaaaafaaaafaaaafaaaafaaaafaaaafaaaafaaaafaaaafaaaafaaaafaaaafaaaafaaaafaaaafaaaafaaaafaaaafaaaafaaaafaaaafaaaafaaaafaaaafaaaafaaaafaaaafaaaafaaaafaaaafaaaafaaaafaaaafaaaafaaaafaaaafaaaafaaaafaaaafaaaafaaaafaaaafaaaafaaaafaaaafaaaafaaaafaaaafaaaafaaaafaaaafaaaafaaaafaaaafaaaafaaaafaaaafaaaafaaaafaaaafaaaafaaaafaaaafaaaafaaaafaaaafaaaafaaaafaaaafaaaafaaaafaaaafaaaafaaaafaaaafaaaafaaaafaaaafaaaafaaaafaaaafaaaafaaaafaaaafaaaafaaaafaaaafaaaafaaaafaaaafaaaafaaaafaaaafaaaafaaaafaaaafaaaafaaaafaaaafaaaafaaaafaaaafaaaafaaaafaaaafaaaafaaaafaaaafaaaafaaaafaaaafaaaafaaaafaaaafaaaafaaaafaaaafaaaafaaaafaaaafaaaafaaaafaaaafaaaafaaaafaaaafaaaafaaaafaaaafaaaafaaaafaaaafaaaafaaaafaaaafaaaafaaaafaaaafaaaafaaaafaaaafaaaafaaaafaaaafaaaafaaaafaaaafaaaafaaaafaaaafaaaafaaaafaaaafaaaafaaaafaaaafaaaafaaaafaaaafaaaafaaaafaaaafaaaafaaaafaaaafaaaafaaaafaaaafaaaafaaaafaaaafaaaafaaaafaaaafaaaafaaaafaaaafaaaafaaaafaaaafaaaafaaaafaaaafaaaafaaaafaaaafaaaafaaaafaaaafaaaafaaaafaaaafaaaafaaaafaaaafaaaafaaaafaaaafaaaafaaaafaaaafaaaafaaaafaaaafaaaafaaaafaaaafaaaafaaaafaaaafaaaafaaaafaaaafaaaafaaaafaaaafaaaafaaaafaaaafaaaafaaaafaaaafaaaafaaaafaaaafaaaafaaaafaaaafaaaafaaaafaaaafaaaafaaaafaaaafaaaafaaaafaaaafaaaafaaaafaaaafaaaafaaaafaaaafaaaafaaaafaaaafaaaafaaaafaaaafaaaafaaaafaaaafaaaafaaaafaaaafaaaafaaaafaaaafaaaafaaaafaaaafaaaafaaaafaaaafaaaafaaaafaaaafaaaafaaaafaaaafaaaafaaaafaaaafaaaafaaaafaaaafaaaafaaaafaaaafaaaafaaaafaaaafaaaafaaaafaaaafaaaafaaaafaaaafaaaafaaaafaaaafaaaafaaaafaaaafaaaafaaaafaaaafaaaafaaaafaaaafaaaafaaaafaaaafaaaafaaaafaaaafaaaafaaaafaaaafaaaafaaaafaaaafaaaafaaaafaaaafaaaafaaaafaaaafaaaafaaaafaaaafaaaafaaaafaaaafaaaafaaaafaaaafaaaafaaaafaaaafaaaafaaaafaaaafaaaafaaaafaaaafaaaafaaaafaaaafaaaafaaaafaaaafaaaafaaaafaaaafaaaafaaaafaaaafaaaafaaaafaaaafaaaafaaaafaaaafaaaafaaaafaaaafaaaafaaaafaaaafaaaafaaaafaaaafaaaafaaaafaaaafaaaafaaaafaaaafaaaafaaaafaaaafaaaafaaaafaaaafaaaafaaaafaaaafaaaafaaaafaaaafaaaafaaaafaaaafaaaafaaaafaaaafaaaafaaaafaaaafaaaafaaaafaaaafaaaafaaaafaaaafaaaafaaaafaaaafaaaafaaaafaaaafaaaafaaaafaaaafaaaafaaaafaaaafaaaafaaaafaaaafaaaafaaaafaaaafaaaafaaaafaaaafaaaafaaaafaaaafaaaafaaaafaaaafaaaafaaaafaaaafaaaafaaaafaaaafaaaafaaaafaaaafaaaafaaaafaaaafaaaafaaaafaaaafaaaafaaaafaaaafaaaafaaaafaaaafaaaafaaaafaaaafaaaafaaaafaaaafaaaafaaaafaaaafaaaafaaaafaaaafaaaafaaaafaaaafaaaafaaaafaaaafaaaafaaaafaaaafaaaafaaaafaaaafaaaafaaaafaaaafaaaafaaaafaaaafaaaafaaaafaaaafaaaafaaaafaaaafaaaafaaaafaaaafaaaafaaaafaaaafaaaafaaaafaaaafaaaafaaaafaaaafaaaafaaaafaaaafaaaafaaaafaaaafaaaafaaaafaaaafaaaafaaaafaaaafaaaafaaaafaaaafaaaafaaaafaaaafaaaafaaaafaaaafaaaafaaaafaaaafaaaafaaaafaaaafaaaafaaaafaaaafaaaafaaaafaaaafaaaafaaaafaaaafaaaafaaaafaaaafaaaafaaaafaaaafaaaafaaaafaaaafaaaafaaaafaaaafaaaafaaaafaaaafaaaafaaaafaaaafaaaafaaaafaaaafaaaafaaaafaaaafaaaafaaaafaaaafaaaafaaaafaaaafaaaafaaaafaaaafaaaafaaaafaaaafaaaafaaaafaaaafaaaafaaaafaaaafaaaafaaaafaaaafaaaafaaaafaaaafaaaafaaaafaaaafaaaafaaaafaaaafaaaafaaaafaaaafaaaafaaaafaaaafaaaafaaaafaaaafaaaafaaaafaaaafaaaafaaaafaaaafaaaafaaaafaaaafaaaafaaaafaaaafaaaafaaaafaaaafaaaafaaaafaaaafaaaafaaaafaaaafaaaafaaaafaaaafaaaafaaaafaaaafaaaafaaaafaaaafaaaafaaaafaaaafaaaafaaaafaaaafaaaafaaaafaaaafaaaafaaaafaaaafaaaafaaaafaaaafaaaafaaaafaaaafaaaafaaaafaaaafaaaafaaaafaaaafaaaafaaaafaaaafaaaafaaaafaaaafaaaafaaaafaaaafaaaafaaaafaaaafaaaafaaaafaaaafaaaafaaaafaaaafaaaafaaaafaaaafaaaafaaaafaaaafaaaafaaaafaaaafaaaafaaaafaaaafaaaafaaaafaaaafaaaafaaaafaaaafaaaafaaaafaaaafaaaafaaaafaaaafaaaafaaaafaaaafaaaafaaaafaaaafaaaafaaaafaaaafaaaafaaaafaaaafaaaafaaaafaaaafaaaafaaaafaaaafaaaafaaaafaaaafaaaafaaaafaaaafaaaafaaaafaaaafaaaafaaaafaaaafaaaafaaaafaaaafaaaafaaaafaaaafaaaafaaaafaaaafaaaafaaaafaaaafaaaafaaaafaaaafaaaafaaaafaaaafaaaafaaaafaaaafaaaafaaaafaaaafaaaafaaaafaaaafaaaafaaaafaaaafaaaafaaaafaaaafaaaafaaaafaaaafaaaafaaaafaaaafaaaafaaaafaaaafaaaafaaaafaaaafaaaafaaaafaaaafaaaafaaaafaaaafaaaafaaaafaaaafaaaafaaaafaaaafaaaafaaaafaaaafaaaafaaaafaaaafaaaafaaaafaaaafaaaafaaaafaaaafaaaafaaaafaaaafaaaafaaaafaaaafaaaafaaaafaaaafaaaafaaaafaaaafaaaafaaaafaaaafaaaafaaaafaaaafaaaafaaaafaaaafaaaafaaaafaaaafaaaafaaaafaaaafaaaafaaaafaaaafaaaafaaaafaaaafaaaafaaaafaaaafaaaafaaaafaaaafaaaafaaaafaaaafaaaafaaaafaaaafaaaafaaaafaaaafaaaafaaaafaaaafaaaafaaaafaaaafaaaafaaaafaaaafaaaafaaaafaaaafaaaafaaaafaaaafaaaafaaaafaaaafaaaafaaaafaaaafaaaafaaaafaaaafaaaafaaaafaaaafaaaafaaaafaaaafaaaafaaaafaaaafaaaafaaaafaaaafaaaafaaaafaaaafaaaafaaaafaaaafaaaafaaaafaaaafaaaafaaaafaaaafaaaafaaaafaaaafaaaafaaaafaaaafaaaafaaaafaaaafaaaafaaaafaaaafaaaafaaaafaaaafaaaafaaaafaaaafaaaafaaaafaaaafaaaafaaaafaaaafaaaafaaaafaaaafaaaafaaaafaaaafaaaafaaaafaaaafaaaafaaaafaaaafaaaafaaaafaaaafaaaafaaaafaaaafaaaafaaaafaaaafaaaafaaaafaaaafaaaafaaaafaaaafaaaafaaaafaaaafaaaafaaaafaaaafaaaafaaaafaaaafaaaafaaaafaaaafaaaafaaaafaaaafaaaafaaaafaaaafaaaafaaaafaaaafaaaafaaaafaaaafaaaafaaaafaaaafaaaafaaaafaaaafaaaafaaaafaaaafaaaafaaaafaaaafaaaafaaaafaaaafaaaafaaaafaaaafaaaafaaaafaaaafaaaafaaaafaaaafaaaafaaaafaaaafaaaafaaaafaaaafaaaafaaaafaaaafaaaafaaaafaaaafaaaafaaaafaaaafaaaafaaaafaaaafaaaafaaaafaaaafaaaafaaaafaaaafaaaafaaaafaaaafaaaafaaaafaaaafaaaafaaaafaaaafaaaafaaaafaaaafaaaafaaaafaaaafaaaafaaaafaaaafaaaafaaaafaaaafaaaafaaaafaaaafaaaafaaaafaaaafaaaafaaaafaaaafaaaafaaaafaaaafaaaafaaaafaaaafaaaafaaaafaaaafaaaafaaaafaaaafaaaafaaaafaaaafaaaafaaaafaaaafaaaafaaaafaaaafaaaafaaaafaaaafaaaafaaaafaaaafaaaafaaaafaaaafaaaafaaaafaaaafaaaafaaaafaaaafaaaafaaaafaaaafaaaafaaaafaaaafaaaafaaaafaaaafaaaafaaaafaaaafaaaafaaaafaaaafaaaafaaaafaaaafaaaafaaaafaaaafaaaafaaaafaaaafaaaafaaaafaaaafaaaafaaaafaaaafaaaafaaaafaaaafaaaafaaaafaaaafaaaafaaaafaaaafaaaafaaaafaaaafaaaafaaaafaaaafaaaafaaaafaaaafaaaafaaaafaaaafaaaafaaaafaaaafaaaafaaaafaaaafaaaafaaaafaaaafaaaafaaaafaaaafaaaafaaaafaaaafaaaafaaaafaaaafaaaafaaaafaaaafaaaafaaaafaaaafaaaafaaaafaaaafaaaafaaaafaaaafaaaafaaaafaaaafaaaafaaaafaaaafaaaafaaaafaaaafaaaafaaaafaaaafaaaafaaaafaaaafaaaafaaaafaaaafaaaafaaaafaaaafaaaafaaaafaaaafaaaafaaaafaaaafaaaafaaaafaaaafaaaafaaaafaaaafaaaafaaaafaaaafaaaafaaaafaaaafaaaafaaaafaaaafaaaafaaaafaaaafaaaafaaaafaaaafaaaafaaaafaaaafaaaafaaaafaaaafaaaafaaaafaaaafaaaafaaaafaaaafaaaafaaaafaaaafaaaafaaaafaaaafaaaafaaaafaaaafaaaafaaaafaaaafaaaafaaaafaaaafaaaafaaaafaaaafaaaafaaaafaaaafaaaafaaaafaaaafaaaafaaaafaaaafaaaafaaaafaaaafaaaafaaaafaaaafaaaafaaaafaaaafaaaafaaaafaaaafaaaafaaaafaaaafaaaafaaaafaaaafaaaafaaaafaaaafaaaafaaaafaaaafaaaafaaaafaaaafaaaafaaaafaaaafaaaafaaaafaaaafaaaafaaaafaaaafaaaafaaaafaaaafaaaafaaaafaaaafaaaafaaaafaaaafaaaafaaaafaaaafaaaafaaaafaaaafaaaafaaaafaaaafaaaafaaaafaaaafaaaafaaaafaaaafaaaafaaaafaaaafaaaafaaaafaaaafaaaafaaaafaaaafaaaafaaaafaaaafaaaafaaaafaaaafaaaafaaaafaaaafaaaafaaaafaaaafaaaafaaaafaaaafaaaafaaaafaaaafaaaafaaaafaaaafaaaafaaaafaaaafaaaafaaaafaaaafaaaafaaaafaaaafaaaafaaaafaaaafaaaafaaaafaaaafaaaafaaaafaaaafaaaafaaaafaaaafaaaafaaaafaaaafaaaafaaaafaaaafaaaafaaaafaaaafaaaafaaaafaaaafaaaafaaaafaaaafaaaafaaaafaaaafaaaafaaaafaaaafaaaafaaaafaaaafaaaafaaaafaaaafaaaafaaaafaaaafaaaafaaaafaaaafaaaafaaaafaaaafaaaafaaaafaaaafaaaafaaaafaaaafaaaafaaaafaaaafaaaafaaaafaaaafaaaafaaaafaaaafaaaafaaaafaaaafaaaafaaaafaaaafaaaafaaaafaaaafaaaafaaaafaaaafaaaafaaaafaaaafaaaafaaaafaaaafaaaafaaaafaaaafaaaafaaaafaaaafaaaafaaaafaaaafaaaafaaaafaaaafaaaafaaaafaaaafaaaafaaaafaaaafaaaafaaaafaaaafaaaafaaaafaaaafaaaafaaaafaaaafaaaafaaaafaaaafaaaafaaaafaaaafaaaafaaaafaaaafaaaafaaaafaaaafaaaafaaaafaaaafaaaafaaaafaaaafaaaafaaaafaaaafaaaafaaaafaaaafaaaafaaaafaaaafaaaafaaaafaaaafaaaafaaaafaaaafaaaafaaaafaaaafaaaafaaaafaaaafaaaafaaaafaaaafaaaafaaaafaaaafaaaafaaaafaaaafaaaafaaaafaaaafaaaafaaaafaaaafaaaafaaaafaaaafaaaafaaaafaaaafaaaafaaaafaaaafaaaafaaaafaaaafaaaafaaaafaaaafaaaafaaaafaaaafaaaafaaaafaaaafaaaafaaaafaaaafaaaafaaaafaaaafaaaafaaaafaaaafaaaafaaaafaaaafaaaafaaaafaaaafaaaafaaaafaaaafaaaafaaaafaaaafaaaafaaaafaaaafaaaafaaaafaaaafaaaafaaaafaaaafaaaafaaaafaaaafaaaafaaaafaaaafaaaafaaaafaaaafaaaafaaaafaaaafaaaafaaaafaaaafaaaafaaaafaaaafaaaafaaaafaaaafaaaafaaaafaaaafaaaafaaaafaaaafaaaafaaaafaaaafaaaafaaaafaaaafaaaafaaaafaaaafaaaafaaaafaaaafaaaafaaaafaaaafaaaafaaaafaaaafaaaafaaaafaaaafaaaafaaaafaaaafaaaafaaaafaaaafaaaafaaaafaaaafaaaafaaaafaaaafaaaafaaaafaaaafaaaafaaaafaaaafaaaafaaaafaaaafaaaafaaaafaaaafaaaafaaaafaaaafaaaafaaaafaaaafaaaafaaaafaaaafaaaafaaaafaaaafaaaafaaaafaaaafaaaafaaaafaaaafaaaafaaaafaaaafaaaafaaaafaaaafaaaafaaaafaaaafaaaafaaaafaaaafaaaafaaaafaaaafaaaafaaaafaaaafaaaafaaaafaaaafaaaafaaaafaaaafaaaafaaaafaaaafaaaafaaaafaaaafaaaafaaaafaaaafaaaafaaaafaaaafaaaafaaaafaaaafaaaafaaaafaaaafaaaafaaaafaaaafaaaafaaaafaaaafaaaafaaaafaaaafaaaafaaaafaaaafaaaafaaaafaaaafaaaafaaaafaaaafaaaafaaaafaaaafaaaafaaaafaaaafaaaafaaaafaaaafaaaafaaaafaaaafaaaafaaaafaaaafaaaafaaaafaaaafaaaafaaaafaaaafaaaafaaaafaaaafaaaafaaaafaaaafaaaafaaaafaaaafaaaafaaaafaaaafaaaafaaaafaaaafaaaafaaaafaaaafaaaafaaaafaaaafaaaafaaaafaaaafaaaafaaaafaaaafaaaafaaaafaaaafaaaafaaaafaaaafaaaafaaaafaaaafaaaafaaaafaaaafaaaafaaaafaaaafaaaafaaaafaaaafaaaafaaaafaaaafaaaafaaaafaaaafaaaafaaaafaaaafaaaafaaaafaaaafaaaafaaaafaaaafaaaafaaaafaaaafaaaafaaaafaaaafaaaafaaaafaaaafaaaafaaaafaaaafaaaafaaaafaaaafaaaafaaaafaaaafaaaafaaaafaaaafaaaafaaaafaaaafaaaafaaaafaaaafaaaafaaaafaaaafaaaafaaaafaaaafaaaafaaaafaaaafaaaafaaaafaaaafaaaafaaaafaaaafaaaafaaaafaaaafaaaafaaaafaaaafaaaafaaaafaaaafaaaafaaaafaaaafaaaafaaaafaaaafaaaafaaaafaaaafaaaafaaaafaaaafaaaafaaaafaaaafaaaafaaaafaaaafaaaafaaaafaaaafaaaafaaaafaaaafaaaafaaaafaaaafaaaafaaaafaaaafaaaafaaaafaaaafaaaafaaaafaaaafaaaafaaaafaaaafaaaafaaaafaaaafaaaafaaaafaaaafaaaafaaaafaaaafaaaafaaaafaaaafaaaafaaaafaaaafaaaafaaaafaaaafaaaafaaaafaaaafaaaafaaaafaaaafaaaafaaaafaaaafaaaafaaaafaaaafaaaafaaaafaaaafaaaafaaaafaaaafaaaafaaaafaaaafaaaafaaaafaaaafaaaafaaaafaaaafaaaafaaaafaaaafaaaafaaaafaaaafaaaafaaaafaaaafaaaafaaaafaaaafaaaafaaaafaaaafaaaafaaaafaaaafaaaafaaaafaaaafaaaafaaaafaaaafaaaafaaaafaaaafaaaafaaaafaaaafaaaafaaaafaaaafaaaafaaaafaaaafaaaafaaaafaaaafaaaafaaaafaaaafaaaafaaaafaaaafaaaafaaaafaaaafaaaafaaaafaaaafaaaafaaaafaaaafaaaafaaaafaaaafaaaafaaaafaaaafaaaafaaaafaaaafaaaafaaaafaaaafaaaafaaaafaaaafaaaafaaaafaaaafaaaafaaaafaaaafaaaafaaaafaaaafaaaafaaaafaaaafaaaafaaaafaaaafaaaafaaaafaaaafaaaafaaaafaaaafaaaafaaaafaaaafaaaafaaaafaaaafaaaafaaaafaaaafaaaafaaaafaaaafaaaafaaaafaaaafaaaafaaaafaaaafaaaafaaaafaaaafaaaafaaaafaaaafaaaafaaaafaaaafaaaafaaaafaaaafaaaafaaaafaaaafaaaafaaaafaaaafaaaafaaaafaaaafaaaafaaaafaaaafaaaafaaaafaaaafaaaafaaaafaaaafaaaafaaaafaaaafaaaafaaaafaaaafaaaafaaaafaaaafaaaafaaaafaaaafaaaafaaaafaaaafaaaafaaaafaaaafaaaafaaaafaaaafaaaafaaaafaaaafaaaafaaaafaaaafaaaafaaaafaaaafaaaafaaaafaaaafaaaafaaaafaaaafaaaafaaaafaaaafaaaafaaaafaaaafaaaafaaaafaaaafaaaafaaaafaaaafaaaafaaaafaaaafaaaafaaaafaaaafaaaafaaaafaaaafaaaafaaaafaaaafaaaafaaaafaaaafaaaafaaaafaaaafaaaafaaaafaaaafaaaafaaaafaaaafaaaafaaaafaaaafaaaafaaaafaaaafaaaafaaaafaaaafaaaafaaaafaaaafaaaafaaaafaaaafaaaafaaaafaaaafaaaafaaaafaaaafaaaafaaaafaaaafaaaafaaaafaaaafaaaafaaaafaaaafaaaafaaaafaaaafaaaafaaaafaaaafaaaafaaaafaaaafaaaafaaaafaaaafaaaafaaaafaaaafaaaafaaaafaaaafaaaafaaaafaaaafaaaafaaaafaaaafaaaafaaaafaaaafaaaafaaaafaaaafaaaafaaaafaaaafaaaafaaaafaaaafaaaafaaaafaaaafaaaafaaaafaaaafaaaafaaaafaaaafaaaafaaaafaaaafaaaafaaaafaaaafaaaafaaaafaaaafaaaafaaaafaaaafaaaafaaaafaaaafaaaafaaaafaaaafaaaafaaaafaaaafaaaafaaaafaaaafaaaafaaaafaaaafaaaafaaaafaaaafaaaafaaaafaaaafaaaafaaaafaaaafaaaafaaaafaaaafaaaafaaaafaaaafaaaafaaaafaaaafaaaafaaaafaaaafaaaafaaaafaaaafaaaafaaaafaaaafaaaafaaaafaaaafaaaafaaaafaaaafaaaafaaaafaaaafaaaafaaaafaaaafaaaafaaaafaaaafaaaafaaaafaaaafaaaafaaaafaaaafaaaafaaaafaaaafaaaafaaaafaaaafaaaafaaaafaaaafaaaafaaaafaaaafaaaafaaaafaaaafaaaafaaaafaaaafaaaafaaaafaaaafaaaafaaaafaaaafaaaafaaaafaaaafaaaafaaaafaaaafaaaafaaaafaaaafaaaafaaaafaaaafaaaafaaaafaaaafaaaafaaaafaaaafaaaafaaaafaaaafaaaafaaaafaaaafaaaafaaaafaaaafaaaafaaaafaaaafaaaafaaaafaaaafaaaafaaaafaaaafaaaafaaaafaaaafaaaafaaaafaaaafaaaafaaaafaaaafaaaafaaaafaaaafaaaafaaaafaaaafaaaafaaaafaaaafaaaafaaaafaaaafaaaafaaaafaaaafaaaafaaaafaaaafaaaafaaaafaaaafaaaafaaaafaaaafaaaafaaaafaaaafaaaafaaaafaaaafaaaafaaaafaaaafaaaafaaaafaaaafaaaafaaaafaaaafaaaafaaaafaaaafaaaafaaaafaaaafaaaafaaaafaaaafaaaafaaaafaaaafaaaafaaaafaaaafaaaafaaaafaaaafaaaafaaaafaaaafaaaafaaaafaaaafaaaafaaaafaaaafaaaafaaaafaaaafaaaafaaaafaaaafaaaafaaaafaaaafaaaafaaaafaaaafaaaafaaaafaaaafaaaafaaaafaaaafaaaafaaaafaaaafaaaafaaaafaaaafaaaafaaaafaaaafaaaafaaaafaaaafaaaafaaaafaaaafaaaafaaaafaaaafaaaafaaaafaaaafaaaafaaaafaaaafaaaafaaaafaaaafaaaafaaaafaaaafaaaafaaaafaaaafaaaafaaaafaaaafaaaafaaaafaaaafaaaafaaaafaaaafaaaafaaaafaaaafaaaafaaaafaaaafaaaafaaaafaaaafaaaafaaaafaaaafaaaafaaaafaaaafaaaafaaaafaaaafaaaafaaaafaaaafaaaafaaaafaaaafaaaafaaaafaaaafaaaafaaaafaaaafaaaafaaaafaaaafaaaafaaaafaaaafaaaafaaaafaaaafaaaafaaaafaaaafaaaafaaaafaaaafaaaafaaaafaaaafaaaafaaaafaaaafaaaafaaaafaaaafaaaafaaaafaaaafaaaafaaaafaaaafaaaafaaaafaaaafaaaafaaaafaaaafaaaafaaaafaaaafaaaafaaaafaaaafaaaafaaaafaaaafaaaafaaaafaaaafaaaafaaaafaaaafaaaafaaaafaaaafaaaafaaaafaaaafaaaafaaaafaaaafaaaafaaaafaaaafaaaafaaaafaaaafaaaafaaaafaaaafaaaafaaaafaaaafaaaafaaaafaaaafaaaafaaaafaaaafaaaafaaaafaaaafaaaafaaaafaaaafaaaafaaaafaaaafaaaafaaaafaaaafaaaafaaaafaaaafaaaafaaaafaaaafaaaafaaaafaaaafaaaafaaaafaaaafaaaafaaaafaaaafaaaafaaaafaaaafaaaafaaaafaaaafaaaafaaaafaaaafaaaafaaaafaaaafaaaafaaaafaaaafaaaafaaaafaaaafaaaafaaaafaaaafaaaafaaaafaaaafaaaafaaaafaaaafaaaafaaaafaaaafaaaafaaaafaaaafaaaafaaaafaaaafaaaafaaaafaaaafaaaafaaaafaaaafaaaafaaaafaaaafaaaafaaaafaaaafaaaafaaaafaaaafaaaafaaaafaaaafaaaafaaaafaaaafaaaafaaaafaaaafaaaafaaaafaaaafaaaafaaaafaaaafaaaafaaaafaaaafaaaafaaaafaaaafaaaafaaaafaaaafaaaafaaaafaaaafaaaafaaaafaaaafaaaafaaaafaaaafaaaafaaaafaaaafaaaafaaaafaaaafaaaafaaaafaaaafaaaafaaaafaaaafaaaafaaaafaaaafaaaafaaaafaaaafaaaafaaaafaaaafaaaafaaaafaaaafaaaafaaaafaaaafaaaafaaaafaaaafaaaafaaaafaaaafaaaafaaaafaaaafaaaafaaaafaaaafaaaafaaaafaaaafaaaafaaaafaaaafaaaafaaaafaaaafaaaafaaaafaaaafaaaafaaaafaaaafaaaafaaaafaaaafaaaafaaaafaaaafaaaafaaaafaaaafaaaafaaaafaaaafaaaafaaaafaaaafaaaafaaaafaaaafaaaafaaaafaaaafaaaafaaaafaaaafaaaafaaaafaaaafaaaafaaaafaaaafaaaafaaaafaaaafaaaafaaaafaaaafaaaafaaaafaaaafaaaafaaaafaaaafaaaafaaaafaaaafaaaafaaaafaaaafaaaafaaaafaaaafaaaafaaaafaaaafaaaafaaaafaaaafaaaafaaaafaaaafaaaafaaaafaaaafaaaafaaaafaaaafaaaafaaaafaaaafaaaafaaaafaaaafaaaafaaaafaaaafaaaafaaaafaaaafaaaafaaaafaaaafaaaafaaaafaaaafaaaafaaaafaaaafaaaafaaaafaaaafaaaafaaaafaaaafaaaafaaaafaaaafaaaafaaaafaaaafaaaafaaaafaaaafaaaafaaaafaaaafaaaafaaaafaaaafaaaafaaaafaaaafaaaafaaaafaaaafaaaafaaaafaaaafaaaafaaaafaaaafaaaafaaaafaaaafaaaafaaaafaaaafaaaafaaaafaaaafaaaafaaaafaaaafaaaafaaaafaaaafaaaafaaaafaaaafaaaafaaaafaaaafaaaafaaaafaaaafaaaafaaaafaaaafaaaafaaaafaaaafaaaafaaaafaaaafaaaafaaaafaaaafaaaafaaaafaaaafaaaafaaaafaaaafaaaafaaaafaaaafaaaafaaaafaaaafaaaafaaaafaaaafaaaafaaaafaaaafaaaafaaaafaaaafaaaafaaaafaaaafaaaafaaaafaaaafaaaafaaaafaaaafaaaafaaaafaaaafaaaafaaaafaaaafaaaafaaaafaaaafaaaafaaaafaaaafaaaafaaaafaaaafaaaafaaaafaaaafaaaafaaaafaaaafaaaafaaaafaaaafaaaafaaaafaaaafaaaafaaaafaaaafaaaafaaaafaaaafaaaafaaaafaaaafaaaafaaaafaaaafaaaafaaaafaaaafaaaafaaaafaaaafaaaafaaaafaaaafaaaafaaaafaaaafaaaafaaaafaaaafaaaafaaaafaaaafaaaafaaaafaaaafaaaafaaaafaaaafaaaafaaaafaaaafaaaafaaaafaaaafaaaafaaaafaaaafaaaafaaaafaaaafaaaafaaaafaaaafaaaafaaaafaaaafaaaafaaaafaaaafaaaafaaaafaaaafaaaafaaaafaaaafaaaafaaaafaaaafaaaafaaaafaaaafaaaafaaaafaaaafaaaafaaaafaaaafaaaafaaaafaaaafaaaafaaaafaaaafaaaafaaaafaaaafaaaafaaaafaaaafaaaafaaaafaaaafaaaafaaaafaaaafaaaafaaaafaaaafaaaafaaaafaaaafaaaafaaaafaaaafaaaafaaaafaaaafaaaafaaaafaaaafaaaafaaaafaaaafaaaafaaaafaaaafaaaafaaaafaaaafaaaafaaaafaaaafaaaafaaaafaaaafaaaafaaaafaaaafaaaafaaaafaaaafaaaafaaaafaaaafaaaafaaaafaaaafaaaafaaaafaaaafaaaafaaaafaaaafaaaafaaaafaaaafaaaafaaaafaaaafaaaafaaaafaaaafaaaafaaaafaaaafaaaafaaaafaaaafaaaafaaaafaaaafaaaafaaaafaaaafaaaafaaaafaaaafaaaafaaaafaaaafaaaafaaaafaaaafaaaafaaaafaaaafaaaafaaaafaaaafaaaafaaaafaaaafaaaafaaaafaaaafaaaafaaaafaaaafaaaafaaaafaaaafaaaafaaaafaaaafaaaafaaaafaaaafaaaafaaaafaaaafaaaafaaaafaaaafaaaafaaaafaaaafaaaafaaaafaaaafaaaafaaaafaaaafaaaafaaaafaaaafaaaafaaaafaaaafaaaafaaaafaaaafaaaafaaaafaaaafaaaafaaaafaaaafaaaafaaaafaaaafaaaafaaaafaaaafaaaafaaaafaaaafaaaafaaaafaaaafaaaafaaaafaaaafaaaafaaaafaaaafaaaafaaaafaaaafaaaafaaaafaaaafaaaafaaaafaaaafaaaafaaaafaaaafaaaafaaaafaaaafaaaafaaaafaaaafaaaafaaaafaaaafaaaafaaaafaaaafaaaafaaaafaaaafaaaafaaaafaaaafaaaafaaaafaaaafaaaafaaaafaaaafaaaafaaaafaaaafaaaafaaaafaaaafaaaafaaaafaaaafaaaafaaaafaaaafaaaafaaaafaaaafaaaafaaaafaaaafaaaafaaaafaaaafaaaafaaaafaaaafaaaafaaaafaaaafaaaafaaaafaaaafaaaafaaaafaaaafaaaafaaaafaaaafaaaafaaaafaaaafaaaafaaaafaaaafaaaafaaaafaaaafaaaafaaaafaaaafaaaafaaaafaaaafaaaafaaaafaaaafaaaafaaaafaaaafaaaafaaaafaaaafaaaafaaaafaaaafaaaafaaaafaaaafaaaafaaaafaaaafaaaafaaaafaaaafaaaafaaaafaaaafaaaafaaaafaaaafaaaafaaaafaaaafaaaafaaaafaaaafaaaafaaaafaaaafaaaafaaaafaaaafaaaafaaaafaaaafaaaafaaaafaaaafaaaafaaaafaaaafaaaafaaaafaaaafaaaafaaaafaaaafaaaafaaaafaaaafaaaafaaaafaaaafaaaafaaaafaaaafaaaafaaaafaaaafaaaafaaaafaaaafaaaafaaaafaaaafaaaafaaaafaaaafaaaafaaaafaaaafaaaafaaaafaaaafaaaafaaaafaaaafaaaafaaaafaaaafaaaafaaaafaaaafaaaafaaaafaaaafaaaafaaaafaaaafaaaafaaaafaaaafaaaafaaaafaaaafaaaafaaaafaaaafaaaafaaaafaaaafaaaafaaaafaaaafaaaafaaaafaaaafaaaafaaaafaaaafaaaafaaaafaaaafaaaafaaaafaaaafaaaafaaaafaaaafaaaafaaaafaaaafaaaafaaaafaaaafaaaafaaaafaaaafaaaafaaaafaaaafaaaafaaaafaaaafaaaafaaaafaaaafaaaafaaaafaaaafaaaafaaaafaaaafaaaafaaaafaaaafaaaafaaaafaaaafaaaafaaaafaaaafaaaafaaaafaaaafaaaafaaaafaaaafaaaafaaaafaaaafaaaafaaaafaaaafaaaafaaaafaaaafaaaafaaaafaaaafaaaafaaaafaaaafaaaafaaaafaaaafaaaafaaaafaaaafaaaafaaaafaaaafaaaafaaaafaaaafaaaafaaaafaaaafaaaafaaaafaaaafaaaafaaaafaaaafaaaafaaaafaaaafaaaafaaaafaaaafaaaafaaaafaaaafaaaafaaaafaaaafaaaafaaaafaaaafaaaafaaaafaaaafaaaafaaaafaaaafaaaafaaaafaaaafaaaafaaaafaaaafaaaafaaaafaaaafaaaafaaaafaaaafaaaafaaaafaaaafaaaafaaaafaaaafaaaafaaaafaaaafaaaafaaaafaaaafaaaafaaaafaaaafaaaafaaaafaaaafaaaafaaaafaaaafaaaafaaaafaaaafaaaafaaaafaaaafaaaafaaaafaaaafaaaafaaaafaaaafaaaafaaaafaaaafaaaafaaaafaaaafaaaafaaaafaaaafaaaafaaaafaaaafaaaafaaaafaaaafaaaafaaaafaaaafaaaafaaaafaaaafaaaafaaaafaaaafaaaafaaaafaaaafaaaafaaaafaaaafaaaafaaaafaaaafaaaafaaaafaaaafaaaafaaaafaaaafaaaafaaaafaaaafaaaafaaaafaaaafaaaafaaaafaaaafaaaafaaaafaaaafaaaafaaaafaaaafaaaafaaaafaaaafaaaafaaaafaaaafaaaafaaaafaaaafaaaafaaaafaaaafaaaafaaaafaaaafaaaafaaaafaaaafaaaafaaaafaaaafaaaafaaaafaaaafaaaafaaaafaaaafaaaafaaaafaaaafaaaafaaaafaaaafaaaafaaaafaaaafaaaafaaaafaaaafaaaafaaaafaaaafaaaafaaaafaaaafaaaafaaaafaaaafaaaafaaaafaaaafaaaafaaaafaaaafaaaafaaaafaaaafaaaafaaaafaaaafaaaafaaaafaaaafaaaafaaaafaaaafaaaafaaaafaaaafaaaafaaaafaaaafaaaafaaaafaaaafaaaafaaaafaaaafaaaafaaaafaaaafaaaafaaaafaaaafaaaafaaaafaaaafaaaafaaaafaaaafaaaafaaaafaaaafaaaafaaaafaaaafaaaafaaaafaaaafaaaafaaaafaaaafaaaafaaaafaaaafaaaafaaaafaaaafaaaafaaaafaaaafaaaafaaaafaaaafaaaafaaaafaaaafaaaafaaaafaaaafaaaafaaaafaaaafaaaafaaaafaaaafaaaafaaaafaaaafaaaafaaaafaaaafaaaafaaaafaaaafaaaafaaaafaaaafaaaafaaaafaaaafaaaafaaaafaaaafaaaafaaaafaaaafaaaafaaaafaaaafaaaafaaaafaaaafaaaafaaaafaaaafaaaafaaaafaaaafaaaafaaaafaaaafaaaafaaaafaaaafaaaafaaaafaaaafaaaafaaaafaaaafaaaafaaaafaaaafaaaafaaaafaaaafaaaafaaaafaaaafaaaafaaaafaaaafaaaafaaaafaaaafaaaafaaaafaaaafaaaafaaaafaaaafaaaafaaaafaaaafaaaafaaaafaaaafaaaafaaaafaaaafaaaafaaaafaaaafaaaafaaaafaaaafaaaafaaaafaaaafaaaafaaaafaaaafaaaafaaaafaaaafaaaafaaaafaaaafaaaafaaaafaaaafaaaafaaaafaaaafaaaafaaaafaaaafaaaafaaaafaaaafaaaafaaaafaaaafaaaafaaaafaaaafaaaafaaaafaaaafaaaafaaaafaaaafaaaafaaaafaaaafaaaafaaaafaaaafaaaafaaaafaaaafaaaafaaaafaaaafaaaafaaaafaaaafaaaafaaaafaaaafaaaafaaaafaaaafaaaafaaaafaaaafaaaafaaaafaaaafaaaafaaaafaaaafaaaafaaaafaaaafaaaafaaaafaaaafaaaafaaaafaaaafaaaafaaaafaaaafaaaafaaaafaaaafaaaafaaaafaaaafaaaafaaaafaaaafaaaafaaaafaaaafaaaafaaaafaaaafaaaafaaaafaaaafaaaafaaaafaaaafaaaafaaaafaaaafaaaafaaaafaaaafaaaafaaaafaaaafaaaafaaaafaaaafaaaafaaaafaaaafaaaafaaaafaaaafaaaafaaaafaaaafaaaafaaaafaaaafaaaafaaaafaaaafaaaafaaaafaaaafaaaafaaaafaaaafaaaafaaaafaaaafaaaafaaaafaaaafaaaafaaaafaaaafaaaafaaaafaaaafaaaafaaaafaaaafaaaafaaaafaaaafaaaafaaaafaaaafaaaafaaaafaaaafaaaafaaaafaaaafaaaafaaaafaaaafaaaafaaaafaaaafaaaafaaaafaaaafaaaafaaaafaaaafaaaafaaaafaaaafaaaafaaaafaaaafaaaafaaaafaaaafaaaafaaaafaaaafaaaafaaaafaaaafaaaafaaaafaaaafaaaafaaaafaaaafaaaafaaaafaaaafaaaafaaaafaaaafaaaafaaaafaaaafaaaafaaaafaaaafaaaafaaaafaaaafaaaafaaaafaaaafaaaafaaaafaaaafaaaafaaaafaaaafaaaafaaaafaaaafaaaafaaaafaaaafaaaafaaaafaaaafaaaafaaaafaaaafaaaafaaaafaaaafaaaafaaaafaaaafaaaafaaaafaaaafaaaafaaaafaaaafaaaafaaaafaaaafaaaafaaaafaaaafaaaafaaaafaaaafaaaafaaaafaaaafaaaafaaaafaaaafaaaafaaaafaaaafaaaafaaaafaaaafaaaafaaaafaaaafaaaafaaaafaaaafaaaafaaaafaaaafaaaafaaaafaaaafaaaafaaaafaaaafaaaafaaaafaaaafaaaafaaaafaaaafaaaafaaaafaaaafaaaafaaaafaaaafaaaafaaaafaaaafaaaafaaaafaaaafaaaafaaaafaaaafaaaafaaaafaaaafaaaafaaaafaaaafaaaafaaaafaaaafaaaafaaaafaaaafaaaafaaaafaaaafaaaafaaaafaaaafaaaafaaaafaaaafaaaafaaaafaaaafaaaafaaaafaaaafaaaafaaaafaaaafaaaafaaaafaaaafaaaafaaaafaaaafaaaafaaaafaaaafaaaafaaaafaaaafaaaafaaaafaaaafaaaafaaaafaaaafaaaafaaaafaaaafaaaafaaaafaaaafaaaafaaaafaaaafaaaafaaaafaaaafaaaafaaaafaaaafaaaafaaaafaaaafaaaafaaaafaaaafaaaafaaaafaaaafaaaafaaaafaaaafaaaafaaaafaaaafaaaafaaaafaaaafaaaafaaaafaaaafaaaafaaaafaaaafaaaafaaaafaaaafaaaafaaaafaaaafaaaafaaaafaaaafaaaafaaaafaaaafaaaafaaaafaaaafaaaafaaaafaaaafaaaafaaaafaaaafaaaafaaaafaaaafaaaafaaaafaaaafaaaafaaaafaaaafaaaafaaaafaaaafaaaafaaaafaaaafaaaafaaaafaaaafaaaafaaaafaaaafaaaafaaaafaaaafaaaafaaaafaaaafaaaafaaaafaaaafaaaafaaaafaaaafaaaafaaaafaaaafaaaafaaaafaaaafaaaafaaaafaaaafaaaafaaaafaaaafaaaafaaaafaaaafaaaafaaaafaaaafaaaafaaaafaaaafaaaafaaaafaaaafaaaafaaaafaaaafaaaafaaaafaaaafaaaafaaaafaaaafaaaafaaaafaaaafaaaafaaaafaaaafaaaafaaaafaaaafaaaafaaaafaaaafaaaafaaaafaaaafaaaafaaaafaaaafaaaafaaaafaaaafaaaafaaaafaaaafaaaafaaaafaaaafaaaafaaaafaaaafaaaafaaaafaaaafaaaafaaaafaaaafaaaafaaaafaaaafaaaafaaaafaaaafaaaafaaaafaaaafaaaafaaaafaaaafaaaafaaaafaaaafaaaafaaaafaaaafaaaafaaaafaaaafaaaafaaaafaaaafaaaafaaaafaaaafaaaafaaaafaaaafaaaafaaaafaaaafaaaafaaaafaaaafaaaafaaaafaaaafaaaafaaaafaaaafaaaafaaaafaaaafaaaafaaaafaaaafaaaafaaaafaaaafaaaafaaaafaaaafaaaafaaaafaaaafaaaafaaaafaaaafaaaafaaaafaaaafaaaafaaaafaaaafaaaafaaaafaaaafaaaafaaaafaaaafaaaafaaaafaaaafaaaafaaaafaaaafaaaafaaaafaaaafaaaafaaaafaaaafaaaafaaaafaaaafaaaafaaaafaaaafaaaafaaaafaaaafaaaafaaaafaaaafaaaafaaaafaaaafaaaafaaaafaaaafaaaafaaaafaaaafaaaafaaaafaaaafaaaafaaaafaaaafaaaafaaaafaaaafaaaafaaaafaaaafaaaafaaaafaaaafaaaafaaaafaaaafaaaafaaaafaaaafaaaafaaaafaaaafaaaafaaaafaaaafaaaafaaaafaaaafaaaafaaaafaaaafaaaafaaaafaaaafaaaafaaaafaaaafaaaafaaaafaaaafaaaafaaaafaaaafaaaafaaaafaaaafaaaafaaaafaaaafaaaafaaaafaaaafaaaafaaaafaaaafaaaafaaaafaaaafaaaafaaaafaaaafaaaafaaaafaaaafaaaafaaaafaaaafaaaafaaaafaaaafaaaafaaaafaaaafaaaafaaaafaaaafaaaafaaaafaaaafaaaafaaaafaaaafaaaafaaaafaaaafaaaafaaaafaaaafaaaafaaaafaaaafaaaafaaaafaaaafaaaafaaaafaaaafaaaafaaaafaaaafaaaafaaaafaaaafaaaafaaaafaaaafaaaafaaaafaaaafaaaafaaaafaaaafaaaafaaaafaaaafaaaafaaaafaaaafaaaafaaaafaaaafaaaafaaaafaaaafaaaafaaaafaaaafaaaafaaaafaaaafaaaafaaaafaaaafaaaafaaaafaaaafaaaafaaaafaaaafaaaafaaaafaaaafaaaafaaaafaaaafaaaafaaaafaaaafaaaafaaaafaaaafaaaafaaaafaaaafaaaafaaaafaaaafaaaafaaaafaaaafaaaafaaaafaaaafaaaafaaaafaaaafaaaafaaaafaaaafaaaafaaaafaaaafaaaafaaaafaaaafaaaafaaaafaaaafaaaafaaaafaaaafaaaafaaaafaaaafaaaafaaaafaaaafaaaafaaaafaaaafaaaafaaaafaaaafaaaafaaaafaaaafaaaafaaaafaaaafaaaafaaaafaaaafaaaafaaaafaaaafaaaafaaaafaaaafaaaafaaaafaaaafaaaafaaaafaaaafaaaafaaaafaaaafaaaafaaaafaaaafaaaafaaaafaaaafaaaafaaaafaaaafaaaafaaaafaaaafaaaafaaaafaaaafaaaafaaaafaaaafaaaafaaaafaaaafaaaafaaaafaaaafaaaafaaaafaaaafaaaafaaaafaaaafaaaafaaaafaaaafaaaafaaaafaaaafaaaafaaaafaaaafaaaafaaaafaaaafaaaafaaaafaaaafaaaafaaaafaaaafaaaafaaaafaaaafaaaafaaaafaaaafaaaafaaaafaaaafaaaafaaaafaaaafaaaafaaaafaaaafaaaafaaaafaaaafaaaafaaaafaaaafaaaafaaaafaaaafaaaafaaaafaaaafaaaafaaaafaaaafaaaafaaaafaaaafaaaafaaaafaaaafaaaafaaaafaaaafaaaafaaaafaaaafaaaafaaaafaaaafaaaafaaaafaaaafaaaafaaaafaaaafaaaafaaaafaaaafaaaafaaaafaaaafaaaafaaaafaaaafaaaafaaaafaaaafaaaafaaaafaaaafaaaafaaaafaaaafaaaafaaaafaaaafaaaafaaaafaaaafaaaafaaaafaaaafaaaafaaaafaaaafaaaafaaaafaaaafaaaafaaaafaaaafaaaafaaaafaaaafaaaafaaaafaaaafaaaafaaaafaaaafaaaafaaaafaaaafaaaafaaaafaaaafaaaafaaaafaaaafaaaafaaaafaaaafaaaafaaaafaaaafaaaafaaaafaaaafaaaafaaaafaaaafaaaafaaaafaaaafaaaafaaaafaaaafaaaafaaaafaaaafaaaafaaaafaaaafaaaafaaaafaaaafaaaafaaaafaaaafaaaafaaaafaaaafaaaafaaaafaaaafaaaafaaaafaaaafaaaafaaaafaaaafaaaafaaaafaaaafaaaafaaaafaaaafaaaafaaaafaaaafaaaafaaaafaaaafaaaafaaaafaaaafaaaafaaaafaaaafaaaafaaaafaaaafaaaafaaaafaaaafaaaafaaaafaaaafaaaafaaaafaaaafaaaafaaaafaaaafaaaafaaaafaaaafaaaafaaaafaaaafaaaafaaaafaaaafaaaafaaaafaaaafaaaafaaaafaaaafaaaafaaaafaaaafaaaafaaaafaaaafaaaafaaaafaaaafaaaafaaaafaaaafaaaafaaaafaaaafaaaafaaaafaaaafaaaafaaaafaaaafaaaafaaaafaaaafaaaafaaaafaaaafaaaafaaaafaaaafaaaafaaaafaaaafaaaafaaaafaaaafaaaafaaaafaaaafaaaafaaaafaaaafaaaafaaaafaaaafaaaafaaaafaaaafaaaafaaaafaaaafaaaafaaaafaaaafaaaafaaaafaaaafaaaafaaaafaaaafaaaafaaaafaaaafaaaafaaaafaaaafaaaafaaaafaaaafaaaafaaaafaaaafaaaafaaaafaaaafaaaafaaaafaaaafaaaafaaaafaaaafaaaafaaaafaaaafaaaafaaaafaaaafaaaafaaaafaaaafaaaafaaaafaaaafaaaafaaaafaaaafaaaafaaaafaaaafaaaafaaaafaaaafaaaafaaaafaaaafaaaafaaaafaaaafaaaafaaaafaaaafaaaafaaaafaaaafaaaafaaaafaaaafaaaafaaaafaaaafaaaafaaaafaaaafaaaafaaaafaaaafaaaafaaaafaaaafaaaafaaaafaaaafaaaafaaaafaaaafaaaafaaaafaaaafaaaafaaaafaaaafaaaafaaaafaaaafaaaafaaaafaaaafaaaafaaaafaaaafaaaafaaaafaaaafaaaafaaaafaaaafaaaafaaaafaaaafaaaafaaaafaaaafaaaafaaaafaaaafaaaafaaaafaaaafaaaafaaaafaaaafaaaafaaaafaaaafaaaafaaaafaaaafaaaafaaaafaaaafaaaafaaaafaaaafaaaafaaaafaaaafaaaafaaaafaaaafaaaafaaaafaaaafaaaafaaaafaaaafaaaafaaaafaaaafaaaafaaaafaaaafaaaafaaaafaaaafaaaafaaaafaaaafaaaafaaaafaaaafaaaafaaaafaaaafaaaafaaaafaaaafaaaafaaaafaaaafaaaafaaaafaaaafaaaafaaaafaaaafaaaafaaaafaaaafaaaafaaaafaaaafaaaafaaaafaaaafaaaafaaaafaaaafaaaafaaaafaaaafaaaafaaaafaaaafaaaafaaaafaaaafaaaafaaaafaaaafaaaafaaaafaaaafaaaafaaaafaaaafaaaafaaaafaaaafaaaafaaaafaaaafaaaafaaaafaaaafaaaafaaaafaaaafaaaafaaaafaaaafaaaafaaaafaaaafaaaafaaaafaaaafaaaafaaaafaaaafaaaafaaaafaaaafaaaafaaaafaaaafaaaafaaaafaaaafaaaafaaaafaaaafaaaafaaaafaaaafaaaafaaaafaaaafaaaafaaaafaaaafaaaafaaaafaaaafaaaafaaaafaaaafaaaafaaaafaaaafaaaafaaaafaaaafaaaafaaaafaaaafaaaafaaaafaaaafaaaafaaaafaaaafaaaafaaaafaaaafaaaafaaaafaaaafaaaafaaaafaaaafaaaafaaaafaaaafaaaafaaaafaaaafaaaafaaaafaaaafaaaafaaaafaaaafaaaafaaaafaaaafaaaafaaaafaaaafaaaafaaaafaaaafaaaafaaaafaaaafaaaafaaaafaaaafaaaafaaaafaaaafaaaafaaaafaaaafaaaafaaaafaaaafaaaafaaaafaaaafaaaafaaaafaaaafaaaafaaaafaaaafaaaafaaaafaaaafaaaafaaaafaaaafaaaafaaaafaaaafaaaafaaaafaaaafaaaafaaaafaaaafaaaafaaaafaaaafaaaafaaaafaaaafaaaafaaaafaaaafaaaafaaaafaaaafaaaafaaaafaaaafaaaafaaaafaaaafaaaafaaaafaaaafaaaafaaaafaaaafaaaafaaaafaaaafaaaafaaaafaaaafaaaafaaaafaaaafaaaafaaaafaaaafaaaafaaaafaaaafaaaafaaaafaaaafaaaafaaaafaaaafaaaafaaaafaaaafaaaafaaaafaaaafaaaafaaaafaaaafaaaafaaaafaaaafaaaafaaaafaaaafaaaafaaaafaaaafaaaafaaaafaaaafaaaafaaaafaaaafaaaafaaaafaaaafaaaafaaaafaaaafaaaafaaaafaaaafaaaafaaaafaaaafaaaafaaaafaaaafaaaafaaaafaaaafaaaafaaaafaaaafaaaafaaaafaaaafaaaafaaaafaaaafaaaafaaaafaaaafaaaafaaaafaaaafaaaafaaaafaaaafaaaafaaaafaaaafaaaafaaaafaaaafaaaafaaaafaaaafaaaafaaaafaaaafaaaafaaaafaaaafaaaafaaaafaaaafaaaafaaaafaaaafaaaafaaaafaaaafaaaafaaaafaaaafaaaafaaaafaaaafaaaafaaaafaaaafaaaafaaaafaaaafaaaafaaaafaaaafaaaafaaaafaaaafaaaafaaaafaaaafaaaafaaaafaaaafaaaafaaaafaaaafaaaafaaaafaaaafaaaafaaaafaaaafaaaafaaaafaaaafaaaafaaaafaaaafaaaafaaaafaaaafaaaafaaaafaaaafaaaafaaaafaaaafaaaafaaaafaaaafaaaafaaaafaaaafaaaafaaaafaaaafaaaafaaaafaaaafaaaafaaaafaaaafaaaafaaaafaaaafaaaafaaaafaaaafaaaafaaaafaaaafaaaafaaaafaaaafaaaafaaaafaaaafaaaafaaaafaaaafaaaafaaaafaaaafaaaafaaaafaaaafaaaafaaaafaaaafaaaafaaaafaaaafaaaafaaaafaaaafaaaafaaaafaaaafaaaafaaaafaaaafaaaafaaaafaaaafaaaafaaaafaaaafaaaafaaaafaaaafaaaafaaaafaaaafaaaafaaaafaaaafaaaafaaaafaaaafaaaafaaaafaaaafaaaafaaaafaaaafaaaafaaaafaaaafaaaafaaaafaaaafaaaafaaaafaaaafaaaafaaaafaaaafaaaafaaaafaaaafaaaafaaaafaaaafaaaafaaaafaaaafaaaafaaaafaaaafaaaafaaaafaaaafaaaafaaaafaaaafaaaafaaaafaaaafaaaafaaaafaaaafaaaafaaaafaaaafaaaafaaaafaaaafaaaafaaaafaaaafaaaafaaaafaaaafaaaafaaaafaaaafaaaafaaaafaaaafaaaafaaaafaaaafaaaafaaaafaaaafaaaafaaaafaaaafaaaafaaaafaaaafaaaafaaaafaaaafaaaafaaaafaaaafaaaafaaaafaaaafaaaafaaaafaaaafaaaafaaaafaaaafaaaafaaaafaaaafaaaafaaaafaaaafaaaafaaaafaaaafaaaafaaaafaaaafaaaafaaaafaaaafaaaafaaaafaaaafaaaafaaaafaaaafaaaafaaaafaaaafaaaafaaaafaaaafaaaafaaaafaaaafaaaafaaaafaaaafaaaafaaaafaaaafaaaafaaaafaaaafaaaafaaaafaaaafaaaafaaaafaaaafaaaafaaaafaaaafaaaafaaaafaaaafaaaafaaaafaaaafaaaafaaaafaaaafaaaafaaaafaaaafaaaafaaaafaaaafaaaafaaaafaaaafaaaafaaaafaaaafaaaafaaaafaaaafaaaafaaaafaaaafaaaafaaaafaaaafaaaafaaaafaaaafaaaafaaaafaaaafaaaafaaaafaaaafaaaafaaaafaaaafaaaafaaaafaaaafaaaafaaaafaaaafaaaafaaaafaaaafaaaafaaaafaaaafaaaafaaaafaaaafaaaafaaaafaaaafaaaafaaaafaaaafaaaafaaaafaaaafaaaafaaaafaaaafaaaafaaaafaaaafaaaafaaaafaaaafaaaafaaaafaaaafaaaafaaaafaaaafaaaafaaaafaaaafaaaafaaaafaaaafaaaafaaaafaaaafaaaafaaaafaaaafaaaafaaaafaaaafaaaafaaaafaaaafaaaafaaaafaaaafaaaafaaaafaaaafaaaafaaaafaaaafaaaafaaaafaaaafaaaafaaaafaaaafaaaafaaaafaaaafaaaafaaaafaaaafaaaafaaaafaaaafaaaafaaaafaaaafaaaafaaaafaaaafaaaafaaaafaaaafaaaafaaaafaaaafaaaafaaaafaaaafaaaafaaaafaaaafaaaafaaaafaaaafaaaafaaaafaaaafaaaafaaaafaaaafaaaafaaaafaaaafaaaafaaaafaaaafaaaafaaaafaaaafaaaafaaaafaaaafaaaafaaaafaaaafaaaafaaaafaaaafaaaafaaaafaaaafaaaafaaaafaaaafaaaafaaaafaaaafaaaafaaaafaaaafaaaafaaaafaaaafaaaafaaaafaaaafaaaafaaaafaaaafaaaafaaaafaaaafaaaafaaaafaaaafaaaafaaaafaaaafaaaafaaaafaaaafaaaafaaaafaaaafaaaafaaaafaaaafaaaafaaaafaaaafaaaafaaaafaaaafaaaafaaaafaaaafaaaafaaaafaaaafaaaafaaaafaaaafaaaafaaaafaaaafaaaafaaaafaaaafaaaafaaaafaaaafaaaafaaaafaaaafaaaafaaaafaaaafaaaafaaaafaaaafaaaafaaaafaaaafaaaafaaaafaaaafaaaafaaaafaaaafaaaafaaaafaaaafaaaafaaaafaaaafaaaafaaaafaaaafaaaafaaaafaaaafaaaafaaaafaaaafaaaafaaaafaaaafaaaafaaaafaaaafaaaafaaaafaaaafaaaafaaaafaaaafaaaafaaaafaaaafaaaafaaaafaaaafaaaafaaaafaaaafaaaafaaaafaaaafaaaafaaaafaaaafaaaafaaaafaaaafaaaafaaaafaaaafaaaafaaaafaaaafaaaafaaaafaaaafaaaafaaaafaaaafaaaafaaaafaaaafaaaafaaaafaaaafaaaafaaaafaaaafaaaafaaaafaaaafaaaafaaaafaaaafaaaafaaaafaaaafaaaafaaaafaaaafaaaafaaaafaaaafaaaafaaaafaaaafaaaafaaaafaaaafaaaafaaaafaaaafaaaafaaaafaaaafaaaafaaaafaaaafaaaafaaaafaaaafaaaafaaaafaaaafaaaafaaaafaaaafaaaafaaaafaaaafaaaafaaaafaaaafaaaafaaaafaaaafaaaafaaaafaaaafaaaafaaaafaaaafaaaafaaaafaaaafaaaafaaaafaaaafaaaafaaaafaaaafaaaafaaaafaaaafaaaafaaaafaaaafaaaafaaaafaaaafaaaafaaaafaaaafaaaafaaaafaaaafaaaafaaaafaaaafaaaafaaaafaaaafaaaafaaaafaaaafaaaafaaaafaaaafaaaafaaaafaaaafaaaafaaaafaaaafaaaafaaaafaaaafaaaafaaaafaaaafaaaafaaaafaaaafaaaafaaaafaaaafaaaafaaaafaaaafaaaafaaaafaaaafaaaafaaaafaaaafaaaafaaaafaaaafaaaafaaaafaaaafaaaafaaaafaaaafaaaafaaaafaaaafaaaafaaaafaaaafaaaafaaaafaaaafaaaafaaaafaaaafaaaafaaaafaaaafaaaafaaaafaaaafaaaafaaaafaaaafaaaafaaaafaaaafaaaafaaaafaaaafaaaafaaaafaaaafaaaafaaaafaaaafaaaafaaaafaaaafaaaafaaaafaaaafaaaafaaaafaaaafaaaafaaaafaaaafaaaafaaaafaaaafaaaafaaaafaaaafaaaafaaaafaaaafaaaafaaaafaaaafaaaafaaaafaaaafaaaafaaaafaaaafaaaafaaaafaaaafaaaafaaaafaaaafaaaafaaaafaaaafaaaafaaaafaaaafaaaafaaaafaaaafaaaafaaaafaaaafaaaafaaaafaaaafaaaafaaaafaaaafaaaafaaaafaaaafaaaafaaaafaaaafaaaafaaaafaaaafaaaafaaaafaaaafaaaafaaaafaaaafaaaafaaaafaaaafaaaafaaaafaaaafaaaafaaaafaaaafaaaafaaaafaaaafaaaafaaaafaaaafaaaafaaaafaaaafaaaafaaaafaaaafaaaafaaaafaaaafaaaafaaaafaaaafaaaafaaaafaaaafaaaafaaaafaaaafaaaafaaaafaaaafaaaafaaaafaaaafaaaafaaaafaaaafaaaafaaaafaaaafaaaafaaaafaaaafaaaafaaaafaaaafaaaafaaaafaaaafaaaafaaaafaaaafaaaafaaaafaaaafaaaafaaaafaaaafaaaafaaaafaaaafaaaafaaaafaaaafaaaafaaaafaaaafaaaafaaaafaaaafaaaafaaaafaaaafaaaafaaaafaaaafaaaafaaaafaaaafaaaafaaaafaaaafaaaafaaaafaaaafaaaafaaaafaaaafaaaafaaaafaaaafaaaafaaaafaaaafaaaafaaaafaaaafaaaafaaaafaaaafaaaafaaaafaaaafaaaafaaaafaaaafaaaafaaaafaaaafaaaafaaaafaaaafaaaafaaaafaaaafaaaafaaaafaaaafaaaafaaaafaaaafaaaafaaaafaaaafaaaafaaaafaaaafaaaafaaaafaaaafaaaafaaaafaaaafaaaafaaaafaaaafaaaafaaaafaaaafaaaafaaaafaaaafaaaafaaaafaaaafaaaafaaaafaaaafaaaafaaaafaaaafaaaafaaaafaaaafaaaafaaaafaaaafaaaafaaaafaaaafaaaafaaaafaaaafaaaafaaaafaaaafaaaafaaaafaaaafaaaafaaaafaaaafaaaafaaaafaaaafaaaafaaaafaaaafaaaafaaaafaaaafaaaafaaaafaaaafaaaafaaaafaaaafaaaafaaaafaaaafaaaafaaaafaaaafaaaafaaaafaaaafaaaafaaaafaaaafaaaafaaaafaaaafaaaafaaaafaaaafaaaafaaaafaaaafaaaafaaaafaaaafaaaafaaaafaaaafaaaafaaaafaaaafaaaafaaaafaaaafaaaafaaaafaaaafaaaafaaaafaaaafaaaafaaaafaaaafaaaafaaaafaaaafaaaafaaaafaaaafaaaafaaaafaaaafaaaafaaaafaaaafaaaafaaaafaaaafaaaafaaaafaaaafaaaafaaaafaaaafaaaafaaaafaaaafaaaafaaaafaaaafaaaafaaaafaaaafaaaafaaaafaaaafaaaafaaaafaaaafaaaafaaaafaaaafaaaafaaaafaaaafaaaafaaaafaaaafaaaafaaaafaaaafaaaafaaaafaaaafaaaafaaaafaaaafaaaafaaaafaaaafaaaafaaaafaaaafaaaafaaaafaaaafaaaafaaaafaaaafaaaafaaaafaaaafaaaafaaaafaaaafaaaafaaaafaaaafaaaafaaaafaaaafaaaafaaaafaaaafaaaafaaaafaaaafaaaafaaaafaaaafaaaafaaaafaaaafaaaafaaaafaaaafaaaafaaaafaaaafaaaafaaaafaaaafaaaafaaaafaaaafaaaafaaaafaaaafaaaafaaaafaaaafaaaafaaaafaaaafaaaafaaaafaaaafaaaafaaaafaaaafaaaafaaaafaaaafaaaafaaaafaaaafaaaafaaaafaaaafaaaafaaaafaaaafaaaafaaaafaaaafaaaafaaaafaaaafaaaafaaaafaaaafaaaafaaaafaaaafaaaafaaaafaaaafaaaafaaaafaaaafaaaafaaaafaaaafaaaafaaaafaaaafaaaafaaaafaaaafaaaafaaaafaaaafaaaafaaaafaaaafaaaafaaaafaaaafaaaafaaaafaaaafaaaafaaaafaaaafaaaafaaaafaaaafaaaafaaaafaaaafaaaafaaaafaaaafaaaafaaaafaaaafaaaafaaaafaaaafaaaafaaaafaaaafaaaafaaaafaaaafaaaafaaaafaaaafaaaafaaaafaaaafaaaafaaaafaaaafaaaafaaaafaaaafaaaafaaaafaaaafaaaafaaaafaaaafaaaafaaaafaaaafaaaafaaaafaaaafaaaafaaaafaaaafaaaafaaaafaaaafaaaafaaaafaaaafaaaafaaaafaaaafaaaafaaaafaaaafaaaafaaaafaaaafaaaafaaaafaaaafaaaafaaaafaaaafaaaafaaaafaaaafaaaafaaaafaaaafaaaafaaaafaaaafaaaafaaaafaaaafaaaafaaaafaaaafaaaafaaaafaaaafaaaafaaaafaaaafaaaafaaaafaaaafaaaafaaaafaaaafaaaafaaaafaaaafaaaafaaaafaaaafaaaafaaaafaaaafaaaafaaaafaaaafaaaafaaaafaaaafaaaafaaaafaaaafaaaafaaaafaaaafaaaafaaaafaaaafaaaafaaaafaaaafaaaafaaaafaaaafaaaafaaaafaaaafaaaafaaaafaaaafaaaafaaaafaaaafaaaafaaaafaaaafaaaafaaaafaaaafaaaafaaaafaaaafaaaafaaaafaaaafaaaafaaaafaaaafaaaafaaaafaaaafaaaafaaaafaaaafaaaafaaaafaaaafaaaafaaaafaaaafaaaafaaaafaaaafaaaafaaaafaaaafaaaafaaaafaaaafaaaafaaaafaaaafaaaafaaaafaaaafaaaafaaaafaaaafaaaafaaaafaaaafaaaafaaaafaaaafaaaafaaaafaaaafaaaafaaaafaaaafaaaafaaaafaaaafaaaafaaaafaaaafaaaafaaaafaaaafaaaafaaaafaaaafaaaafaaaafaaaafaaaafaaaafaaaafaaaafaaaafaaaafaaaafaaaafaaaafaaaafaaaafaaaafaaaafaaaafaaaafaaaafaaaafaaaafaaaafaaaafaaaafaaaafaaaafaaaafaaaafaaaafaaaafaaaafaaaafaaaafaaaafaaaafaaaafaaaafaaaafaaaafaaaafaaaafaaaafaaaafaaaafaaaafaaaafaaaafaaaafaaaafaaaafaaaafaaaafaaaafaaaafaaaafaaaafaaaafaaaafaaaafaaaafaaaafaaaafaaaafaaaafaaaafaaaafaaaafaaaafaaaafaaaafaaaafaaaafaaaafaaaafaaaafaaaafaaaafaaaafaaaafaaaafaaaafaaaafaaaafaaaafaaaafaaaafaaaafaaaafaaaafaaaafaaaafaaaafaaaafaaaafaaaafaaaafaaaafaaaafaaaafaaaafaaaafaaaafaaaafaaaafaaaafaaaafaaaafaaaafaaaafaaaafaaaafaaaafaaaafaaaafaaaafaaaafaaaafaaaafaaaafaaaafaaaafaaaafaaaafaaaafaaaafaaaafaaaafaaaafaaaafaaaafaaaafaaaafaaaafaaaafaaaafaaaafaaaafaaaafaaaafaaaafaaaafaaaafaaaafaaaafaaaafaaaafaaaafaaaafaaaafaaaafaaaafaaaafaaaafaaaafaaaafaaaafaaaafaaaafaaaafaaaafaaaafaaaafaaaafaaaafaaaafaaaafaaaafaaaafaaaafaaaafaaaafaaaafaaaafaaaafaaaafaaaafaaaafaaaafaaaafaaaafaaaafaaaafaaaafaaaafaaaafaaaafaaaafaaaafaaaafaaaafaaaafaaaafaaaafaaaafaaaafaaaafaaaafaaaafaaaafaaaafaaaafaaaafaaaafaaaafaaaafaaaafaaaafaaaafaaaafaaaafaaaafaaaafaaaafaaaafaaaafaaaafaaaafaaaafaaaafaaaafaaaafaaaafaaaafaaaafaaaafaaaafaaaafaaaafaaaafaaaafaaaafaaaafaaaafaaaafaaaafaaaafaaaafaaaafaaaafaaaafaaaafaaaafaaaafaaaafaaaafaaaafaaaafaaaafaaaafaaaafaaaafaaaafaaaafaaaafaaaafaaaafaaaafaaaafaaaafaaaafaaaafaaaafaaaafaaaafaaaafaaaafaaaafaaaafaaaafaaaafaaaafaaaafaaaafaaaafaaaafaaaafaaaafaaaafaaaafaaaafaaaafaaaafaaaafaaaafaaaafaaaafaaaafaaaafaaaafaaaafaaaafaaaafaaaafaaaafaaaafaaaafaaaafaaaafaaaafaaaafaaaafaaaafaaaafaaaafaaaafaaaafaaaafaaaafaaaafaaaafaaaafaaaafaaaafaaaafaaaafaaaafaaaafaaaafaaaafaaaafaaaafaaaafaaaafaaaafaaaafaaaafaaaafaaaafaaaafaaaafaaaafaaaafaaaafaaaafaaaafaaaafaaaafaaaafaaaafaaaafaaaafaaaafaaaafaaaafaaaafaaaafaaaafaaaafaaaafaaaafaaaafaaaafaaaafaaaafaaaafaaaafaaaafaaaafaaaafaaaafaaaafaaaafaaaafaaaafaaaafaaaafaaaafaaaafaaaafaaaafaaaafaaaafaaaafaaaafaaaafaaaafaaaafaaaafaaaafaaaafaaaafaaaafaaaafaaaafaaaafaaaafaaaafaaaafaaaafaaaafaaaafaaaafaaaafaaaafaaaafaaaafaaaafaaaafaaaafaaaafaaaafaaaafaaaafaaaafaaaafaaaafaaaafaaaafaaaafaaaafaaaafaaaafaaaafaaaafaaaafaaaafaaaafaaaafaaaafaaaafaaaafaaaafaaaafaaaafaaaafaaaafaaaafaaaafaaaafaaaafaaaafaaaafaaaafaaaafaaaafaaaafaaaafaaaafaaaafaaaafaaaafaaaafaaaafaaaafaaaafaaaafaaaafaaaafaaaafaaaafaaaafaaaafaaaafaaaafaaaafaaaafaaaafaaaafaaaafaaaafaaaafaaaafaaaafaaaafaaaafaaaafaaaafaaaafaaaafaaaafaaaafaaaafaaaafaaaafaaaafaaaafaaaafaaaafaaaafaaaafaaaafaaaafaaaafaaaafaaaafaaaafaaaafaaaafaaaafaaaafaaaafaaaafaaaafaaaafaaaafaaaafaaaafaaaafaaaafaaaafaaaafaaaafaaaafaaaafaaaafaaaafaaaafaaaafaaaafaaaafaaaafaaaafaaaafaaaafaaaafaaaafaaaafaaaafaaaafaaaafaaaafaaaafaaaafaaaafaaaafaaaafaaaafaaaafaaaafaaaafaaaafaaaafaaaafaaaafaaaafaaaafaaaafaaaafaaaafaaaafaaaafaaaafaaaafaaaafaaaafaaaafaaaafaaaafaaaafaaaafaaaafaaaafaaaafaaaafaaaafaaaafaaaafaaaafaaaafaaaafaaaafaaaafaaaafaaaafaaaafaaaafaaaafaaaafaaaafaaaafaaaafaaaafaaaafaaaafaaaafaaaafaaaafaaaafaaaafaaaafaaaafaaaafaaaafaaaafaaaafaaaafaaaafaaaafaaaafaaaafaaaafaaaafaaaafaaaafaaaafaaaafaaaafaaaafaaaafaaaafaaaafaaaafaaaafaaaafaaaafaaaafaaaafaaaafaaaafaaaafaaaafaaaafaaaafaaaafaaaafaaaafaaaafaaaafaaaafaaaafaaaafaaaafaaaafaaaafaaaafaaaafaaaafaaaafaaaafaaaafaaaafaaaafaaaafaaaafaaaafaaaafaaaafaaaafaaaafaaaafaaaafaaaafaaaafaaaafaaaafaaaafaaaafaaaafaaaafaaaafaaaafaaaafaaaafaaaafaaaafaaaafaaaafaaaafaaaafaaaafaaaafaaaafaaaafaaaafaaaafaaaafaaaafaaaafaaaafaaaafaaaafaaaafaaaafaaaafaaaafaaaafaaaafaaaafaaaafaaaafaaaafaaaafaaaafaaaafaaaafaaaafaaaafaaaafaaaafaaaafaaaafaaaafaaaafaaaafaaaafaaaafaaaafaaaafaaaafaaaafaaaafaaaafaaaafaaaafaaaafaaaafaaaafaaaafaaaafaaaafaaaafaaaafaaaafaaaafaaaafaaaafaaaafaaaafaaaafaaaafaaaafaaaafaaaafaaaafaaaafaaaafaaaafaaaafaaaafaaaafaaaafaaaafaaaafaaaafaaaafaaaafaaaafaaaafaaaafaaaafaaaafaaaafaaaafaaaafaaaafaaaafaaaafaaaafaaaafaaaafaaaafaaaafaaaafaaaafaaaafaaaafaaaafaaaafaaaafaaaafaaaafaaaafaaaafaaaafaaaafaaaafaaaafaaaafaaaafaaaafaaaafaaaafaaaafaaaafaaaafaaaafaaaafaaaafaaaafaaaafaaaafaaaafaaaafaaaafaaaafaaaafaaaafaaaafaaaafaaaafaaaafaaaafaaaafaaaafaaaafaaaafaaaafaaaafaaaafaaaafaaaafaaaafaaaafaaaafaaaafaaaafaaaafaaaafaaaafaaaafaaaafaaaafaaaafaaaafaaaafaaaafaaaafaaaafaaaafaaaafaaaafaaaafaaaafaaaafaaaafaaaafaaaafaaaafaaaafaaaafaaaafaaaafaaaafaaaafaaaafaaaafaaaafaaaafaaaafaaaafaaaafaaaafaaaafaaaafaaaafaaaafaaaafaaaafaaaafaaaafaaaafaaaafaaaafaaaafaaaafaaaafaaaafaaaafaaaafaaaafaaaafaaaafaaaafaaaafaaaafaaaafaaaafaaaafaaaafaaaafaaaafaaaafaaaafaaaafaaaafaaaafaaaafaaaafaaaafaaaafaaaafaaaafaaaafaaaafaaaafaaaafaaaafaaaafaaaafaaaafaaaafaaaafaaaafaaaafaaaafaaaafaaaafaaaafaaaafaaaafaaaafaaaafaaaafaaaafaaaafaaaafaaaafaaaafaaaafaaaafaaaafaaaafaaaafaaaafaaaafaaaafaaaafaaaafaaaafaaaafaaaafaaaafaaaafaaaafaaaafaaaafaaaafaaaafaaaafaaaafaaaafaaaafaaaafaaaafaaaafaaaafaaaafaaaafaaaafaaaafaaaafaaaafaaaafaaaafaaaafaaaafaaaafaaaafaaaafaaaafaaaafaaaafaaaafaaaafaaaafaaaafaaaafaaaafaaaafaaaafaaaafaaaafaaaafaaaafaaaafaaaafaaaafaaaafaaaafaaaafaaaafaaaafaaaafaaaafaaaafaaaafaaaafaaaafaaaafaaaafaaaafaaaafaaaafaaaafaaaafaaaafaaaafaaaafaaaafaaaafaaaafaaaafaaaafaaaafaaaafaaaafaaaafaaaafaaaafaaaafaaaafaaaafaaaafaaaafaaaafaaaafaaaafaaaafaaaafaaaafaaaafaaaafaaaafaaaafaaaafaaaafaaaafaaaafaaaafaaaafaaaafaaaafaaaafaaaafaaaafaaaafaaaafaaaafaaaafaaaafaaaafaaaafaaaafaaaafaaaafaaaafaaaafaaaafaaaafaaaafaaaafaaaafaaaafaaaafaaaafaaaafaaaafaaaafaaaafaaaafaaaafaaaafaaaafaaaafaaaafaaaafaaaafaaaafaaaafaaaafaaaafaaaafaaaafaaaafaaaafaaaafaaaafaaaafaaaafaaaafaaaafaaaafaaaafaaaafaaaafaaaafaaaafaaaafaaaafaaaafaaaafaaaafaaaafaaaafaaaafaaaafaaaafaaaafaaaafaaaafaaaafaaaafaaaafaaaafaaaafaaaafaaaafaaaafaaaafaaaafaaaafaaaafaaaafaaaafaaaafaaaafaaaafaaaafaaaafaaaafaaaafaaaafaaaafaaaafaaaafaaaafaaaafaaaafaaaafaaaafaaaafaaaafaaaafaaaafaaaafaaaafaaaafaaaafaaaafaaaafaaaafaaaafaaaafaaaafaaaafaaaafaaaafaaaafaaaafaaaafaaaafaaaafaaaafaaaafaaaafaaaafaaaafaaaafaaaafaaaafaaaafaaaafaaaafaaaafaaaafaaaafaaaafaaaafaaaafaaaafaaaafaaaafaaaafaaaafaaaafaaaafaaaafaaaafaaaafaaaafaaaafaaaafaaaafaaaafaaaafaaaafaaaafaaaafaaaafaaaafaaaafaaaafaaaafaaaafaaaafaaaafaaaafaaaafaaaafaaaafaaaafaaaafaaaafaaaafaaaafaaaafaaaafaaaafaaaafaaaafaaaafaaaafaaaafaaaafaaaafaaaafaaaafaaaafaaaafaaaafaaaafaaaafaaaafaaaafaaaafaaaafaaaafaaaafaaaafaaaafaaaafaaaafaaaafaaaafaaaafaaaafaaaafaaaafaaaafaaaafaaaafaaaafaaaafaaaafaaaafaaaafaaaafaaaafaaaafaaaafaaaafaaaafaaaafaaaafaaaafaaaafaaaafaaaafaaaafaaaafaaaafaaaafaaaafaaaafaaaafaaaafaaaafaaaafaaaafaaaafaaaafaaaafaaaafaaaafaaaafaaaafaaaafaaaafaaaafaaaafaaaafaaaafaaaafaaaafaaaafaaaafaaaafaaaafaaaafaaaafaaaafaaaafaaaafaaaafaaaafaaaafaaaafaaaafaaaafaaaafaaaafaaaafaaaafaaaafaaaafaaaafaaaafaaaafaaaafaaaafaaaafaaaafaaaafaaaafaaaafaaaafaaaafaaaafaaaafaaaafaaaafaaaafaaaafaaaafaaaafaaaafaaaafaaaafaaaafaaaafaaaafaaaafaaaafaaaafaaaafaaaafaaaafaaaafaaaafaaaafaaaafaaaafaaaafaaaafaaaafaaaafaaaafaaaafaaaafaaaafaaaafaaaafaaaafaaaafaaaafaaaafaaaafaaaafaaaafaaaafaaaafaaaafaaaafaaaafaaaafaaaafaaaafaaaafaaaafaaaafaaaafaaaafaaaafaaaafaaaafaaaafaaaafaaaafaaaafaaaafaaaafaaaafaaaafaaaafaaaafaaaafaaaafaaaafaaaafaaaafaaaafaaaafaaaafaaaafaaaafaaaafaaaafaaaafaaaafaaaafaaaafaaaafaaaafaaaafaaaafaaaafaaaafaaaafaaaafaaaafaaaafaaaafaaaafaaaafaaaafaaaafaaaafaaaafaaaafaaaafaaaafaaaafaaaafaaaafaaaafaaaafaaaafaaaafaaaafaaaafaaaafaaaafaaaafaaaafaaaafaaaafaaaafaaaafaaaafaaaafaaaafaaaafaaaafaaaafaaaafaaaafaaaafaaaafaaaafaaaafaaaafaaaafaaaafaaaafaaaafaaaafaaaafaaaafaaaafaaaafaaaafaaaafaaaafaaaafaaaafaaaafaaaafaaaafaaaafaaaafaaaafaaaafaaaafaaaafaaaafaaaafaaaafaaaafaaaafaaaafaaaafaaaafaaaafaaaafaaaafaaaafaaaafaaaafaaaafaaaafaaaafaaaafaaaafaaaafaaaafaaaafaaaafaaaafaaaafaaaafaaaafaaaafaaaafaaaafaaaafaaaafaaaafaaaafaaaafaaaafaaaafaaaafaaaafaaaafaaaafaaaafaaaafaaaafaaaafaaaafaaaafaaaafaaaafaaaafaaaafaaaafaaaafaaaafaaaafaaaafaaaafaaaafaaaafaaaafaaaafaaaafaaaafaaaafaaaafaaaafaaaafaaaafaaaafaaaafaaaafaaaafaaaafaaaafaaaafaaaafaaaafaaaafaaaafaaaafaaaafaaaafaaaafaaaafaaaafaaaafaaaafaaaafaaaafaaaafaaaafaaaafaaaafaaaafaaaafaaaafaaaafaaaafaaaafaaaafaaaafaaaafaaaafaaaafaaaafaaaafaaaafaaaafaaaafaaaafaaaafaaaafaaaafaaaafaaaafaaaafaaaafaaaafaaaafaaaafaaaafaaaafaaaafaaaafaaaafaaaafaaaafaaaafaaaafaaaafaaaafaaaafaaaafaaaafaaaafaaaafaaaafaaaafaaaafaaaafaaaafaaaafaaaafaaaafaaaafaaaafaaaafaaaafaaaafaaaafaaaafaaaafaaaafaaaafaaaafaaaafaaaafaaaafaaaafaaaafaaaafaaaafaaaafaaaafaaaafaaaafaaaafaaaafaaaafaaaafaaaafaaaafaaaafaaaafaaaafaaaafaaaafaaaafaaaafaaaafaaaafaaaafaaaafaaaafaaaafaaaafaaaafaaaafaaaafaaaafaaaafaaaafaaaafaaaafaaaafaaaafaaaafaaaafaaaafaaaafaaaafaaaafaaaafaaaafaaaafaaaafaaaafaaaafaaaafaaaafaaaafaaaafaaaafaaaafaaaafaaaafaaaafaaaafaaaafaaaafaaaafaaaafaaaafaaaafaaaafaaaafaaaafaaaafaaaafaaaafaaaafaaaafaaaafaaaafaaaafaaaafaaaafaaaafaaaafaaaafaaaafaaaafaaaafaaaafaaaafaaaafaaaafaaaafaaaafaaaafaaaafaaaafaaaafaaaafaaaafaaaafaaaafaaaafaaaafaaaafaaaafaaaafaaaafaaaafaaaafaaaafaaaafaaaafaaaafaaaafaaaafaaaafaaaafaaaafaaaafaaaafaaaafaaaafaaaafaaaafaaaafaaaafaaaafaaaafaaaafaaaafaaaafaaaafaaaafaaaafaaaafaaaafaaaafaaaafaaaafaaaafaaaafaaaafaaaafaaaafaaaafaaaafaaaafaaaafaaaafaaaafaaaafaaaafaaaafaaaafaaaafaaaafaaaafaaaafaaaafaaaafaaaafaaaafaaaafaaaafaaaafaaaafaaaafaaaafaaaafaaaafaaaafaaaafaaaafaaaafaaaafaaaafaaaafaaaafaaaafaaaafaaaafaaaafaaaafaaaafaaaafaaaafaaaafaaaafaaaafaaaafaaaafaaaafaaaafaaaafaaaafaaaafaaaafaaaafaaaafaaaafaaaafaaaafaaaafaaaafaaaafaaaafaaaafaaaafaaaafaaaafaaaafaaaafaaaafaaaafaaaafaaaafaaaafaaaafaaaafaaaafaaaafaaaafaaaafaaaafaaaafaaaafaaaafaaaafaaaafaaaafaaaafaaaafaaaafaaaafaaaafaaaafaaaafaaaafaaaafaaaafaaaafaaaafaaaafaaaafaaaafaaaafaaaafaaaafaaaafaaaafaaaafaaaafaaaafaaaafaaaafaaaafaaaafaaaafaaaafaaaafaaaafaaaafaaaafaaaafaaaafaaaafaaaafaaaafaaaafaaaafaaaafaaaafaaaafaaaafaaaafaaaafaaaafaaaafaaaafaaaafaaaafaaaafaaaafaaaafaaaafaaaafaaaafaaaafaaaafaaaafaaaafaaaafaaaafaaaafaaaafaaaafaaaafaaaafaaaafaaaafaaaafaaaafaaaafaaaafaaaafaaaafaaaafaaaafaaaafaaaafaaaafaaaafaaaafaaaafaaaafaaaafaaaafaaaafaaaafaaaafaaaafaaaafaaaafaaaafaaaafaaaafaaaafaaaafaaaafaaaafaaaafaaaafaaaafaaaafaaaafaaaafaaaafaaaafaaaafaaaafaaaafaaaafaaaafaaaafaaaafaaaafaaaafaaaafaaaafaaaafaaaafaaaafaaaafaaaafaaaafaaaafaaaafaaaafaaaafaaaafaaaafaaaafaaaafaaaafaaaafaaaafaaaafaaaafaaaafaaaafaaaafaaaafaaaafaaaafaaaafaaaafaaaafaaaafaaaafaaaafaaaafaaaafaaaafaaaafaaaafaaaafaaaafaaaafaaaafaaaafaaaafaaaafaaaafaaaafaaaafaaaafaaaafaaaafaaaafaaaafaaaafaaaafaaaafaaaafaaaafaaaafaaaafaaaafaaaafaaaafaaaafaaaafaaaafaaaafaaaafaaaafaaaafaaaafaaaafaaaafaaaafaaaafaaaafaaaafaaaafaaaafaaaafaaaafaaaafaaaafaaaafaaaafaaaafaaaafaaaafaaaafaaaafaaaafaaaafaaaafaaaafaaaafaaaafaaaafaaaafaaaafaaaafaaaafaaaafaaaafaaaafaaaafaaaafaaaafaaaafaaaafaaaafaaaafaaaafaaaafaaaafaaaafaaaafaaaafaaaafaaaafaaaafaaaafaaaafaaaafaaaafaaaafaaaafaaaafaaaafaaaafaaaafaaaafaaaafaaaafaaaafaaaafaaaafaaaafaaaafaaaafaaaafaaaafaaaafaaaafaaaafaaaafaaaafaaaafaaaafaaaafaaaafaaaafaaaafaaaafaaaafaaaafaaaafaaaafaaaafaaaafaaaafaaaafaaaafaaaafaaaafaaaafaaaafaaaafaaaafaaaafaaaafaaaafaaaafaaaafaaaafaaaafaaaafaaaafaaaafaaaafaaaafaaaafaaaafaaaafaaaafaaaafaaaafaaaafaaaafaaaafaaaafaaaafaaaafaaaafaaaafaaaafaaaafaaaafaaaafaaaafaaaafaaaafaaaafaaaafaaaafaaaafaaaafaaaafaaaafaaaafaaaafaaaafaaaafaaaafaaaafaaaafaaaafaaaafaaaafaaaafaaaafaaaafaaaafaaaafaaaafaaaafaaaafaaaafaaaafaaaafaaaafaaaafaaaafaaaafaaaafaaaafaaaafaaaafaaaafaaaafaaaafaaaafaaaafaaaafaaaafaaaafaaaafaaaafaaaafaaaafaaaafaaaafaaaafaaaafaaaafaaaafaaaafaaaafaaaafaaaafaaaafaaaafaaaafaaaafaaaafaaaafaaaafaaaafaaaafaaaafaaaafaaaafaaaafaaaafaaaafaaaafaaaafaaaafaaaafaaaafaaaafaaaafaaaafaaaafaaaafaaaafaaaafaaaafaaaafaaaafaaaafaaaafaaaafaaaafaaaafaaaafaaaafaaaafaaaafaaaafaaaafaaaafaaaafaaaafaaaafaaaafaaaafaaaafaaaafaaaafaaaafaaaafaaaafaaaafaaaafaaaafaaaafaaaafaaaafaaaafaaaafaaaafaaaafaaaafaaaafaaaafaaaafaaaafaaaafaaaafaaaafaaaafaaaafaaaafaaaafaaaafaaaafaaaafaaaafaaaafaaaafaaaafaaaafaaaafaaaafaaaafaaaafaaaafaaaafaaaafaaaafaaaafaaaafaaaafaaaafaaaafaaaafaaaafaaaafaaaafaaaafaaaafaaaafaaaafaaaafaaaafaaaafaaaafaaaafaaaafaaaafaaaafaaaafaaaafaaaafaaaafaaaafaaaafaaaafaaaafaaaafaaaafaaaafaaaafaaaafaaaafaaaafaaaafaaaafaaaafaaaafaaaafaaaafaaaafaaaafaaaafaaaafaaaafaaaafaaaafaaaafaaaafaaaafaaaafaaaafaaaafaaaafaaaafaaaafaaaafaaaafaaaafaaaafaaaafaaaafaaaafaaaafaaaafaaaafaaaafaaaafaaaafaaaafaaaafaaaafaaaafaaaafaaaafaaaafaaaafaaaafaaaafaaaafaaaafaaaafaaaafaaaafaaaafaaaafaaaafaaaafaaaafaaaafaaaafaaaafaaaafaaaafaaaafaaaafaaaafaaaafaaaafaaaafaaaafaaaafaaaafaaaafaaaafaaaafaaaafaaaafaaaafaaaafaaaafaaaafaaaafaaaafaaaafaaaafaaaafaaaafaaaafaaaafaaaafaaaafaaaafaaaafaaaafaaaafaaaafaaaafaaaafaaaafaaaafaaaafaaaafaaaafaaaafaaaafaaaafaaaafaaaafaaaafaaaafaaaafaaaafaaaafaaaafaaaafaaaafaaaafaaaafaaaafaaaafaaaafaaaafaaaafaaaafaaaafaaaafaaaafaaaafaaaafaaaafaaaafaaaafaaaafaaaafaaaafaaaafaaaafaaaafaaaafaaaafaaaafaaaafaaaafaaaafaaaafaaaafaaaafaaaafaaaafaaaafaaaafaaaafaaaafaaaafaaaafaaaafaaaafaaaafaaaafaaaafaaaafaaaafaaaafaaaafaaaafaaaafaaaafaaaafaaaafaaaafaaaafaaaafaaaafaaaafaaaafaaaafaaaafaaaafaaaafaaaafaaaafaaaafaaaafaaaafaaaafaaaafaaaafaaaafaaaafaaaafaaaafaaaafaaaafaaaafaaaafaaaafaaaafaaaafaaaafaaaafaaaafaaaafaaaafaaaafaaaafaaaafaaaafaaaafaaaafaaaafaaaafaaaafaaaafaaaafaaaafaaaafaaaafaaaafaaaafaaaafaaaafaaaafaaaafaaaafaaaafaaaafaaaafaaaafaaaafaaaafaaaafaaaafaaaafaaaafaaaafaaaafaaaafaaaafaaaafaaaafaaaafaaaafaaaafaaaafaaaafaaaafaaaafaaaafaaaafaaaafaaaafaaaafaaaafaaaafaaaafaaaafaaaafaaaafaaaafaaaafaaaafaaaafaaaafaaaafaaaafaaaafaaaafaaaafaaaafaaaafaaaafaaaafaaaafaaaafaaaafaaaafaaaafaaaafaaaafaaaafaaaafaaaafaaaafaaaafaaaafaaaafaaaafaaaafaaaafaaaafaaaafaaaafaaaafaaaafaaaafaaaafaaaafaaaafaaaafaaaafaaaafaaaafaaaafaaaafaaaafaaaafaaaafaaaafaaaafaaaafaaaafaaaafaaaafaaaafaaaafaaaafaaaafaaaafaaaafaaaafaaaafaaaafaaaafaaaafaaaafaaaafaaaafaaaafaaaafaaaafaaaafaaaafaaaafaaaafaaaafaaaafaaaafaaaafaaaafaaaafaaaafaaaafaaaafaaaafaaaafaaaafaaaafaaaafaaaafaaaafaaaafaaaafaaaafaaaafaaaafaaaafaaaafaaaafaaaafaaaafaaaafaaaafaaaafaaaafaaaafaaaafaaaafaaaafaaaafaaaafaaaafaaaafaaaafaaaafaaaafaaaafaaaafaaaafaaaafaaaafaaaafaaaafaaaafaaaafaaaafaaaafaaaafaaaafaaaafaaaafaaaafaaaafaaaafaaaafaaaafaaaafaaaafaaaafaaaafaaaafaaaafaaaafaaaafaaaafaaaafaaaafaaaafaaaafaaaafaaaafaaaafaaaafaaaafaaaafaaaafaaaafaaaafaaaafaaaafaaaafaaaafaaaafaaaafaaaafaaaafaaaafaaaafaaaafaaaafaaaafaaaafaaaafaaaafaaaafaaaafaaaafaaaafaaaafaaaafaaaafaaaafaaaafaaaafaaaafaaaafaaaafaaaafaaaafaaaafaaaafaaaafaaaafaaaafaaaafaaaafaaaafaaaafaaaafaaaafaaaafaaaafaaaafaaaafaaaafaaaafaaaafaaaafaaaafaaaafaaaafaaaafaaaafaaaafaaaafaaaafaaaafaaaafaaaafaaaafaaaafaaaafaaaafaaaafaaaafaaaafaaaafaaaafaaaafaaaafaaaafaaaafaaaafaaaafaaaafaaaafaaaafaaaafaaaafaaaafaaaafaaaafaaaafaaaafaaaafaaaafaaaafaaaafaaaafaaaafaaaafaaaafaaaafaaaafaaaafaaaafaaaafaaaafaaaafaaaafaaaafaaaafaaaafaaaafaaaafaaaafaaaafaaaafaaaafaaaafaaaafaaaafaaaafaaaafaaaafaaaafaaaafaaaafaaaafaaaafaaaafaaaafaaaafaaaafaaaafaaaafaaaafaaaafaaaafaaaafaaaafaaaafaaaafaaaafaaaafaaaafaaaafaaaafaaaafaaaafaaaafaaaafaaaafaaaafaaaafaaaafaaaafaaaafaaaafaaaafaaaafaaaafaaaafaaaafaaaafaaaafaaaafaaaafaaaafaaaafaaaafaaaafaaaafaaaafaaaafaaaafaaaafaaaafaaaafaaaafaaaafaaaafaaaafaaaafaaaafaaaafaaaafaaaafaaaafaaaafaaaafaaaafaaaafaaaafaaaafaaaafaaaafaaaafaaaafaaaafaaaafaaaafaaaafaaaafaaaafaaaafaaaafaaaafaaaafaaaafaaaafaaaafaaaafaaaafaaaafaaaafaaaafaaaafaaaafaaaafaaaafaaaafaaaafaaaafaaaafaaaafaaaafaaaafaaaafaaaafaaaafaaaafaaaafaaaafaaaafaaaafaaaafaaaafaaaafaaaafaaaafaaaafaaaafaaaafaaaafaaaafaaaafaaaafaaaafaaaafaaaafaaaafaaaafaaaafaaaafaaaafaaaafaaaafaaaafaaaafaaaafaaaafaaaafaaaafaaaafaaaafaaaafaaaafaaaafaaaafaaaafaaaafaaaafaaaafaaaafaaaafaaaafaaaafaaaafaaaafaaaafaaaafaaaafaaaafaaaafaaaafaaaafaaaafaaaafaaaafaaaafaaaafaaaafaaaafaaaafaaaafaaaafaaaafaaaafaaaafaaaafaaaafaaaafaaaafaaaafaaaafaaaafaaaafaaaafaaaafaaaafaaaafaaaafaaaafaaaafaaaafaaaafaaaafaaaafaaaafaaaafaaaafaaaafaaaafaaaafaaaafaaaafaaaafaaaafaaaafaaaafaaaafaaaafaaaafaaaafaaaafaaaafaaaafaaaafaaaafaaaafaaaafaaaafaaaafaaaafaaaafaaaafaaaafaaaafaaaafaaaafaaaafaaaafaaaafaaaafaaaafaaaafaaaafaaaafaaaafaaaafaaaafaaaafaaaafaaaafaaaafaaaafaaaafaaaafaaaafaaaafaaaafaaaafaaaafaaaafaaaafaaaafaaaafaaaafaaaafaaaafaaaafaaaafaaaafaaaafaaaafaaaafaaaafaaaafaaaafaaaafaaaafaaaafaaaafaaaafaaaafaaaafaaaafaaaafaaaafaaaafaaaafaaaafaaaafaaaafaaaafaaaafaaaafaaaafaaaafaaaafaaaafaaaafaaaafaaaafaaaafaaaafaaaafaaaafaaaafaaaafaaaafaaaafaaaafaaaafaaaafaaaafaaaafaaaafaaaafaaaafaaaafaaaafaaaafaaaafaaaafaaaafaaaafaaaafaaaafaaaafaaaafaaaafaaaafaaaafaaaafaaaafaaaafaaaafaaaafaaaafaaaafaaaafaaaafaaaafaaaafaaaafaaaafaaaafaaaafaaaafaaaafaaaafaaaafaaaafaaaafaaaafaaaafaaaafaaaafaaaafaaaafaaaafaaaafaaaafaaaafaaaafaaaafaaaafaaaafaaaafaaaafaaaafaaaafaaaafaaaafaaaafaaaafaaaafaaaafaaaafaaaafaaaafaaaafaaaafaaaafaaaafaaaafaaaafaaaafaaaafaaaafaaaafaaaafaaaafaaaafaaaafaaaafaaaafaaaafaaaafaaaafaaaafaaaafaaaafaaaafaaaafaaaafaaaafaaaafaaaafaaaafaaaafaaaafaaaafaaaafaaaafaaaafaaaafaaaafaaaafaaaafaaaafaaaafaaaafaaaafaaaafaaaafaaaafaaaafaaaafaaaafaaaafaaaafaaaafaaaafaaaafaaaafaaaafaaaafaaaafaaaafaaaafaaaafaaaafaaaafaaaafaaaafaaaafaaaafaaaafaaaafaaaafaaaafaaaafaaaafaaaafaaaafaaaafaaaafaaaafaaaafaaaafaaaafaaaafaaaafaaaafaaaafaaaafaaaafaaaafaaaafaaaafaaaafaaaafaaaafaaaafaaaafaaaafaaaafaaaafaaaafaaaafaaaafaaaafaaaafaaaafaaaafaaaafaaaafaaaafaaaafaaaafaaaafaaaafaaaafaaaafaaaafaaaafaaaafaaaafaaaafaaaafaaaafaaaafaaaafaaaafaaaafaaaafaaaafaaaafaaaafaaaafaaaafaaaafaaaafaaaafaaaafaaaafaaaafaaaafaaaafaaaafaaaafaaaafaaaafaaaafaaaafaaaafaaaafaaaafaaaafaaaafaaaafaaaafaaaafaaaafaaaafaaaafaaaafaaaafaaaafaaaafaaaafaaaafaaaafaaaafaaaafaaaafaaaafaaaafaaaafaaaafaaaafaaaafaaaafaaaafaaaafaaaafaaaafaaaafaaaafaaaafaaaafaaaafaaaafaaaafaaaafaaaafaaaafaaaafaaaafaaaafaaaafaaaafaaaafaaaafaaaafaaaafaaaafaaaafaaaafaaaafaaaafaaaafaaaafaaaafaaaafaaaafaaaafaaaafaaaafaaaafaaaafaaaafaaaafaaaafaaaafaaaafaaaafaaaafaaaafaaaafaaaafaaaafaaaafaaaafaaaafaaaafaaaafaaaafaaaafaaaafaaaafaaaafaaaafaaaafaaaafaaaafaaaafaaaafaaaafaaaafaaaafaaaafaaaafaaaafaaaafaaaafaaaafaaaafaaaafaaaafaaaafaaaafaaaafaaaafaaaafaaaafaaaafaaaafaaaafaaaafaaaafaaaafaaaafaaaafaaaafaaaafaaaafaaaafaaaafaaaafaaaafaaaafaaaafaaaafaaaafaaaafaaaafaaaafaaaafaaaafaaaafaaaafaaaafaaaafaaaafaaaafaaaafaaaafaaaafaaaafaaaafaaaafaaaafaaaafaaaafaaaafaaaafaaaafaaaafaaaafaaaafaaaafaaaafaaaafaaaafaaaafaaaafaaaafaaaafaaaafaaaafaaaafaaaafaaaafaaaafaaaafaaaafaaaafaaaafaaaafaaaafaaaafaaaafaaaafaaaafaaaafaaaafaaaafaaaafaaaafaaaafaaaafaaaafaaaafaaaafaaaafaaaafaaaafaaaafaaaafaaaafaaaafaaaafaaaafaaaafaaaafaaaafaaaafaaaafaaaafaaaafaaaafaaaafaaaafaaaafaaaafaaaafaaaafaaaafaaaafaaaafaaaafaaaafaaaafaaaafaaaafaaaafaaaafaaaafaaaafaaaafaaaafaaaafaaaafaaaafaaaafaaaafaaaafaaaafaaaafaaaafaaaafaaaafaaaafaaaafaaaafaaaafaaaafaaaafaaaafaaaafaaaafaaaafaaaafaaaafaaaafaaaafaaaafaaaafaaaafaaaafaaaafaaaafaaaafaaaafaaaafaaaafaaaafaaaafaaaafaaaafaaaafaaaafaaaafaaaafaaaafaaaafaaaafaaaafaaaafaaaafaaaafaaaafaaaafaaaafaaaafaaaafaaaafaaaafaaaafaaaafaaaafaaaafaaaafaaaafaaaafaaaafaaaafaaaafaaaafaaaafaaaafaaaafaaaafaaaafaaaafaaaafaaaafaaaafaaaafaaaafaaaafaaaafaaaafaaaafaaaafaaaafaaaafaaaafaaaafaaaafaaaafaaaafaaaafaaaafaaaafaaaafaaaafaaaafaaaafaaaafaaaafaaaafaaaafaaaafaaaafaaaafaaaafaaaafaaaafaaaafaaaafaaaafaaaafaaaafaaaafaaaafaaaafaaaafaaaafaaaafaaaafaaaafaaaafaaaafaaaafaaaafaaaafaaaafaaaafaaaafaaaafaaaafaaaafaaaafaaaafaaaafaaaafaaaafaaaafaaaafaaaafaaaafaaaafaaaafaaaafaaaafaaaafaaaafaaaafaaaafaaaafaaaafaaaafaaaafaaaafaaaafaaaafaaaafaaaafaaaafaaaafaaaafaaaafaaaafaaaafaaaafaaaafaaaafaaaafaaaafaaaafaaaafaaaafaaaafaaaafaaaafaaaafaaaafaaaafaaaafaaaafaaaafaaaafaaaafaaaafaaaafaaaafaaaafaaaafaaaafaaaafaaaafaaaafaaaafaaaafaaaafaaaafaaaafaaaafaaaafaaaafaaaafaaaafaaaafaaaafaaaafaaaafaaaafaaaafaaaafaaaafaaaafaaaafaaaafaaaafaaaafaaaafaaaafaaaafaaaafaaaafaaaafaaaafaaaafaaaafaaaafaaaafaaaafaaaafaaaafaaaafaaaafaaaafaaaafaaaafaaaafaaaafaaaafaaaafaaaafaaaafaaaafaaaafaaaafaaaafaaaafaaaafaaaafaaaafaaaafaaaafaaaafaaaafaaaafaaaafaaaafaaaafaaaafaaaafaaaafaaaafaaaafaaaafaaaafaaaafaaaafaaaafaaaafaaaafaaaafaaaafaaaafaaaafaaaafaaaafaaaafaaaafaaaafaaaafaaaafaaaafaaaafaaaafaaaafaaaafaaaafaaaafaaaafaaaafaaaafaaaafaaaafaaaafaaaafaaaafaaaafaaaafaaaafaaaafaaaafaaaafaaaafaaaafaaaafaaaafaaaafaaaafaaaafaaaafaaaafaaaafaaaafaaaafaaaafaaaafaaaafaaaafaaaafaaaafaaaafaaaafaaaafaaaafaaaafaaaafaaaafaaaafaaaafaaaafaaaafaaaafaaaafaaaafaaaafaaaafaaaafaaaafaaaafaaaafaaaafaaaafaaaafaaaafaaaafaaaafaaaafaaaafaaaafaaaafaaaafaaaafaaaafaaaafaaaafaaaafaaaafaaaafaaaafaaaafaaaafaaaafaaaafaaaafaaaafaaaafaaaafaaaafaaaafaaaafaaaafaaaafaaaafaaaafaaaafaaaafaaaafaaaafaaaafaaaafaaaafaaaafaaaafaaaafaaaafaaaafaaaafaaaafaaaafaaaafaaaafaaaafaaaafaaaafaaaafaaaafaaaafaaaafaaaafaaaafaaaafaaaafaaaafaaaafaaaafaaaafaaaafaaaafaaaafaaaafaaaafaaaafaaaafaaaafaaaafaaaafaaaafaaaafaaaafaaaafaaaafaaaafaaaafaaaafaaaafaaaafaaaafaaaafaaaafaaaafaaaafaaaafaaaafaaaafaaaafaaaafaaaafaaaafaaaafaaaafaaaafaaaafaaaafaaaafaaaafaaaafaaaafaaaafaaaafaaaafaaaafaaaafaaaafaaaafaaaafaaaafaaaafaaaafaaaafaaaafaaaafaaaafaaaafaaaafaaaafaaaafaaaafaaaafaaaafaaaafaaaafaaaafaaaafaaaafaaaafaaaafaaaafaaaafaaaafaaaafaaaafaaaafaaaafaaaafaaaafaaaafaaaafaaaafaaaafaaaafaaaafaaaafaaaafaaaafaaaafaaaafaaaafaaaafaaaafaaaafaaaafaaaafaaaafaaaafaaaafaaaafaaaafaaaafaaaafaaaafaaaafaaaafaaaafaaaafaaaafaaaafaaaafaaaafaaaafaaaafaaaafaaaafaaaafaaaafaaaafaaaafaaaafaaaafaaaafaaaafaaaafaaaafaaaafaaaafaaaafaaaafaaaafaaaafaaaafaaaafaaaafaaaafaaaafaaaafaaaafaaaafaaaafaaaafaaaafaaaafaaaafaaaafaaaafaaaafaaaafaaaafaaaafaaaafaaaafaaaafaaaafaaaafaaaafaaaafaaaafaaaafaaaafaaaafaaaafaaaafaaaafaaaafaaaafaaaafaaaafaaaafaaaafaaaafaaaafaaaafaaaafaaaafaaaafaaaafaaaafaaaafaaaafaaaafaaaafaaaafaaaafaaaafaaaafaaaafaaaafaaaafaaaafaaaafaaaafaaaafaaaafaaaafaaaafaaaafaaaafaaaafaaaafaaaafaaaafaaaafaaaafaaaafaaaafaaaafaaaafaaaafaaaafaaaafaaaafaaaafaaaafaaaafaaaafaaaafaaaafaaaafaaaafaaaafaaaafaaaafaaaafaaaafaaaafaaaafaaaafaaaafaaaafaaaafaaaafaaaafaaaafaaaafaaaafaaaafaaaafaaaafaaaafaaaafaaaafaaaafaaaafaaaafaaaafaaaafaaaafaaaafaaaafaaaafaaaafaaaafaaaafaaaafaaaafaaaafaaaafaaaafaaaafaaaafaaaafaaaafaaaafaaaafaaaafaaaafaaaafaaaafaaaafaaaafaaaafaaaafaaaafaaaafaaaafaaaafaaaafaaaafaaaafaaaafaaaafaaaafaaaafaaaafaaaafaaaafaaaafaaaafaaaafaaaafaaaafaaaafaaaafaaaafaaaafaaaafaaaafaaaafaaaafaaaafaaaafaaaafaaaafaaaafaaaafaaaafaaaafaaaafaaaafaaaafaaaafaaaafaaaafaaaafaaaafaaaafaaaafaaaafaaaafaaaafaaaafaaaafaaaafaaaafaaaafaaaafaaaafaaaafaaaafaaaafaaaafaaaafaaaafaaaafaaaafaaaafaaaafaaaafaaaafaaaafaaaafaaaafaaaafaaaafaaaafaaaafaaaafaaaafaaaafaaaafaaaafaaaafaaaafaaaafaaaafaaaafaaaafaaaafaaaafaaaafaaaafaaaafaaaafaaaafaaaafaaaafaaaafaaaafaaaafaaaafaaaafaaaafaaaafaaaafaaaafaaaafaaaafaaaafaaaafaaaafaaaafaaaafaaaafaaaafaaaafaaaafaaaafaaaafaaaafaaaafaaaafaaaafaaaafaaaafaaaafaaaafaaaafaaaafaaaafaaaafaaaafaaaafaaaafaaaafaaaafaaaafaaaafaaaafaaaafaaaafaaaafaaaafaaaafaaaafaaaafaaaafaaaafaaaafaaaafaaaafaaaafaaaafaaaafaaaafaaaafaaaafaaaafaaaafaaaafaaaafaaaafaaaafaaaafaaaafaaaafaaaafaaaafaaaafaaaafaaaafaaaafaaaafaaaafaaaafaaaafaaaafaaaafaaaafaaaafaaaafaaaafaaaafaaaafaaaafaaaafaaaafaaaafaaaafaaaafaaaafaaaafaaaafaaaafaaaafaaaafaaaafaaaafaaaafaaaafaaaafaaaafaaaafaaaafaaaafaaaafaaaafaaaafaaaafaaaafaaaafaaaafaaaafaaaafaaaafaaaafaaaafaaaafaaaafaaaafaaaafaaaafaaaafaaaafaaaafaaaafaaaafaaaafaaaafaaaafaaaafaaaafaaaafaaaafaaaafaaaafaaaafaaaafaaaafaaaafaaaafaaaafaaaafaaaafaaaafaaaafaaaafaaaafaaaafaaaafaaaafaaaafaaaafaaaafaaaafaaaafaaaafaaaafaaaafaaaafaaaafaaaafaaaafaaaafaaaafaaaafaaaafaaaafaaaafaaaafaaaafaaaafaaaafaaaafaaaafaaaafaaaafaaaafaaaafaaaafaaaafaaaafaaaafaaaafaaaafaaaafaaaafaaaafaaaafaaaafaaaafaaaafaaaafaaaafaaaafaaaafaaaafaaaafaaaafaaaafaaaafaaaafaaaafaaaafaaaafaaaafaaaafaaaafaaaafaaaafaaaafaaaafaaaafaaaafaaaafaaaafaaaafaaaafaaaafaaaafaaaafaaaafaaaafaaaafaaaafaaaafaaaafaaaafaaaafaaaafaaaafaaaafaaaafaaaafaaaafaaaafaaaafaaaafaaaafaaaafaaaafaaaafaaaafaaaafaaaafaaaafaaaafaaaafaaaafaaaafaaaafaaaafaaaafaaaafaaaafaaaafaaaafaaaafaaaafaaaafaaaafaaaafaaaafaaaafaaaafaaaafaaaafaaaafaaaafaaaafaaaafaaaafaaaafaaaafaaaafaaaafaaaafaaaafaaaafaaaafaaaafaaaafaaaafaaaafaaaafaaaafaaaafaaaafaaaafaaaafaaaafaaaafaaaafaaaafaaaafaaaafaaaafaaaafaaaafaaaafaaaafaaaafaaaafaaaafaaaafaaaafaaaafaaaafaaaafaaaafaaaafaaaafaaaafaaaafaaaafaaaafaaaafaaaafaaaafaaaafaaaafaaaafaaaafaaaafaaaafaaaafaaaafaaaafaaaafaaaafaaaafaaaafaaaafaaaafaaaafaaaafaaaafaaaafaaaafaaaafaaaafaaaafaaaafaaaafaaaafaaaafaaaafaaaafaaaafaaaafaaaafaaaafaaaafaaaafaaaafaaaafaaaafaaaafaaaafaaaafaaaafaaaafaaaafaaaafaaaafaaaafaaaafaaaafaaaafaaaafaaaafaaaafaaaafaaaafaaaafaaaafaaaafaaaafaaaafaaaafaaaafaaaafaaaafaaaafaaaafaaaafaaaafaaaafaaaafaaaafaaaafaaaafaaaafaaaafaaaafaaaafaaaafaaaafaaaafaaaafaaaafaaaafaaaafaaaafaaaafaaaafaaaafaaaafaaaafaaaafaaaafaaaafaaaafaaaafaaaafaaaafaaaafaaaafaaaafaaaafaaaafaaaafaaaafaaaafaaaafaaaafaaaafaaaafaaaafaaaafaaaafaaaafaaaafaaaafaaaafaaaafaaaafaaaafaaaafaaaafaaaafaaaafaaaafaaaafaaaafaaaafaaaafaaaafaaaafaaaafaaaafaaaafaaaafaaaafaaaafaaaafaaaafaaaafaaaafaaaafaaaafaaaafaaaafaaaafaaaafaaaafaaaafaaaafaaaafaaaafaaaafaaaafaaaafaaaafaaaafaaaafaaaafaaaafaaaafaaaafaaaafaaaafaaaafaaaafaaaafaaaafaaaafaaaafaaaafaaaafaaaafaaaafaaaafaaaafaaaafaaaafaaaafaaaafaaaafaaaafaaaafaaaafaaaafaaaafaaaafaaaafaaaafaaaafaaaafaaaafaaaafaaaafaaaafaaaafaaaafaaaafaaaafaaaafaaaafaaaafaaaafaaaafaaaafaaaafaaaafaaaafaaaafaaaafaaaafaaaafaaaafaaaafaaaafaaaafaaaafaaaafaaaafaaaafaaaafaaaafaaaafaaaafaaaafaaaafaaaafaaaafaaaafaaaafaaaafaaaafaaaafaaaafaaaafaaaafaaaafaaaafaaaafaaaafaaaafaaaafaaaafaaaafaaaafaaaafaaaafaaaafaaaafaaaafaaaafaaaafaaaafaaaafaaaafaaaafaaaafaaaafaaaafaaaafaaaafaaaafaaaafaaaafaaaafaaaafaaaafaaaafaaaafaaaafaaaafaaaafaaaafaaaafaaaafaaaafaaaafaaaafaaaafaaaafaaaafaaaafaaaafaaaafaaaafaaaafaaaafaaaafaaaafaaaafaaaafaaaafaaaafaaaafaaaafaaaafaaaafaaaafaaaafaaaafaaaafaaaafaaaafaaaafaaaafaaaafaaaafaaaafaaaafaaaafaaaafaaaafaaaafaaaafaaaafaaaafaaaafaaaafaaaafaaaafaaaafaaaafaaaafaaaafaaaafaaaafaaaafaaaafaaaafaaaafaaaafaaaafaaaafaaaafaaaafaaaafaaaafaaaafaaaafaaaafaaaafaaaafaaaafaaaafaaaafaaaafaaaafaaaafaaaafaaaafaaaafaaaafaaaafaaaafaaaafaaaafaaaafaaaafaaaafaaaafaaaafaaaafaaaafaaaafaaaafaaaafaaaafaaaafaaaafaaaafaaaafaaaafaaaafaaaafaaaafaaaafaaaafaaaafaaaafaaaafaaaafaaaafaaaafaaaafaaaafaaaafaaaafaaaafaaaafaaaafaaaafaaaafaaaafaaaafaaaafaaaafaaaafaaaafaaaafaaaafaaaafaaaafaaaafaaaafaaaafaaaafaaaafaaaafaaaafaaaafaaaafaaaafaaaafaaaafaaaafaaaafaaaafaaaafaaaafaaaafaaaafaaaafaaaafaaaafaaaafaaaafaaaafaaaafaaaafaaaafaaaafaaaafaaaafaaaafaaaafaaaafaaaafaaaafaaaafaaaafaaaafaaaafaaaafaaaafaaaafaaaafaaaafaaaafaaaafaaaafaaaafaaaafaaaafaaaafaaaafaaaafaaaafaaaafaaaafaaaafaaaafaaaafaaaafaaaafaaaafaaaafaaaafaaaafaaaafaaaafaaaafaaaafaaaafaaaafaaaafaaaafaaaafaaaafaaaafaaaafaaaafaaaafaaaafaaaafaaaafaaaafaaaafaaaafaaaafaaaafaaaafaaaafaaaafaaaafaaaafaaaafaaaafaaaafaaaafaaaafaaaafaaaafaaaafaaaafaaaafaaaafaaaafaaaafaaaafaaaafaaaafaaaafaaaafaaaafaaaafaaaafaaaafaaaafaaaafaaaafaaaafaaaafaaaafaaaafaaaafaaaafaaaafaaaafaaaafaaaafaaaafaaaafaaaafaaaafaaaafaaaafaaaafaaaafaaaafaaaafaaaafaaaafaaaafaaaafaaaafaaaafaaaafaaaafaaaafaaaafaaaafaaaafaaaafaaaafaaaafaaaafaaaafaaaafaaaafaaaafaaaafaaaafaaaafaaaafaaaafaaaafaaaafaaaafaaaafaaaafaaaafaaaafaaaafaaaafaaaafaaaafaaaafaaaafaaaafaaaafaaaafaaaafaaaafaaaafaaaafaaaafaaaafaaaafaaaafaaaafaaaafaaaafaaaafaaaafaaaafaaaafaaaafaaaafaaaafaaaafaaaafaaaafaaaafaaaafaaaafaaaafaaaafaaaafaaaafaaaafaaaafaaaafaaaafaaaafaaaafaaaafaaaafaaaafaaaafaaaafaaaafaaaafaaaafaaaafaaaafaaaafaaaafaaaafaaaafaaaafaaaafaaaafaaaafaaaafaaaafaaaafaaaafaaaafaaaafaaaafaaaafaaaafaaaafaaaafaaaafaaaafaaaafaaaafaaaafaaaafaaaafaaaafaaaafaaaafaaaafaaaafaaaafaaaafaaaafaaaafaaaafaaaafaaaafaaaafaaaafaaaafaaaafaaaafaaaafaaaafaaaafaaaafaaaafaaaafaaaafaaaafaaaafaaaafaaaafaaaafaaaafaaaafaaaafaaaafaaaafaaaafaaaafaaaafaaaafaaaafaaaafaaaafaaaafaaaafaaaafaaaafaaaafaaaafaaaafaaaafaaaafaaaafaaaafaaaafaaaafaaaafaaaafaaaafaaaafaaaafaaaafaaaafaaaafaaaafaaaafaaaafaaaafaaaafaaaafaaaafaaaafaaaafaaaafaaaafaaaafaaaafaaaafaaaafaaaafaaaafaaaafaaaafaaaafaaaafaaaafaaaafaaaafaaaafaaaafaaaafaaaafaaaafaaaafaaaafaaaafaaaafaaaafaaaafaaaafaaaafaaaafaaaafaaaafaaaafaaaafaaaafaaaafaaaafaaaafaaaafaaaafaaaafaaaafaaaafaaaafaaaafaaaafaaaafaaaafaaaafaaaafaaaafaaaafaaaafaaaafaaaafaaaafaaaafaaaafaaaafaaaafaaaafaaaafaaaafaaaafaaaafaaaafaaaafaaaafaaaafaaaafaaaafaaaafaaaafaaaafaaaafaaaafaaaafaaaafaaaafaaaafaaaafaaaafaaaafaaaafaaaafaaaafaaaafaaaafaaaafaaaafaaaafaaaafaaaafaaaafaaaafaaaafaaaafaaaafaaaafaaaafaaaafaaaafaaaafaaaafaaaafaaaafaaaafaaaafaaaafaaaafaaaafaaaafaaaafaaaafaaaafaaaafaaaafaaaafaaaafaaaafaaaafaaaafaaaafaaaafaaaafaaaafaaaafaaaafaaaafaaaafaaaafaaaafaaaafaaaafaaaafaaaafaaaafaaaafaaaafaaaafaaaafaaaafaaaafaaaafaaaafaaaafaaaafaaaafaaaafaaaafaaaafaaaafaaaafaaaafaaaafaaaafaaaafaaaafaaaafaaaafaaaafaaaafaaaafaaaafaaaafaaaafaaaafaaaafaaaafaaaafaaaafaaaafaaaafaaaafaaaafaaaafaaaafaaaafaaaafaaaafaaaafaaaafaaaafaaaafaaaafaaaafaaaafaaaafaaaafaaaafaaaafaaaafaaaafaaaafaaaafaaaafaaaafaaaafaaaafaaaafaaaafaaaafaaaafaaaafaaaafaaaafaaaafaaaafaaaafaaaafaaaafaaaafaaaafaaaafaaaafaaaafaaaafaaaafaaaafaaaafaaaafaaaafaaaafaaaafaaaafaaaafaaaafaaaafaaaafaaaafaaaafaaaafaaaafaaaafaaaafaaaafaaaafaaaafaaaafaaaafaaaafaaaafaaaafaaaafaaaafaaaafaaaafaaaafaaaafaaaafaaaafaaaafaaaafaaaafaaaafaaaafaaaafaaaafaaaafaaaafaaaafaaaafaaaafaaaafaaaafaaaafaaaafaaaafaaaafaaaafaaaafaaaafaaaafaaaafaaaafaaaafaaaafaaaafaaaafaaaafaaaafaaaafaaaafaaaafaaaafaaaafaaaafaaaafaaaafaaaafaaaafaaaafaaaafaaaafaaaafaaaafaaaafaaaafaaaafaaaafaaaafaaaafaaaafaaaafaaaafaaaafaaaafaaaafaaaafaaaafaaaafaaaafaaaafaaaafaaaafaaaafaaaafaaaafaaaafaaaafaaaafaaaafaaaafaaaafaaaafaaaafaaaafaaaafaaaafaaaafaaaafaaaafaaaafaaaafaaaafaaaafaaaafaaaafaaaafaaaafaaaafaaaafaaaafaaaafaaaafaaaafaaaafaaaafaaaafaaaafaaaafaaaafaaaafaaaafaaaafaaaafaaaafaaaafaaaafaaaafaaaafaaaafaaaafaaaafaaaafaaaafaaaafaaaafaaaafaaaafaaaafaaaafaaaafaaaafaaaafaaaafaaaafaaaafaaaafaaaafaaaafaaaafaaaafaaaafaaaafaaaafaaaafaaaafaaaafaaaafaaaafaaaafaaaafaaaafaaaafaaaafaaaafaaaafaaaafaaaafaaaafaaaafaaaafaaaafaaaafaaaafaaaafaaaafaaaafaaaafaaaafaaaafaaaafaaaafaaaafaaaafaaaafaaaafaaaafaaaafaaaafaaaafaaaafaaaafaaaafaaaafaaaafaaaafaaaafaaaafaaaafaaaafaaaafaaaafaaaafaaaafaaaafaaaafaaaafaaaafaaaafaaaafaaaafaaaafaaaafaaaafaaaafaaaafaaaafaaaafaaaafaaaafaaaafaaaafaaaafaaaafaaaafaaaafaaaafaaaafaaaafaaaafaaaafaaaafaaaafaaaafaaaafaaaafaaaafaaaafaaaafaaaafaaaafaaaafaaaafaaaafaaaafaaaafaaaafaaaafaaaafaaaafaaaafaaaafaaaafaaaafaaaafaaaafaaaafaaaafaaaafaaaafaaaafaaaafaaaafaaaafaaaafaaaafaaaafaaaafaaaafaaaafaaaafaaaafaaaafaaaafaaaafaaaafaaaafaaaafaaaafaaaafaaaafaaaafaaaafaaaafaaaafaaaafaaaafaaaafaaaafaaaafaaaafaaaafaaaafaaaafaaaafaaaafaaaafaaaafaaaafaaaafaaaafaaaafaaaafaaaafaaaafaaaafaaaafaaaafaaaafaaaafaaaafaaaafaaaafaaaafaaaafaaaafaaaafaaaafaaaafaaaafaaaafaaaafaaaafaaaafaaaafaaaafaaaafaaaafaaaafaaaafaaaafaaaafaaaafaaaafaaaafaaaafaaaafaaaafaaaafaaaafaaaafaaaafaaaafaaaafaaaafaaaafaaaafaaaafaaaafaaaafaaaafaaaafaaaafaaaafaaaafaaaafaaaafaaaafaaaafaaaafaaaafaaaafaaaafaaaafaaaafaaaafaaaafaaaafaaaafaaaafaaaafaaaafaaaafaaaafaaaafaaaafaaaafaaaafaaaafaaaafaaaafaaaafaaaafaaaafaaaafaaaafaaaafaaaafaaaafaaaafaaaafaaaafaaaafaaaafaaaafaaaafaaaafaaaafaaaafaaaafaaaafaaaafaaaafaaaafaaaafaaaafaaaafaaaafaaaafaaaafaaaafaaaafaaaafaaaafaaaafaaaafaaaafaaaafaaaafaaaafaaaafaaaafaaaafaaaafaaaafaaaafaaaafaaaafaaaafaaaafaaaafaaaafaaaafaaaafaaaafaaaafaaaafaaaafaaaafaaaafaaaafaaaafaaaafaaaafaaaafaaaafaaaafaaaafaaaafaaaafaaaafaaaafaaaafaaaafaaaafaaaafaaaafaaaafaaaafaaaafaaaafaaaafaaaafaaaafaaaafaaaafaaaafaaaafaaaafaaaafaaaafaaaafaaaafaaaafaaaafaaaafaaaafaaaafaaaafaaaafaaaafaaaafaaaafaaaafaaaafaaaafaaaafaaaafaaaafaaaafaaaafaaaafaaaafaaaafaaaafaaaafaaaafaaaafaaaafaaaafaaaafaaaafaaaafaaaafaaaafaaaafaaaafaaaafaaaafaaaafaaaafaaaafaaaafaaaafaaaafaaaafaaaafaaaafaaaafaaaafaaaafaaaafaaaafaaaafaaaafaaaafaaaafaaaafaaaafaaaafaaaafaaaafaaaafaaaafaaaafaaaafaaaafaaaafaaaafaaaafaaaafaaaafaaaafaaaafaaaafaaaafaaaafaaaafaaaafaaaafaaaafaaaafaaaafaaaafaaaafaaaafaaaafaaaafaaaafaaaafaaaafaaaafaaaafaaaafaaaafaaaafaaaafaaaafaaaafaaaafaaaafaaaafaaaafaaaafaaaafaaaafaaaafaaaafaaaafaaaafaaaafaaaafaaaafaaaafaaaafaaaafaaaafaaaafaaaafaaaafaaaafaaaafaaaafaaaafaaaafaaaafaaaafaaaafaaaafaaaafaaaafaaaafaaaafaaaafaaaafaaaafaaaafaaaafaaaafaaaafaaaafaaaafaaaafaaaafaaaafaaaafaaaafaaaafaaaafaaaafaaaafaaaafaaaafaaaafaaaafaaaafaaaafaaaafaaaafaaaafaaaafaaaafaaaafaaaafaaaafaaaafaaaafaaaafaaaafaaaafaaaafaaaafaaaafaaaafaaaafaaaafaaaafaaaafaaaafaaaafaaaafaaaafaaaafaaaafaaaafaaaafaaaafaaaafaaaafaaaafaaaafaaaafaaaafaaaafaaaafaaaafaaaafaaaafaaaafaaaafaaaafaaaafaaaafaaaafaaaafaaaafaaaafaaaafaaaafaaaafaaaafaaaafaaaafaaaafaaaafaaaafaaaafaaaafaaaafaaaafaaaafaaaafaaaafaaaafaaaafaaaafaaaafaaaafaaaafaaaafaaaafaaaafaaaafaaaafaaaafaaaafaaaafaaaafaaaafaaaafaaaafaaaafaaaafaaaafaaaafaaaafaaaafaaaafaaaafaaaafaaaafaaaafaaaafaaaafaaaafaaaafaaaafaaaafaaaafaaaafaaaafaaaafaaaafaaaafaaaafaaaafaaaafaaaafaaaafaaaafaaaafaaaafaaaafaaaafaaaafaaaafaaaafaaaafaaaafaaaafaaaafaaaafaaaafaaaafaaaafaaaafaaaafaaaafaaaafaaaafaaaafaaaafaaaafaaaafaaaafaaaafaaaafaaaafaaaafaaaafaaaafaaaafaaaafaaaafaaaafaaaafaaaafaaaafaaaafaaaafaaaafaaaafaaaafaaaafaaaafaaaafaaaafaaaafaaaafaaaafaaaafaaaafaaaafaaaafaaaafaaaafaaaafaaaafaaaafaaaafaaaafaaaafaaaafaaaafaaaafaaaafaaaafaaaafaaaafaaaafaaaafaaaafaaaafaaaafaaaafaaaafaaaafaaaafaaaafaaaafaaaafaaaafaaaafaaaafaaaafaaaafaaaafaaaafaaaafaaaafaaaafaaaafaaaafaaaafaaaafaaaafaaaafaaaafaaaafaaaafaaaafaaaafaaaafaaaafaaaafaaaafaaaafaaaafaaaafaaaafaaaafaaaafaaaafaaaafaaaafaaaafaaaafaaaafaaaafaaaafaaaafaaaafaaaafaaaafaaaafaaaafaaaafaaaafaaaafaaaafaaaafaaaafaaaafaaaafaaaafaaaafaaaafaaaafaaaafaaaafaaaafaaaafaaaafaaaafaaaafaaaafaaaafaaaafaaaafaaaafaaaafaaaafaaaafaaaafaaaafaaaafaaaafaaaafaaaafaaaafaaaafaaaafaaaafaaaafaaaafaaaafaaaafaaaafaaaafaaaafaaaafaaaafaaaafaaaafaaaafaaaafaaaafaaaafaaaafaaaafaaaafaaaafaaaafaaaafaaaafaaaafaaaafaaaafaaaafaaaafaaaafaaaafaaaafaaaafaaaafaaaafaaaafaaaafaaaafaaaafaaaafaaaafaaaafaaaafaaaafaaaafaaaafaaaafaaaafaaaafaaaafaaaafaaaafaaaafaaaafaaaafaaaafaaaafaaaafaaaafaaaafaaaafaaaafaaaafaaaafaaaafaaaafaaaafaaaafaaaafaaaafaaaafaaaafaaaafaaaafaaaafaaaafaaaafaaaafaaaafaaaafaaaafaaaafaaaafaaaafaaaafaaaafaaaafaaaafaaaafaaaafaaaafaaaafaaaafaaaafaaaafaaaafaaaafaaaafaaaafaaaafaaaafaaaafaaaafaaaafaaaafaaaafaaaafaaaafaaaafaaaafaaaafaaaafaaaafaaaafaaaafaaaafaaaafaaaafaaaafaaaafaaaafaaaafaaaafaaaafaaaafaaaafaaaafaaaafaaaafaaaafaaaafaaaafaaaafaaaafaaaafaaaafaaaafaaaafaaaafaaaafaaaafaaaafaaaafaaaafaaaafaaaafaaaafaaaafaaaafaaaafaaaafaaaafaaaafaaaafaaaafaaaafaaaafaaaafaaaafaaaafaaaafaaaafaaaafaaaafaaaafaaaafaaaafaaaafaaaafaaaafaaaafaaaafaaaafaaaafaaaafaaaafaaaafaaaafaaaafaaaafaaaafaaaafaaaafaaaafaaaafaaaafaaaafaaaafaaaafaaaafaaaafaaaafaaaafaaaafaaaafaaaafaaaafaaaafaaaafaaaafaaaafaaaafaaaafaaaafaaaafaaaafaaaafaaaafaaaafaaaafaaaafaaaafaaaafaaaafaaaafaaaafaaaafaaaafaaaafaaaafaaaafaaaafaaaafaaaafaaaafaaaafaaaafaaaafaaaafaaaafaaaafaaaafaaaafaaaafaaaafaaaafaaaafaaaafaaaafaaaafaaaafaaaafaaaafaaaafaaaafaaaafaaaafaaaafaaaafaaaafaaaafaaaafaaaafaaaafaaaafaaaafaaaafaaaafaaaafaaaafaaaafaaaafaaaafaaaafaaaafaaaafaaaafaaaafaaaafaaaafaaaafaaaafaaaafaaaafaaaafaaaafaaaafaaaafaaaafaaaafaaaafaaaafaaaafaaaafaaaafaaaafaaaafaaaafaaaafaaaafaaaafaaaafaaaafaaaafaaaafaaaafaaaafaaaafaaaafaaaafaaaafaaaafaaaafaaaafaaaafaaaafaaaafaaaafaaaafaaaafaaaafaaaafaaaafaaaafaaaafaaaafaaaafaaaafaaaafaaaafaaaafaaaafaaaafaaaafaaaafaaaafaaaafaaaafaaaafaaaafaaaafaaaafaaaafaaaafaaaafaaaafaaaafaaaafaaaafaaaafaaaafaaaafaaaafaaaafaaaafaaaafaaaafaaaafaaaafaaaafaaaafaaaafaaaafaaaafaaaafaaaafaaaafaaaafaaaafaaaafaaaafaaaafaaaafaaaafaaaafaaaafaaaafaaaafaaaafaaaafaaaafaaaafaaaafaaaafaaaafaaaafaaaafaaaafaaaafaaaafaaaafaaaafaaaafaaaafaaaafaaaafaaaafaaaafaaaafaaaafaaaafaaaafaaaafaaaafaaaafaaaafaaaafaaaafaaaafaaaafaaaafaaaafaaaafaaaafaaaafaaaafaaaafaaaafaaaafaaaafaaaafaaaafaaaafaaaafaaaafaaaafaaaafaaaafaaaafaaaafaaaafaaaafaaaafaaaafaaaafaaaafaaaafaaaafaaaafaaaafaaaafaaaafaaaafaaaafaaaafaaaafaaaafaaaafaaaafaaaafaaaafaaaafaaaafaaaafaaaafaaaafaaaafaaaafaaaafaaaafaaaafaaaafaaaafaaaafaaaafaaaafaaaafaaaafaaaafaaaafaaaafaaaafaaaafaaaafaaaafaaaafaaaafaaaafaaaafaaaafaaaafaaaafaaaafaaaafaaaafaaaafaaaafaaaafaaaafaaaafaaaafaaaafaaaafaaaafaaaafaaaafaaaafaaaafaaaafaaaafaaaafaaaafaaaafaaaafaaaafaaaafaaaafaaaafaaaafaaaafaaaafaaaafaaaafaaaafaaaafaaaafaaaafaaaafaaaafaaaafaaaafaaaafaaaafaaaafaaaafaaaafaaaafaaaafaaaafaaaafaaaafaaaafaaaafaaaafaaaafaaaafaaaafaaaafaaaafaaaafaaaafaaaafaaaafaaaafaaaafaaaafaaaafaaaafaaaafaaaafaaaafaaaafaaaafaaaafaaaafaaaafaaaafaaaafaaaafaaaafaaaafaaaafaaaafaaaafaaaafaaaafaaaafaaaafaaaafaaaafaaaafaaaafaaaafaaaafaaaafaaaafaaaafaaaafaaaafaaaafaaaafaaaafaaaafaaaafaaaafaaaafaaaafaaaafaaaafaaaafaaaafaaaafaaaafaaaafaaaafaaaafaaaafaaaafaaaafaaaafaaaafaaaafaaaafaaaafaaaafaaaafaaaafaaaafaaaafaaaafaaaafaaaafaaaafaaaafaaaafaaaafaaaafaaaafaaaafaaaafaaaafaaaafaaaafaaaafaaaafaaaafaaaafaaaafaaaafaaaafaaaafaaaafaaaafaaaafaaaafaaaafaaaafaaaafaaaafaaaafaaaafaaaafaaaafaaaafaaaafaaaafaaaafaaaafaaaafaaaafaaaafaaaafaaaafaaaafaaaafaaaafaaaafaaaafaaaafaaaafaaaafaaaafaaaafaaaafaaaafaaaafaaaafaaaafaaaafaaaafaaaafaaaafaaaafaaaafaaaafaaaafaaaafaaaafaaaafaaaafaaaafaaaafaaaafaaaafaaaafaaaafaaaafaaaafaaaafaaaafaaaafaaaafaaaafaaaafaaaafaaaafaaaafaaaafaaaafaaaafaaaafaaaafaaaafaaaafaaaafaaaafaaaafaaaafaaaafaaaafaaaafaaaafaaaafaaaafaaaafaaaafaaaafaaaafaaaafaaaafaaaafaaaafaaaafaaaafaaaafaaaafaaaafaaaafaaaafaaaafaaaafaaaafaaaafaaaafaaaafaaaafaaaafaaaafaaaafaaaafaaaafaaaafaaaafaaaafaaaafaaaafaaaafaaaafaaaafaaaafaaaafaaaafaaaafaaaafaaaafaaaafaaaafaaaafaaaafaaaafaaaafaaaafaaaafaaaafaaaafaaaafaaaafaaaafaaaafaaaafaaaafaaaafaaaafaaaafaaaafaaaafaaaafaaaafaaaafaaaafaaaafaaaafaaaafaaaafaaaafaaaafaaaafaaaafaaaafaaaafaaaafaaaafaaaafaaaafaaaafaaaafaaaafaaaafaaaafaaaafaaaafaaaafaaaafaaaafaaaafaaaafaaaafaaaafaaaafaaaafaaaafaaaafaaaafaaaafaaaafaaaafaaaafaaaafaaaafaaaafaaaafaaaafaaaafaaaafaaaafaaaafaaaafaaaafaaaafaaaafaaaafaaaafaaaafaaaafaaaafaaaafaaaafaaaafaaaafaaaafaaaafaaaafaaaafaaaafaaaafaaaafaaaafaaaafaaaafaaaafaaaafaaaafaaaafaaaafaaaafaaaafaaaafaaaafaaaafaaaafaaaafaaaafaaaafaaaafaaaafaaaafaaaafaaaafaaaafaaaafaaaafaaaafaaaafaaaafaaaafaaaafaaaafaaaafaaaafaaaafaaaafaaaafaaaafaaaafaaaafaaaafaaaafaaaafaaaafaaaafaaaafaaaafaaaafaaaafaaaafaaaafaaaafaaaafaaaafaaaafaaaafaaaafaaaafaaaafaaaafaaaafaaaafaaaafaaaafaaaafaaaafaaaafaaaafaaaafaaaafaaaafaaaafaaaafaaaafaaaafaaaafaaaafaaaafaaaafaaaafaaaafaaaafaaaafaaaafaaaafaaaafaaaafaaaafaaaafaaaafaaaafaaaafaaaafaaaafaaaafaaaafaaaafaaaafaaaafaaaafaaaafaaaafaaaafaaaafaaaafaaaafaaaafaaaafaaaafaaaafaaaafaaaafaaaafaaaafaaaafaaaafaaaafaaaafaaaafaaaafaaaafaaaafaaaafaaaafaaaafaaaafaaaafaaaafaaaafaaaafaaaafaaaafaaaafaaaafaaaafaaaafaaaafaaaafaaaafaaaafaaaafaaaafaaaafaaaafaaaafaaaafaaaafaaaafaaaafaaaafaaaafaaaafaaaafaaaafaaaafaaaafaaaafaaaafaaaafaaaafaaaafaaaafaaaafaaaafaaaafaaaafaaaafaaaafaaaafaaaafaaaafaaaafaaaafaaaafaaaafaaaafaaaafaaaafaaaafaaaafaaaafaaaafaaaafaaaafaaaafaaaafaaaafaaaafaaaafaaaafaaaafaaaafaaaafaaaafaaaafaaaafaaaafaaaafaaaafaaaafaaaafaaaafaaaafaaaafaaaafaaaafaaaafaaaafaaaafaaaafaaaafaaaafaaaafaaaafaaaafaaaafaaaafaaaafaaaafaaaafaaaafaaaafaaaafaaaafaaaafaaaafaaaafaaaafaaaafaaaafaaaafaaaafaaaafaaaafaaaafaaaafaaaafaaaafaaaafaaaafaaaafaaaafaaaafaaaafaaaafaaaafaaaafaaaafaaaafaaaafaaaafaaaafaaaafaaaafaaaafaaaafaaaafaaaafaaaafaaaafaaaafaaaafaaaafaaaafaaaafaaaafaaaafaaaafaaaafaaaafaaaafaaaafaaaafaaaafaaaafaaaafaaaafaaaafaaaafaaaafaaaafaaaafaaaafaaaafaaaafaaaafaaaafaaaafaaaafaaaafaaaafaaaafaaaafaaaafaaaafaaaafaaaafaaaafaaaafaaaafaaaafaaaafaaaafaaaafaaaafaaaafaaaafaaaafaaaafaaaafaaaafaaaafaaaafaaaafaaaafaaaafaaaafaaaafaaaafaaaafaaaafaaaafaaaafaaaafaaaafaaaafaaaafaaaafaaaafaaaafaaaafaaaafaaaafaaaafaaaafaaaafaaaafaaaafaaaafaaaafaaaafaaaafaaaafaaaafaaaafaaaafaaaafaaaafaaaafaaaafaaaafaaaafaaaafaaaafaaaafaaaafaaaafaaaafaaaafaaaafaaaafaaaafaaaafaaaafaaaafaaaafaaaafaaaafaaaafaaaafaaaafaaaafaaaafaaaafaaaafaaaafaaaafaaaafaaaafaaaafaaaafaaaafaaaafaaaafaaaafaaaafaaaafaaaafaaaafaaaafaaaafaaaafaaaafaaaafaaaafaaaafaaaafaaaafaaaafaaaafaaaafaaaafaaaafaaaafaaaafaaaafaaaafaaaafaaaafaaaafaaaafaaaafaaaafaaaafaaaafaaaafaaaafaaaafaaaafaaaafaaaafaaaafaaaafaaaafaaaafaaaafaaaafaaaafaaaafaaaafaaaafaaaafaaaafaaaafaaaafaaaafaaaafaaaafaaaafaaaafaaaafaaaafaaaafaaaafaaaafaaaafaaaafaaaafaaaafaaaafaaaafaaaafaaaafaaaafaaaafaaaafaaaafaaaafaaaafaaaafaaaafaaaafaaaafaaaafaaaafaaaafaaaafaaaafaaaafaaaafaaaafaaaafaaaafaaaafaaaafaaaafaaaafaaaafaaaafaaaafaaaafaaaafaaaafaaaafaaaafaaaafaaaafaaaafaaaafaaaafaaaafaaaafaaaafaaaafaaaafaaaafaaaafaaaafaaaafaaaafaaaafaaaafaaaafaaaafaaaafaaaafaaaafaaaafaaaafaaaafaaaafaaaafaaaafaaaafaaaafaaaafaaaafaaaafaaaafaaaafaaaafaaaafaaaafaaaafaaaafaaaafaaaafaaaafaaaafaaaafaaaafaaaafaaaafaaaafaaaafaaaafaaaafaaaafaaaafaaaafaaaafaaaafaaaafaaaafaaaafaaaafaaaafaaaafaaaafaaaafaaaafaaaafaaaafaaaafaaaafaaaafaaaafaaaafaaaafaaaafaaaafaaaafaaaafaaaafaaaafaaaafaaaafaaaafaaaafaaaafaaaafaaaafaaaafaaaafaaaafaaaafaaaafaaaafaaaafaaaafaaaafaaaafaaaafaaaafaaaafaaaafaaaafaaaafaaaafaaaafaaaafaaaafaaaafaaaafaaaafaaaafaaaafaaaafaaaafaaaafaaaafaaaafaaaafaaaafaaaafaaaafaaaafaaaafaaaafaaaafaaaafaaaafaaaafaaaafaaaafaaaafaaaafaaaafaaaafaaaafaaaafaaaafaaaafaaaafaaaafaaaafaaaafaaaafaaaafaaaafaaaafaaaafaaaafaaaafaaaafaaaafaaaafaaaafaaaafaaaafaaaafaaaafaaaafaaaafaaaafaaaafaaaafaaaafaaaafaaaafaaaafaaaafaaaafaaaafaaaafaaaafaaaafaaaafaaaafaaaafaaaafaaaafaaaafaaaafaaaafaaaafaaaafaaaafaaaafaaaafaaaafaaaafaaaafaaaafaaaafaaaafaaaafaaaafaaaafaaaafaaaafaaaafaaaafaaaafaaaafaaaafaaaafaaaafaaaafaaaafaaaafaaaafaaaafaaaafaaaafaaaafaaaafaaaafaaaafaaaafaaaafaaaafaaaafaaaafaaaafaaaafaaaafaaaafaaaafaaaafaaaafaaaafaaaafaaaafaaaafaaaafaaaafaaaafaaaafaaaafaaaafaaaafaaaafaaaafaaaafaaaafaaaafaaaafaaaafaaaafaaaafaaaafaaaafaaaafaaaafaaaafaaaafaaaafaaaafaaaafaaaafaaaafaaaafaaaafaaaafaaaafaaaafaaaafaaaafaaaafaaaafaaaafaaaafaaaafaaaafaaaafaaaafaaaafaaaafaaaafaaaafaaaafaaaafaaaafaaaafaaaafaaaafaaaafaaaafaaaafaaaafaaaafaaaafaaaafaaaafaaaafaaaafaaaafaaaafaaaafaaaafaaaafaaaafaaaafaaaafaaaafaaaafaaaafaaaafaaaafaaaafaaaafaaaafaaaafaaaafaaaafaaaafaaaafaaaafaaaafaaaafaaaafaaaafaaaafaaaafaaaafaaaafaaaafaaaafaaaafaaaafaaaafaaaafaaaafaaaafaaaafaaaafaaaafaaaafaaaafaaaafaaaafaaaafaaaafaaaafaaaafaaaafaaaafaaaafaaaafaaaafaaaafaaaafaaaafaaaafaaaafaaaafaaaafaaaafaaaafaaaafaaaafaaaafaaaafaaaafaaaafaaaafaaaafaaaafaaaafaaaafaaaafaaaafaaaafaaaafaaaafaaaafaaaafaaaafaaaafaaaafaaaafaaaafaaaafaaaafaaaafaaaafaaaafaaaafaaaafaaaafaaaafaaaafaaaafaaaafaaaafaaaafaaaafaaaafaaaafaaaafaaaafaaaafaaaafaaaafaaaafaaaafaaaafaaaafaaaafaaaafaaaafaaaafaaaafaaaafaaaafaaaafaaaafaaaafaaaafaaaafaaaafaaaafaaaafaaaafaaaafaaaafaaaafaaaafaaaafaaaafaaaafaaaafaaaafaaaafaaaafaaaafaaaafaaaafaaaafaaaafaaaafaaaafaaaafaaaafaaaafaaaafaaaafaaaafaaaafaaaafaaaafaaaafaaaafaaaafaaaafaaaafaaaafaaaafaaaafaaaafaaaafaaaafaaaafaaaafaaaafaaaafaaaafaaaafaaaafaaaafaaaafaaaafaaaafaaaafaaaafaaaafaaaafaaaafaaaafaaaafaaaafaaaafaaaafaaaafaaaafaaaafaaaafaaaafaaaafaaaafaaaafaaaafaaaafaaaafaaaafaaaafaaaafaaaafaaaafaaaafaaaafaaaafaaaafaaaafaaaafaaaafaaaafaaaafaaaafaaaafaaaafaaaafaaaafaaaafaaaafaaaafaaaafaaaafaaaafaaaafaaaafaaaafaaaafaaaafaaaafaaaafaaaafaaaafaaaafaaaafaaaafaaaafaaaafaaaafaaaafaaaafaaaafaaaafaaaafaaaafaaaafaaaafaaaafaaaafaaaafaaaafaaaafaaaafaaaafaaaafaaaafaaaafaaaafaaaafaaaafaaaafaaaafaaaafaaaafaaaafaaaafaaaafaaaafaaaafaaaafaaaafaaaafaaaafaaaafaaaafaaaafaaaafaaaafaaaafaaaafaaaafaaaafaaaafaaaafaaaafaaaafaaaafaaaafaaaafaaaafaaaafaaaafaaaafaaaafaaaafaaaafaaaafaaaafaaaafaaaafaaaafaaaafaaaafaaaafaaaafaaaafaaaafaaaafaaaafaaaafaaaafaaaafaaaafaaaafaaaafaaaafaaaafaaaafaaaafaaaafaaaafaaaafaaaafaaaafaaaafaaaafaaaafaaaafaaaafaaaafaaaafaaaafaaaafaaaafaaaafaaaafaaaafaaaafaaaafaaaafaaaafaaaafaaaafaaaafaaaafaaaafaaaafaaaafaaaafaaaafaaaafaaaafaaaafaaaafaaaafaaaafaaaafaaaafaaaafaaaafaaaafaaaafaaaafaaaafaaaafaaaafaaaafaaaafaaaafaaaafaaaafaaaafaaaafaaaafaaaafaaaafaaaafaaaafaaaafaaaafaaaafaaaafaaaafaaaafaaaafaaaafaaaafaaaafaaaafaaaafaaaafaaaafaaaafaaaafaaaafaaaafaaaafaaaafaaaafaaaafaaaafaaaafaaaafaaaafaaaafaaaafaaaafaaaafaaaafaaaafaaaafaaaafaaaafaaaafaaaafaaaafaaaafaaaafaaaafaaaafaaaafaaaafaaaafaaaafaaaafaaaafaaaafaaaafaaaafaaaafaaaafaaaafaaaafaaaafaaaafaaaafaaaafaaaafaaaafaaaafaaaafaaaafaaaafaaaafaaaafaaaafaaaafaaaafaaaafaaaafaaaafaaaafaaaafaaaafaaaafaaaafaaaafaaaafaaaafaaaafaaaafaaaafaaaafaaaafaaaafaaaafaaaafaaaafaaaafaaaafaaaafaaaafaaaafaaaafaaaafaaaafaaaafaaaafaaaafaaaafaaaafaaaafaaaafaaaafaaaafaaaafaaaafaaaafaaaafaaaafaaaafaaaafaaaafaaaafaaaafaaaafaaaafaaaafaaaafaaaafaaaafaaaafaaaafaaaafaaaafaaaafaaaafaaaafaaaafaaaafaaaafaaaafaaaafaaaafaaaafaaaafaaaafaaaafaaaafaaaafaaaafaaaafaaaafaaaafaaaafaaaafaaaafaaaafaaaafaaaafaaaafaaaafaaaafaaaafaaaafaaaafaaaafaaaafaaaafaaaafaaaafaaaafaaaafaaaafaaaafaaaafaaaafaaaafaaaafaaaafaaaafaaaafaaaafaaaafaaaafaaaafaaaafaaaafaaaafaaaafaaaafaaaafaaaafaaaafaaaafaaaafaaaafaaaafaaaafaaaafaaaafaaaafaaaafaaaafaaaafaaaafaaaafaaaafaaaafaaaafaaaafaaaafaaaafaaaafaaaafaaaafaaaafaaaafaaaafaaaafaaaafaaaafaaaafaaaafaaaafaaaafaaaafaaaafaaaafaaaafaaaafaaaafaaaafaaaafaaaafaaaafaaaafaaaafaaaafaaaafaaaafaaaafaaaafaaaafaaaafaaaafaaaafaaaafaaaafaaaafaaaafaaaafaaaafaaaafaaaafaaaafaaaafaaaafaaaafaaaafaaaafaaaafaaaafaaaafaaaafaaaafaaaafaaaafaaaafaaaafaaaafaaaafaaaafaaaafaaaafaaaafaaaafaaaafaaaafaaaafaaaafaaaafaaaafaaaafaaaafaaaafaaaafaaaafaaaafaaaafaaaafaaaafaaaafaaaafaaaafaaaafaaaafaaaafaaaafaaaafaaaafaaaafaaaafaaaafaaaafaaaafaaaafaaaafaaaafaaaafaaaafaaaafaaaafaaaafaaaafaaaafaaaafaaaafaaaafaaaafaaaafaaaafaaaafaaaafaaaafaaaafaaaafaaaafaaaafaaaafaaaafaaaafaaaafaaaafaaaafaaaafaaaafaaaafaaaafaaaafaaaafaaaafaaaafaaaafaaaafaaaafaaaafaaaafaaaafaaaafaaaafaaaafaaaafaaaafaaaafaaaafaaaafaaaafaaaafaaaafaaaafaaaafaaaafaaaafaaaafaaaafaaaafaaaafaaaafaaaafaaaafaaaafaaaafaaaafaaaafaaaafaaaafaaaafaaaafaaaafaaaafaaaafaaaafaaaafaaaafaaaafaaaafaaaafaaaafaaaafaaaafaaaafaaaafaaaafaaaafaaaafaaaafaaaafaaaafaaaafaaaafaaaafaaaafaaaafaaaafaaaafaaaafaaaafaaaafaaaafaaaafaaaafaaaafaaaafaaaafaaaafaaaafaaaafaaaafaaaafaaaafaaaafaaaafaaaafaaaafaaaafaaaafaaaafaaaafaaaafaaaafaaaafaaaafaaaafaaaafaaaafaaaafaaaafaaaafaaaafaaaafaaaafaaaafaaaafaaaafaaaafaaaafaaaafaaaafaaaafaaaafaaaafaaaafaaaafaaaafaaaafaaaafaaaafaaaafaaaafaaaafaaaafaaaafaaaafaaaafaaaafaaaafaaaafaaaafaaaafaaaafaaaafaaaafaaaafaaaafaaaafaaaafaaaafaaaafaaaafaaaafaaaafaaaafaaaafaaaafaaaafaaaafaaaafaaaafaaaafaaaafaaaafaaaafaaaafaaaafaaaafaaaafaaaafaaaafaaaafaaaafaaaafaaaafaaaafaaaafaaaafaaaafaaaafaaaafaaaafaaaafaaaafaaaafaaaafaaaafaaaafaaaafaaaafaaaafaaaafaaaafaaaafaaaafaaaafaaaafaaaafaaaafaaaafaaaafaaaafaaaafaaaafaaaafaaaafaaaafaaaafaaaafaaaafaaaafaaaafaaaafaaaafaaaafaaaafaaaafaaaafaaaafaaaafaaaafaaaafaaaafaaaafaaaafaaaafaaaafaaaafaaaafaaaafaaaafaaaafaaaafaaaafaaaafaaaafaaaafaaaafaaaafaaaafaaaafaaaafaaaafaaaafaaaafaaaafaaaafaaaafaaaafaaaafaaaafaaaafaaaafaaaafaaaafaaaafaaaafaaaafaaaafaaaafaaaafaaaafaaaafaaaafaaaafaaaafaaaafaaaafaaaafaaaafaaaafaaaafaaaafaaaafaaaafaaaafaaaafaaaafaaaafaaaafaaaafaaaafaaaafaaaafaaaafaaaafaaaafaaaafaaaafaaaafaaaafaaaafaaaafaaaafaaaafaaaafaaaafaaaafaaaafaaaafaaaafaaaafaaaafaaaafaaaafaaaafaaaafaaaafaaaafaaaafaaaafaaaafaaaafaaaafaaaafaaaafaaaafaaaafaaaafaaaafaaaafaaaafaaaafaaaafaaaafaaaafaaaafaaaafaaaafaaaafaaaafaaaafaaaafaaaafaaaafaaaafaaaafaaaafaaaafaaaafaaaafaaaafaaaafaaaafaaaafaaaafaaaafaaaafaaaafaaaafaaaafaaaafaaaafaaaafaaaafaaaafaaaafaaaafaaaafaaaafaaaafaaaafaaaafaaaafaaaafaaaafaaaafaaaafaaaafaaaafaaaafaaaafaaaafaaaafaaaafaaaafaaaafaaaafaaaafaaaafaaaafaaaafaaaafaaaafaaaafaaaafaaaafaaaafaaaafaaaafaaaafaaaafaaaafaaaafaaaafaaaafaaaafaaaafaaaafaaaafaaaafaaaafaaaafaaaafaaaafaaaafaaaafaaaafaaaafaaaafaaaafaaaafaaaafaaaafaaaafaaaafaaaafaaaafaaaafaaaafaaaafaaaafaaaafaaaafaaaafaaaafaaaafaaaafaaaafaaaafaaaafaaaafaaaafaaaafaaaafaaaafaaaafaaaafaaaafaaaafaaaafaaaafaaaafaaaafaaaafaaaafaaaafaaaafaaaafaaaafaaaafaaaafaaaafaaaafaaaafaaaafaaaafaaaafaaaafaaaafaaaafaaaafaaaafaaaafaaaafaaaafaaaafaaaafaaaafaaaafaaaafaaaafaaaafaaaafaaaafaaaafaaaafaaaafaaaafaaaafaaaafaaaafaaaafaaaafaaaafaaaafaaaafaaaafaaaafaaaafaaaafaaaafaaaafaaaafaaaafaaaafaaaafaaaafaaaafaaaafaaaafaaaafaaaafaaaafaaaafaaaafaaaafaaaafaaaafaaaafaaaafaaaafaaaafaaaafaaaafaaaafaaaafaaaafaaaafaaaafaaaafaaaafaaaafaaaafaaaafaaaafaaaafaaaafaaaafaaaafaaaafaaaafaaaafaaaafaaaafaaaafaaaafaaaafaaaafaaaafaaaafaaaafaaaafaaaafaaaafaaaafaaaafaaaafaaaafaaaafaaaafaaaafaaaafaaaafaaaafaaaafaaaafaaaafaaaafaaaafaaaafaaaafaaaafaaaafaaaafaaaafaaaafaaaafaaaafaaaafaaaafaaaafaaaafaaaafaaaafaaaafaaaafaaaafaaaafaaaafaaaafaaaafaaaafaaaafaaaafaaaafaaaafaaaafaaaafaaaafaaaafaaaafaaaafaaaafaaaafaaaafaaaafaaaafaaaafaaaafaaaafaaaafaaaafaaaafaaaafaaaafaaaafaaaafaaaafaaaafaaaafaaaafaaaafaaaafaaaafaaaafaaaafaaaafaaaafaaaafaaaafaaaafaaaafaaaafaaaafaaaafaaaafaaaafaaaafaaaafaaaafaaaafaaaafaaaafaaaafaaaafaaaafaaaafaaaafaaaafaaaafaaaafaaaafaaaafaaaafaaaafaaaafaaaafaaaafaaaafaaaafaaaafaaaafaaaafaaaafaaaafaaaafaaaafaaaafaaaafaaaafaaaafaaaafaaaafaaaafaaaafaaaafaaaafaaaafaaaafaaaafaaaafaaaafaaaafaaaafaaaafaaaafaaaafaaaafaaaafaaaafaaaafaaaafaaaafaaaafaaaafaaaafaaaafaaaafaaaafaaaafaaaafaaaafaaaafaaaafaaaafaaaafaaaafaaaafaaaafaaaafaaaafaaaafaaaafaaaafaaaafaaaafaaaafaaaafaaaafaaaafaaaafaaaafaaaafaaaafaaaafaaaafaaaafaaaafaaaafaaaafaaaafaaaafaaaafaaaafaaaafaaaafaaaafaaaafaaaafaaaafaaaafaaaafaaaafaaaafaaaafaaaafaaaafaaaafaaaafaaaafaaaafaaaafaaaafaaaafaaaafaaaafaaaafaaaafaaaafaaaafaaaafaaaafaaaafaaaafaaaafaaaafaaaafaaaafaaaafaaaafaaaafaaaafaaaafaaaafaaaafaaaafaaaafaaaafaaaafaaaafaaaafaaaafaaaafaaaafaaaafaaaafaaaafaaaafaaaafaaaafaaaafaaaafaaaafaaaafaaaafaaaafaaaafaaaafaaaafaaaafaaaafaaaafaaaafaaaafaaaafaaaafaaaafaaaafaaaafaaaafaaaafaaaafaaaafaaaafaaaafaaaafaaaafaaaafaaaafaaaafaaaafaaaafaaaafaaaafaaaafaaaafaaaafaaaafaaaafaaaafaaaafaaaafaaaafaaaafaaaafaaaafaaaafaaaafaaaafaaaafaaaafaaaafaaaafaaaafaaaafaaaafaaaafaaaafaaaafaaaafaaaafaaaafaaaafaaaafaaaafaaaafaaaafaaaafaaaafaaaafaaaafaaaafaaaafaaaafaaaafaaaafaaaafaaaafaaaafaaaafaaaafaaaafaaaafaaaafaaaafaaaafaaaafaaaafaaaafaaaafaaaafaaaafaaaafaaaafaaaafaaaafaaaafaaaafaaaafaaaafaaaafaaaafaaaafaaaafaaaafaaaafaaaafaaaafaaaafaaaafaaaafaaaafaaaafaaaafaaaafaaaafaaaafaaaafaaaafaaaafaaaafaaaafaaaafaaaafaaaafaaaafaaaafaaaafaaaafaaaafaaaafaaaafaaaafaaaafaaaafaaaafaaaafaaaafaaaafaaaafaaaafaaaafaaaafaaaafaaaafaaaafaaaafaaaafaaaafaaaafaaaafaaaafaaaafaaaafaaaafaaaafaaaafaaaafaaaafaaaafaaaafaaaafaaaafaaaafaaaafaaaafaaaafaaaafaaaafaaaafaaaafaaaafaaaafaaaafaaaafaaaafaaaafaaaafaaaafaaaafaaaafaaaafaaaafaaaafaaaafaaaafaaaafaaaafaaaafaaaafaaaafaaaafaaaafaaaafaaaafaaaafaaaafaaaafaaaafaaaafaaaafaaaafaaaafaaaafaaaafaaaafaaaafaaaafaaaafaaaafaaaafaaaafaaaafaaaafaaaafaaaafaaaafaaaafaaaafaaaafaaaafaaaafaaaafaaaafaaaafaaaafaaaafaaaafaaaafaaaafaaaafaaaafaaaafaaaafaaaafaaaafaaaafaaaafaaaafaaaafaaaafaaaafaaaafaaaafaaaafaaaafaaaafaaaafaaaafaaaafaaaafaaaafaaaafaaaafaaaafaaaafaaaafaaaafaaaafaaaafaaaafaaaafaaaafaaaafaaaafaaaafaaaafaaaafaaaafaaaafaaaafaaaafaaaafaaaafaaaafaaaafaaaafaaaafaaaafaaaafaaaafaaaafaaaafaaaafaaaafaaaafaaaafaaaafaaaafaaaafaaaafaaaafaaaafaaaafaaaafaaaafaaaafaaaafaaaafaaaafaaaafaaaafaaaafaaaafaaaafaaaafaaaafaaaafaaaafaaaafaaaafaaaafaaaafaaaafaaaafaaaafaaaafaaaafaaaafaaaafaaaafaaaafaaaafaaaafaaaafaaaafaaaafaaaafaaaafaaaafaaaafaaaafaaaafaaaafaaaafaaaafaaaafaaaafaaaafaaaafaaaafaaaafaaaafaaaafaaaafaaaafaaaafaaaafaaaafaaaafaaaafaaaafaaaafaaaafaaaafaaaafaaaafaaaafaaaafaaaafaaaafaaaafaaaafaaaafaaaafaaaafaaaafaaaafaaaafaaaafaaaafaaaafaaaafaaaafaaaafaaaafaaaafaaaafaaaafaaaafaaaafaaaafaaaafaaaafaaaafaaaafaaaafaaaafaaaafaaaafaaaafaaaafaaaafaaaafaaaafaaaafaaaafaaaafaaaafaaaafaaaafaaaafaaaafaaaafaaaafaaaafaaaafaaaafaaaafaaaafaaaafaaaafaaaafaaaafaaaafaaaafaaaafaaaafaaaafaaaafaaaafaaaafaaaafaaaafaaaafaaaafaaaafaaaafaaaafaaaafaaaafaaaafaaaafaaaafaaaafaaaafaaaafaaaafaaaafaaaafaaaafaaaafaaaafaaaafaaaafaaaafaaaafaaaafaaaafaaaafaaaafaaaafaaaafaaaafaaaafaaaafaaaafaaaafaaaafaaaafaaaafaaaafaaaafaaaafaaaafaaaafaaaafaaaafaaaafaaaafaaaafaaaafaaaafaaaafaaaafaaaafaaaafaaaafaaaafaaaafaaaafaaaafaaaafaaaafaaaafaaaafaaaafaaaafaaaafaaaafaaaafaaaafaaaafaaaafaaaafaaaafaaaafaaaafaaaafaaaafaaaafaaaafaaaafaaaafaaaafaaaafaaaafaaaafaaaafaaaafaaaafaaaafaaaafaaaafaaaafaaaafaaaafaaaafaaaafaaaafaaaafaaaafaaaafaaaafaaaafaaaafaaaafaaaafaaaafaaaafaaaafaaaafaaaafaaaafaaaafaaaafaaaafaaaafaaaafaaaafaaaafaaaafaaaafaaaafaaaafaaaafaaaafaaaafaaaafaaaafaaaafaaaafaaaafaaaafaaaafaaaafaaaafaaaafaaaafaaaafaaaafaaaafaaaafaaaafaaaafaaaafaaaafaaaafaaaafaaaafaaaafaaaafaaaafaaaafaaaafaaaafaaaafaaaafaaaafaaaafaaaafaaaafaaaafaaaafaaaafaaaafaaaafaaaafaaaafaaaafaaaafaaaafaaaafaaaafaaaafaaaafaaaafaaaafaaaafaaaafaaaafaaaafaaaafaaaafaaaafaaaafaaaafaaaafaaaafaaaafaaaafaaaafaaaafaaaafaaaafaaaafaaaafaaaafaaaafaaaafaaaafaaaafaaaafaaaafaaaafaaaafaaaafaaaafaaaafaaaafaaaafaaaafaaaafaaaafaaaafaaaafaaaafaaaafaaaafaaaafaaaafaaaafaaaafaaaafaaaafaaaafaaaafaaaafaaaafaaaafaaaafaaaafaaaafaaaafaaaafaaaafaaaafaaaafaaaafaaaafaaaafaaaafaaaafaaaafaaaafaaaafaaaafaaaafaaaafaaaafaaaafaaaafaaaafaaaafaaaafaaaafaaaafaaaafaaaafaaaafaaaafaaaafaaaafaaaafaaaafaaaafaaaafaaaafaaaafaaaafaaaafaaaafaaaafaaaafaaaafaaaafaaaafaaaafaaaafaaaafaaaafaaaafaaaafaaaafaaaafaaaafaaaafaaaafaaaafaaaafaaaafaaaafaaaafaaaafaaaafaaaafaaaafaaaafaaaafaaaafaaaafaaaafaaaafaaaafaaaafaaaafaaaafaaaafaaaafaaaafaaaafaaaafaaaafaaaafaaaafaaaafaaaafaaaafaaaafaaaafaaaafaaaafaaaafaaaafaaaafaaaafaaaafaaaafaaaafaaaafaaaafaaaafaaaafaaaafaaaafaaaafaaaafaaaafaaaafaaaafaaaafaaaafaaaafaaaafaaaafaaaafaaaafaaaafaaaafaaaafaaaafaaaafaaaafaaaafaaaafaaaafaaaafaaaafaaaafaaaafaaaafaaaafaaaafaaaafaaaafaaaafaaaafaaaafaaaafaaaafaaaafaaaafaaaafaaaafaaaafaaaafaaaafaaaafaaaafaaaafaaaafaaaafaaaafaaaafaaaafaaaafaaaafaaaafaaaafaaaafaaaafaaaafaaaafaaaafaaaafaaaafaaaafaaaafaaaafaaaafaaaafaaaafaaaafaaaafaaaafaaaafaaaafaaaafaaaafaaaafaaaafaaaafaaaafaaaafaaaafaaaafaaaafaaaafaaaafaaaafaaaafaaaafaaaafaaaafaaaafaaaafaaaafaaaafaaaafaaaafaaaafaaaafaaaafaaaafaaaafaaaafaaaafaaaafaaaafaaaafaaaafaaaafaaaafaaaafaaaafaaaafaaaafaaaafaaaafaaaafaaaafaaaafaaaafaaaafaaaafaaaafaaaafaaaafaaaafaaaafaaaafaaaafaaaafaaaafaaaafaaaafaaaafaaaafaaaafaaaafaaaafaaaafaaaafaaaafaaaafaaaafaaaafaaaafaaaafaaaafaaaafaaaafaaaafaaaafaaaafaaaafaaaafaaaafaaaafaaaafaaaafaaaafaaaafaaaafaaaafaaaafaaaafaaaafaaaafaaaafaaaafaaaafaaaafaaaafaaaafaaaafaaaafaaaafaaaafaaaafaaaafaaaafaaaafaaaafaaaafaaaafaaaafaaaafaaaafaaaafaaaafaaaafaaaafaaaafaaaafaaaafaaaafaaaafaaaafaaaafaaaafaaaafaaaafaaaafaaaafaaaafaaaafaaaafaaaafaaaafaaaafaaaafaaaafaaaafaaaafaaaafaaaafaaaafaaaafaaaafaaaafaaaafaaaafaaaafaaaafaaaafaaaafaaaafaaaafaaaafaaaafaaaafaaaafaaaafaaaafaaaafaaaafaaaafaaaafaaaafaaaafaaaafaaaafaaaafaaaafaaaafaaaafaaaafaaaafaaaafaaaafaaaafaaaafaaaafaaaafaaaafaaaafaaaafaaaafaaaafaaaafaaaafaaaafaaaafaaaafaaaafaaaafaaaafaaaafaaaafaaaafaaaafaaaafaaaafaaaafaaaafaaaafaaaafaaaafaaaafaaaafaaaafaaaafaaaafaaaafaaaafaaaafaaaafaaaafaaaafaaaafaaaafaaaafaaaafaaaafaaaafaaaafaaaafaaaafaaaafaaaafaaaafaaaafaaaafaaaafaaaafaaaafaaaafaaaafaaaafaaaafaaaafaaaafaaaafaaaafaaaafaaaafaaaafaaaafaaaafaaaafaaaafaaaafaaaafaaaafaaaafaaaafaaaafaaaafaaaafaaaafaaaafaaaafaaaafaaaafaaaafaaaafaaaafaaaafaaaafaaaafaaaafaaaafaaaafaaaafaaaafaaaafaaaafaaaafaaaafaaaafaaaafaaaafaaaafaaaafaaaafaaaafaaaafaaaafaaaafaaaafaaaafaaaafaaaafaaaafaaaafaaaafaaaafaaaafaaaafaaaafaaaafaaaafaaaafaaaafaaaafaaaafaaaafaaaafaaaafaaaafaaaafaaaafaaaafaaaafaaaafaaaafaaaafaaaafaaaafaaaafaaaafaaaafaaaafaaaafaaaafaaaafaaaafaaaafaaaafaaaafaaaafaaaafaaaafaaaafaaaafaaaafaaaafaaaafaaaafaaaafaaaafaaaafaaaafaaaafaaaafaaaafaaaafaaaafaaaafaaaafaaaafaaaafaaaafaaaafaaaafaaaafaaaafaaaafaaaafaaaafaaaafaaaafaaaafaaaafaaaafaaaafaaaafaaaafaaaafaaaafaaaafaaaafaaaafaaaafaaaafaaaafaaaafaaaafaaaafaaaafaaaafaaaafaaaafaaaafaaaafaaaafaaaafaaaafaaaafaaaafaaaafaaaafaaaafaaaafaaaafaaaafaaaafaaaafaaaafaaaafaaaafaaaafaaaafaaaafaaaafaaaafaaaafaaaafaaaafaaaafaaaafaaaafaaaafaaaafaaaafaaaafaaaafaaaafaaaafaaaafaaaafaaaafaaaafaaaafaaaafaaaafaaaafaaaafaaaafaaaafaaaafaaaafaaaafaaaafaaaafaaaafaaaafaaaafaaaafaaaafaaaafaaaafaaaafaaaafaaaafaaaafaaaafaaaafaaaafaaaafaaaafaaaafaaaafaaaafaaaafaaaafaaaafaaaafaaaafaaaafaaaafaaaafaaaafaaaafaaaafaaaafaaaafaaaafaaaafaaaafaaaafaaaafaaaafaaaafaaaafaaaafaaaafaaaafaaaafaaaafaaaafaaaafaaaafaaaafaaaafaaaafaaaafaaaafaaaafaaaafaaaafaaaafaaaafaaaafaaaafaaaafaaaafaaaafaaaafaaaafaaaafaaaafaaaafaaaafaaaafaaaafaaaafaaaafaaaafaaaafaaaafaaaafaaaafaaaafaaaafaaaafaaaafaaaafaaaafaaaafaaaafaaaafaaaafaaaafaaaafaaaafaaaafaaaafaaaafaaaafaaaafaaaafaaaafaaaafaaaafaaaafaaaafaaaafaaaafaaaafaaaafaaaafaaaafaaaafaaaafaaaafaaaafaaaafaaaafaaaafaaaafaaaafaaaafaaaafaaaafaaaafaaaafaaaafaaaafaaaafaaaafaaaafaaaafaaaafaaaafaaaafaaaafaaaafaaaafaaaafaaaafaaaafaaaafaaaafaaaafaaaafaaaafaaaafaaaafaaaafaaaafaaaafaaaafaaaafaaaafaaaafaaaafaaaafaaaafaaaafaaaafaaaafaaaafaaaafaaaafaaaafaaaafaaaafaaaafaaaafaaaafaaaafaaaafaaaafaaaafaaaafaaaafaaaafaaaafaaaafaaaafaaaafaaaafaaaafaaaafaaaafaaaafaaaafaaaafaaaafaaaafaaaafaaaafaaaafaaaafaaaafaaaafaaaafaaaafaaaafaaaafaaaafaaaafaaaafaaaafaaaafaaaafaaaafaaaafaaaafaaaafaaaafaaaafaaaafaaaafaaaafaaaafaaaafaaaafaaaafaaaafaaaafaaaafaaaafaaaafaaaafaaaafaaaafaaaafaaaafaaaafaaaafaaaafaaaafaaaafaaaafaaaafaaaafaaaafaaaafaaaafaaaafaaaafaaaafaaaafaaaafaaaafaaaafaaaafaaaafaaaafaaaafaaaafaaaafaaaafaaaafaaaafaaaafaaaafaaaafaaaafaaaafaaaafaaaafaaaafaaaafaaaafaaaafaaaafaaaafaaaafaaaafaaaafaaaafaaaafaaaafaaaafaaaafaaaafaaaafaaaafaaaafaaaafaaaafaaaafaaaafaaaafaaaafaaaafaaaafaaaafaaaafaaaafaaaafaaaafaaaafaaaafaaaafaaaafaaaafaaaafaaaafaaaafaaaafaaaafaaaafaaaafaaaafaaaafaaaafaaaafaaaafaaaafaaaafaaaafaaaafaaaafaaaafaaaafaaaafaaaafaaaafaaaafaaaafaaaafaaaafaaaafaaaafaaaafaaaafaaaafaaaafaaaafaaaafaaaafaaaafaaaafaaaafaaaafaaaafaaaafaaaafaaaafaaaafaaaafaaaafaaaafaaaafaaaafaaaafaaaafaaaafaaaafaaaafaaaafaaaafaaaafaaaafaaaafaaaafaaaafaaaafaaaafaaaafaaaafaaaafaaaafaaaafaaaafaaaafaaaafaaaafaaaafaaaafaaaafaaaafaaaafaaaafaaaafaaaafaaaafaaaafaaaafaaaafaaaafaaaafaaaafaaaafaaaafaaaafaaaafaaaafaaaafaaaafaaaafaaaafaaaafaaaafaaaafaaaafaaaafaaaafaaaafaaaafaaaafaaaafaaaafaaaafaaaafaaaafaaaafaaaafaaaafaaaafaaaafaaaafaaaafaaaafaaaafaaaafaaaafaaaafaaaafaaaafaaaafaaaafaaaafaaaafaaaafaaaafaaaafaaaafaaaafaaaafaaaafaaaafaaaafaaaafaaaafaaaafaaaafaaaafaaaafaaaafaaaafaaaafaaaafaaaafaaaafaaaafaaaafaaaafaaaafaaaafaaaafaaaafaaaafaaaafaaaafaaaafaaaafaaaafaaaafaaaafaaaafaaaafaaaafaaaafaaaafaaaafaaaafaaaafaaaafaaaafaaaafaaaafaaaafaaaafaaaafaaaafaaaafaaaafaaaafaaaafaaaafaaaafaaaafaaaafaaaafaaaafaaaafaaaafaaaafaaaafaaaafaaaafaaaafaaaafaaaafaaaafaaaafaaaafaaaafaaaafaaaafaaaafaaaafaaaafaaaafaaaafaaaafaaaafaaaafaaaafaaaafaaaafaaaafaaaafaaaafaaaafaaaafaaaafaaaafaaaafaaaafaaaafaaaafaaaafaaaafaaaafaaaafaaaafaaaafaaaafaaaafaaaafaaaafaaaafaaaafaaaafaaaafaaaafaaaafaaaafaaaafaaaafaaaafaaaafaaaafaaaafaaaafaaaafaaaafaaaafaaaafaaaafaaaafaaaafaaaafaaaafaaaafaaaafaaaafaaaafaaaafaaaafaaaafaaaafaaaafaaaafaaaafaaaafaaaafaaaafaaaafaaaafaaaafaaaafaaaafaaaafaaaafaaaafaaaafaaaafaaaafaaaafaaaafaaaafaaaafaaaafaaaafaaaafaaaafaaaafaaaafaaaafaaaafaaaafaaaafaaaafaaaafaaaafaaaafaaaafaaaafaaaafaaaafaaaafaaaafaaaafaaaafaaaafaaaafaaaafaaaafaaaafaaaafaaaafaaaafaaaafaaaafaaaafaaaafaaaafaaaafaaaafaaaafaaaafaaaafaaaafaaaafaaaafaaaafaaaafaaaafaaaafaaaafaaaafaaaafaaaafaaaafaaaafaaaafaaaafaaaafaaaafaaaafaaaafaaaafaaaafaaaafaaaafaaaafaaaafaaaafaaaafaaaafaaaafaaaafaaaafaaaafaaaafaaaafaaaafaaaafaaaafaaaafaaaafaaaafaaaafaaaafaaaafaaaafaaaafaaaafaaaafaaaafaaaafaaaafaaaafaaaafaaaafaaaafaaaafaaaafaaaafaaaafaaaafaaaafaaaafaaaafaaaafaaaafaaaafaaaafaaaafaaaafaaaafaaaafaaaafaaaafaaaafaaaafaaaafaaaafaaaafaaaafaaaafaaaafaaaafaaaafaaaafaaaafaaaafaaaafaaaafaaaafaaaafaaaafaaaafaaaafaaaafaaaafaaaafaaaafaaaafaaaafaaaafaaaafaaaafaaaafaaaafaaaafaaaafaaaafaaaafaaaafaaaafaaaafaaaafaaaafaaaafaaaafaaaafaaaafaaaafaaaafaaaafaaaafaaaafaaaafaaaafaaaafaaaafaaaafaaaafaaaafaaaafaaaafaaaafaaaafaaaafaaaafaaaafaaaafaaaafaaaafaaaafaaaafaaaafaaaafaaaafaaaafaaaafaaaafaaaafaaaafaaaafaaaafaaaafaaaafaaaafaaaafaaaafaaaafaaaafaaaafaaaafaaaafaaaafaaaafaaaafaaaafaaaafaaaafaaaafaaaafaaaafaaaafaaaafaaaafaaaafaaaafaaaafaaaafaaaafaaaafaaaafaaaafaaaafaaaafaaaafaaaafaaaafaaaafaaaafaaaafaaaafaaaafaaaafaaaafaaaafaaaafaaaafaaaafaaaafaaaafaaaafaaaafaaaafaaaafaaaafaaaafaaaafaaaafaaaafaaaafaaaafaaaafaaaafaaaafaaaafaaaafaaaafaaaafaaaafaaaafaaaafaaaafaaaafaaaafaaaafaaaafaaaafaaaafaaaafaaaafaaaafaaaafaaaafaaaafaaaafaaaafaaaafaaaafaaaafaaaafaaaafaaaafaaaafaaaafaaaafaaaafaaaafaaaafaaaafaaaafaaaafaaaafaaaafaaaafaaaafaaaafaaaafaaaafaaaafaaaafaaaafaaaafaaaafaaaafaaaafaaaafaaaafaaaafaaaafaaaafaaaafaaaafaaaafaaaafaaaafaaaafaaaafaaaafaaaafaaaafaaaafaaaafaaaafaaaafaaaafaaaafaaaafaaaafaaaafaaaafaaaafaaaafaaaafaaaafaaaafaaaafaaaafaaaafaaaafaaaafaaaafaaaafaaaafaaaafaaaafaaaafaaaafaaaafaaaafaaaafaaaafaaaafaaaafaaaafaaaafaaaafaaaafaaaafaaaafaaaafaaaafaaaafaaaafaaaafaaaafaaaafaaaafaaaafaaaafaaaafaaaafaaaafaaaafaaaafaaaafaaaafaaaafaaaafaaaafaaaafaaaafaaaafaaaafaaaafaaaafaaaafaaaafaaaafaaaafaaaafaaaafaaaafaaaafaaaafaaaafaaaafaaaafaaaafaaaafaaaafaaaafaaaafaaaafaaaafaaaafaaaafaaaafaaaafaaaafaaaafaaaafaaaafaaaafaaaafaaaafaaaafaaaafaaaafaaaafaaaafaaaafaaaafaaaafaaaafaaaafaaaafaaaafaaaafaaaafaaaafaaaafaaaafaaaafaaaafaaaafaaaafaaaafaaaafaaaafaaaafaaaafaaaafaaaafaaaafaaaafaaaafaaaafaaaafaaaafaaaafaaaafaaaafaaaafaaaafaaaafaaaafaaaafaaaafaaaafaaaafaaaafaaaafaaaafaaaafaaaafaaaafaaaafaaaafaaaafaaaafaaaafaaaafaaaafaaaafaaaafaaaafaaaafaaaafaaaafaaaafaaaafaaaafaaaafaaaafaaaafaaaafaaaafaaaafaaaafaaaafaaaafaaaafaaaafaaaafaaaafaaaafaaaafaaaafaaaafaaaafaaaafaaaafaaaafaaaafaaaafaaaafaaaafaaaafaaaafaaaafaaaafaaaafaaaafaaaafaaaafaaaafaaaafaaaafaaaafaaaafaaaafaaaafaaaafaaaafaaaafaaaafaaaafaaaafaaaafaaaafaaaafaaaafaaaafaaaafaaaafaaaafaaaafaaaafaaaafaaaafaaaafaaaafaaaafaaaafaaaafaaaafaaaafaaaafaaaafaaaafaaaafaaaafaaaafaaaafaaaafaaaafaaaafaaaafaaaafaaaafaaaafaaaafaaaafaaaafaaaafaaaafaaaafaaaafaaaafaaaafaaaafaaaafaaaafaaaafaaaafaaaafaaaafaaaafaaaafaaaafaaaafaaaafaaaafaaaafaaaafaaaafaaaafaaaafaaaafaaaafaaaafaaaafaaaafaaaafaaaafaaaafaaaafaaaafaaaafaaaafaaaafaaaafaaaafaaaafaaaafaaaafaaaafaaaafaaaafaaaafaaaafaaaafaaaafaaaafaaaafaaaafaaaafaaaafaaaafaaaafaaaafaaaafaaaafaaaafaaaafaaaafaaaafaaaafaaaafaaaafaaaafaaaafaaaafaaaafaaaafaaaafaaaafaaaafaaaafaaaafaaaafaaaafaaaafaaaafaaaafaaaafaaaafaaaafaaaafaaaafaaaafaaaafaaaafaaaafaaaafaaaafaaaafaaaafaaaafaaaafaaaafaaaafaaaafaaaafaaaafaaaafaaaafaaaafaaaafaaaafaaaafaaaafaaaafaaaafaaaafaaaafaaaafaaaafaaaafaaaafaaaafaaaafaaaafaaaafaaaafaaaafaaaafaaaafaaaafaaaafaaaafaaaafaaaafaaaafaaaafaaaafaaaafaaaafaaaafaaaafaaaafaaaafaaaafaaaafaaaafaaaafaaaafaaaafaaaafaaaafaaaafaaaafaaaafaaaafaaaafaaaafaaaafaaaafaaaafaaaafaaaafaaaafaaaafaaaafaaaafaaaafaaaafaaaafaaaafaaaafaaaafaaaafaaaafaaaafaaaafaaaafaaaafaaaafaaaafaaaafaaaafaaaafaaaafaaaafaaaafaaaafaaaafaaaafaaaafaaaafaaaafaaaafaaaafaaaafaaaafaaaafaaaafaaaafaaaafaaaafaaaafaaaafaaaafaaaafaaaafaaaafaaaafaaaafaaaafaaaafaaaafaaaafaaaafaaaafaaaafaaaafaaaafaaaafaaaafaaaafaaaafaaaafaaaafaaaafaaaafaaaafaaaafaaaafaaaafaaaafaaaafaaaafaaaafaaaafaaaafaaaafaaaafaaaafaaaafaaaafaaaafaaaafaaaafaaaafaaaafaaaafaaaafaaaafaaaafaaaafaaaafaaaafaaaafaaaafaaaafaaaafaaaafaaaafaaaafaaaafaaaafaaaafaaaafaaaafaaaafaaaafaaaafaaaafaaaafaaaafaaaafaaaafaaaafaaaafaaaafaaaafaaaafaaaafaaaafaaaafaaaafaaaafaaaafaaaafaaaafaaaafaaaafaaaafaaaafaaaafaaaafaaaafaaaafaaaafaaaafaaaafaaaafaaaafaaaafaaaafaaaafaaaafaaaafaaaafaaaafaaaafaaaafaaaafaaaafaaaafaaaafaaaafaaaafaaaafaaaafaaaafaaaafaaaafaaaafaaaafaaaafaaaafaaaafaaaafaaaafaaaafaaaafaaaafaaaafaaaafaaaafaaaafaaaafaaaafaaaafaaaafaaaafaaaafaaaafaaaafaaaafaaaafaaaafaaaafaaaafaaaafaaaafaaaafaaaafaaaafaaaafaaaafaaaafaaaafaaaafaaaafaaaafaaaafaaaafaaaafaaaafaaaafaaaafaaaafaaaafaaaafaaaafaaaafaaaafaaaafaaaafaaaafaaaafaaaafaaaafaaaafaaaafaaaafaaaafaaaafaaaafaaaafaaaafaaaafaaaafaaaafaaaafaaaafaaaafaaaafaaaafaaaafaaaafaaaafaaaafaaaafaaaafaaaafaaaafaaaafaaaafaaaafaaaafaaaafaaaafaaaafaaaafaaaafaaaafaaaafaaaafaaaafaaaafaaaafaaaafaaaafaaaafaaaafaaaafaaaafaaaafaaaafaaaafaaaafaaaafaaaafaaaafaaaafaaaafaaaafaaaafaaaafaaaafaaaafaaaafaaaafaaaafaaaafaaaafaaaafaaaafaaaafaaaafaaaafaaaafaaaafaaaafaaaafaaaafaaaafaaaafaaaafaaaafaaaafaaaafaaaafaaaafaaaafaaaafaaaafaaaafaaaafaaaafaaaafaaaafaaaafaaaafaaaafaaaafaaaafaaaafaaaafaaaafaaaafaaaafaaaafaaaafaaaafaaaafaaaafaaaafaaaafaaaafaaaafaaaafaaaafaaaafaaaafaaaafaaaafaaaafaaaafaaaafaaaafaaaafaaaafaaaafaaaafaaaafaaaafaaaafaaaafaaaafaaaafaaaafaaaafaaaafaaaafaaaafaaaafaaaafaaaafaaaafaaaafaaaafaaaafaaaafaaaafaaaafaaaafaaaafaaaafaaaafaaaafaaaafaaaafaaaafaaaafaaaafaaaafaaaafaaaafaaaafaaaafaaaafaaaafaaaafaaaafaaaafaaaafaaaafaaaafaaaafaaaafaaaafaaaafaaaafaaaafaaaafaaaafaaaafaaaafaaaafaaaafaaaafaaaafaaaafaaaafaaaafaaaafaaaafaaaafaaaafaaaafaaaafaaaafaaaafaaaafaaaafaaaafaaaafaaaafaaaafaaaafaaaafaaaafaaaafaaaafaaaafaaaafaaaafaaaafaaaafaaaafaaaafaaaafaaaafaaaafaaaafaaaafaaaafaaaafaaaafaaaafaaaafaaaafaaaafaaaafaaaafaaaafaaaafaaaafaaaafaaaafaaaafaaaafaaaafaaaafaaaafaaaafaaaafaaaafaaaafaaaafaaaafaaaafaaaafaaaafaaaafaaaafaaaafaaaafaaaafaaaafaaaafaaaafaaaafaaaafaaaafaaaafaaaafaaaafaaaafaaaafaaaafaaaafaaaafaaaafaaaafaaaafaaaafaaaafaaaafaaaafaaaafaaaafaaaafaaaafaaaafaaaafaaaafaaaafaaaafaaaafaaaafaaaafaaaafaaaafaaaafaaaafaaaafaaaafaaaafaaaafaaaafaaaafaaaafaaaafaaaafaaaafaaaafaaaafaaaafaaaafaaaafaaaafaaaafaaaafaaaafaaaafaaaafaaaafaaaafaaaafaaaafaaaafaaaafaaaafaaaafaaaafaaaafaaaafaaaafaaaafaaaafaaaafaaaafaaaafaaaafaaaafaaaafaaaafaaaafaaaafaaaafaaaafaaaafaaaafaaaafaaaafaaaafaaaafaaaafaaaafaaaafaaaafaaaafaaaafaaaafaaaafaaaafaaaafaaaafaaaafaaaafaaaafaaaafaaaafaaaafaaaafaaaafaaaafaaaafaaaafaaaafaaaafaaaafaaaafaaaafaaaafaaaafaaaafaaaafaaaafaaaafaaaafaaaafaaaafaaaafaaaafaaaafaaaafaaaafaaaafaaaafaaaafaaaafaaaafaaaafaaaafaaaafaaaafaaaafaaaafaaaafaaaafaaaafaaaafaaaafaaaafaaaafaaaafaaaafaaaafaaaafaaaafaaaafaaaafaaaafaaaafaaaafaaaafaaaafaaaafaaaafaaaafaaaafaaaafaaaafaaaafaaaafaaaafaaaafaaaafaaaafaaaafaaaafaaaafaaaafaaaafaaaafaaaafaaaafaaaafaaaafaaaafaaaafaaaafaaaafaaaafaaaafaaaafaaaafaaaafaaaafaaaafaaaafaaaafaaaafaaaafaaaafaaaafaaaafaaaafaaaafaaaafaaaafaaaafaaaafaaaafaaaafaaaafaaaafaaaafaaaafaaaafaaaafaaaafaaaafaaaafaaaafaaaafaaaafaaaafaaaafaaaafaaaafaaaafaaaafaaaafaaaafaaaafaaaafaaaafaaaafaaaafaaaafaaaafaaaafaaaafaaaafaaaafaaaafaaaafaaaafaaaafaaaafaaaafaaaafaaaafaaaafaaaafaaaafaaaafaaaafaaaafaaaafaaaafaaaafaaaafaaaafaaaafaaaafaaaafaaaafaaaafaaaafaaaafaaaafaaaafaaaafaaaafaaaafaaaafaaaafaaaafaaaafaaaafaaaafaaaafaaaafaaaafaaaafaaaafaaaafaaaafaaaafaaaafaaaafaaaafaaaafaaaafaaaafaaaafaaaafaaaafaaaafaaaafaaaafaaaafaaaafaaaafaaaafaaaafaaaafaaaafaaaafaaaafaaaafaaaafaaaafaaaafaaaafaaaafaaaafaaaafaaaafaaaafaaaafaaaafaaaafaaaafaaaafaaaafaaaafaaaafaaaafaaaafaaaafaaaafaaaafaaaafaaaafaaaafaaaafaaaafaaaafaaaafaaaafaaaafaaaafaaaafaaaafaaaafaaaafaaaafaaaafaaaafaaaafaaaafaaaafaaaafaaaafaaaafaaaafaaaafaaaafaaaafaaaafaaaafaaaafaaaafaaaafaaaafaaaafaaaafaaaafaaaafaaaafaaaafaaaafaaaafaaaafaaaafaaaafaaaafaaaafaaaafaaaafaaaafaaaafaaaafaaaafaaaafaaaafaaaafaaaafaaaafaaaafaaaafaaaafaaaafaaaafaaaafaaaafaaaafaaaafaaaafaaaafaaaafaaaafaaaafaaaafaaaafaaaafaaaafaaaafaaaafaaaafaaaafaaaafaaaafaaaafaaaafaaaafaaaafaaaafaaaafaaaafaaaafaaaafaaaafaaaafaaaafaaaafaaaafaaaafaaaafaaaafaaaafaaaafaaaafaaaafaaaafaaaafaaaafaaaafaaaafaaaafaaaafaaaafaaaafaaaafaaaafaaaafaaaafaaaafaaaafaaaafaaaafaaaafaaaafaaaafaaaafaaaafaaaafaaaafaaaafaaaafaaaafaaaafaaaafaaaafaaaafaaaafaaaafaaaafaaaafaaaafaaaafaaaafaaaafaaaafaaaafaaaafaaaafaaaafaaaafaaaafaaaafaaaafaaaafaaaafaaaafaaaafaaaafaaaafaaaafaaaafaaaafaaaafaaaafaaaafaaaafaaaafaaaafaaaafaaaafaaaafaaaafaaaafaaaafaaaafaaaafaaaafaaaafaaaafaaaafaaaafaaaafaaaafaaaafaaaafaaaafaaaafaaaafaaaafaaaafaaaafaaaafaaaafaaaafaaaafaaaafaaaafaaaafaaaafaaaafaaaafaaaafaaaafaaaafaaaafaaaafaaaafaaaafaaaafaaaafaaaafaaaafaaaafaaaafaaaafaaaafaaaafaaaafaaaafaaaafaaaafaaaafaaaafaaaafaaaafaaaafaaaafaaaafaaaafaaaafaaaafaaaafaaaafaaaafaaaafaaaafaaaafaaaafaaaafaaaafaaaafaaaafaaaafaaaafaaaafaaaafaaaafaaaafaaaafaaaafaaaafaaaafaaaafaaaafaaaafaaaafaaaafaaaafaaaafaaaafaaaafaaaafaaaafaaaafaaaafaaaafaaaafaaaafaaaafaaaafaaaafaaaafaaaafaaaafaaaafaaaafaaaafaaaafaaaafaaaafaaaafaaaafaaaafaaaafaaaafaaaafaaaafaaaafaaaafaaaafaaaafaaaafaaaafaaaafaaaafaaaafaaaafaaaafaaaafaaaafaaaafaaaafaaaafaaaafaaaafaaaafaaaafaaaafaaaafaaaafaaaafaaaafaaaafaaaafaaaafaaaafaaaafaaaafaaaafaaaafaaaafaaaafaaaafaaaafaaaafaaaafaaaafaaaafaaaafaaaafaaaafaaaafaaaafaaaafaaaafaaaafaaaafaaaafaaaafaaaafaaaafaaaafaaaafaaaafaaaafaaaafaaaafaaaafaaaafaaaafaaaafaaaafaaaafaaaafaaaafaaaafaaaafaaaafaaaafaaaafaaaafaaaafaaaafaaaafaaaafaaaafaaaafaaaafaaaafaaaafaaaafaaaafaaaafaaaafaaaafaaaafaaaafaaaafaaaafaaaafaaaafaaaafaaaafaaaafaaaafaaaafaaaafaaaafaaaafaaaafaaaafaaaafaaaafaaaafaaaafaaaafaaaafaaaafaaaafaaaafaaaafaaaafaaaafaaaafaaaafaaaafaaaafaaaafaaaafaaaafaaaafaaaafaaaafaaaafaaaafaaaafaaaafaaaafaaaafaaaafaaaafaaaafaaaafaaaafaaaafaaaafaaaafaaaafaaaafaaaafaaaafaaaafaaaafaaaafaaaafaaaafaaaafaaaafaaaafaaaafaaaafaaaafaaaafaaaafaaaafaaaafaaaafaaaafaaaafaaaafaaaafaaaafaaaafaaaafaaaafaaaafaaaafaaaafaaaafaaaafaaaafaaaafaaaafaaaafaaaafaaaafaaaafaaaafaaaafaaaafaaaafaaaafaaaafaaaafaaaafaaaafaaaafaaaafaaaafaaaafaaaafaaaafaaaafaaaafaaaafaaaafaaaafaaaafaaaafaaaafaaaafaaaafaaaafaaaafaaaafaaaafaaaafaaaafaaaafaaaafaaaafaaaafaaaafaaaafaaaafaaaafaaaafaaaafaaaafaaaafaaaafaaaafaaaafaaaafaaaafaaaafaaaafaaaafaaaafaaaafaaaafaaaafaaaafaaaafaaaafaaaafaaaafaaaafaaaafaaaafaaaafaaaafaaaafaaaafaaaafaaaafaaaafaaaafaaaafaaaafaaaafaaaafaaaafaaaafaaaafaaaafaaaafaaaafaaaafaaaafaaaafaaaafaaaafaaaafaaaafaaaafaaaafaaaafaaaafaaaafaaaafaaaafaaaafaaaafaaaafaaaafaaaafaaaafaaaafaaaafaaaafaaaafaaaafaaaafaaaafaaaafaaaafaaaafaaaafaaaafaaaafaaaafaaaafaaaafaaaafaaaafaaaafaaaafaaaafaaaafaaaafaaaafaaaafaaaafaaaafaaaafaaaafaaaafaaaafaaaafaaaafaaaafaaaafaaaafaaaafaaaafaaaafaaaafaaaafaaaafaaaafaaaafaaaafaaaafaaaafaaaafaaaafaaaafaaaafaaaafaaaafaaaafaaaafaaaafaaaafaaaafaaaafaaaafaaaafaaaafaaaafaaaafaaaafaaaafaaaafaaaafaaaafaaaafaaaafaaaafaaaafaaaafaaaafaaaafaaaafaaaafaaaafaaaafaaaafaaaafaaaafaaaafaaaafaaaafaaaafaaaafaaaafaaaafaaaafaaaafaaaafaaaafaaaafaaaafaaaafaaaafaaaafaaaafaaaafaaaafaaaafaaaafaaaafaaaafaaaafaaaafaaaafaaaafaaaafaaaafaaaafaaaafaaaafaaaafaaaafaaaafaaaafaaaafaaaafaaaafaaaafaaaafaaaafaaaafaaaafaaaafaaaafaaaafaaaafaaaafaaaafaaaafaaaafaaaafaaaafaaaafaaaafaaaafaaaafaaaafaaaafaaaafaaaafaaaafaaaafaaaafaaaafaaaafaaaafaaaafaaaafaaaafaaaafaaaafaaaafaaaafaaaafaaaafaaaafaaaafaaaafaaaafaaaafaaaafaaaafaaaafaaaafaaaafaaaafaaaafaaaafaaaafaaaafaaaafaaaafaaaafaaaafaaaafaaaafaaaafaaaafaaaafaaaafaaaafaaaafaaaafaaaafaaaafaaaafaaaafaaaafaaaafaaaafaaaafaaaafaaaafaaaafaaaafaaaafaaaafaaaafaaaafaaaafaaaafaaaafaaaafaaaafaaaafaaaafaaaafaaaafaaaafaaaafaaaafaaaafaaaafaaaafaaaafaaaafaaaafaaaafaaaafaaaafaaaafaaaafaaaafaaaafaaaafaaaafaaaafaaaafaaaafaaaafaaaafaaaafaaaafaaaafaaaafaaaafaaaafaaaafaaaafaaaafaaaafaaaafaaaafaaaafaaaafaaaafaaaafaaaafaaaafaaaafaaaafaaaafaaaafaaaafaaaafaaaafaaaafaaaafaaaafaaaafaaaafaaaafaaaafaaaafaaaafaaaafaaaafaaaafaaaafaaaafaaaafaaaafaaaafaaaafaaaafaaaafaaaafaaaafaaaafaaaafaaaafaaaafaaaafaaaafaaaafaaaafaaaafaaaafaaaafaaaafaaaafaaaafaaaafaaaafaaaafaaaafaaaafaaaafaaaafaaaafaaaafaaaafaaaafaaaafaaaafaaaafaaaafaaaafaaaafaaaafaaaafaaaafaaaafaaaafaaaafaaaafaaaafaaaafaaaafaaaafaaaafaaaafaaaafaaaafaaaafaaaafaaaafaaaafaaaafaaaafaaaafaaaafaaaafaaaafaaaafaaaafaaaafaaaafaaaafaaaafaaaafaaaafaaaafaaaafaaaafaaaafaaaafaaaafaaaafaaaafaaaafaaaafaaaafaaaafaaaafaaaafaaaafaaaafaaaafaaaafaaaafaaaafaaaafaaaafaaaafaaaafaaaafaaaafaaaafaaaafaaaafaaaafaaaafaaaafaaaafaaaafaaaafaaaafaaaafaaaafaaaafaaaafaaaafaaaafaaaafaaaafaaaafaaaafaaaafaaaafaaaafaaaafaaaafaaaafaaaafaaaafaaaafaaaafaaaafaaaafaaaafaaaafaaaafaaaafaaaafaaaafaaaafaaaafaaaafaaaafaaaafaaaafaaaafaaaafaaaafaaaafaaaafaaaafaaaafaaaafaaaafaaaafaaaafaaaafaaaafaaaafaaaafaaaafaaaafaaaafaaaafaaaafaaaafaaaafaaaafaaaafaaaafaaaafaaaafaaaafaaaafaaaafaaaafaaaafaaaafaaaafaaaafaaaafaaaafaaaafaaaafaaaafaaaafaaaafaaaafaaaafaaaafaaaafaaaafaaaafaaaafaaaafaaaafaaaafaaaafaaaafaaaafaaaafaaaafaaaafaaaafaaaafaaaafaaaafaaaafaaaafaaaafaaaafaaaafaaaafaaaafaaaafaaaafaaaafaaaafaaaafaaaafaaaafaaaafaaaafaaaafaaaafaaaafaaaafaaaafaaaafaaaafaaaafaaaafaaaafaaaafaaaafaaaafaaaafaaaafaaaafaaaafaaaafaaaafaaaafaaaafaaaafaaaafaaaafaaaafaaaafaaaafaaaafaaaafaaaafaaaafaaaafaaaafaaaafaaaafaaaafaaaafaaaafaaaafaaaafaaaafaaaafaaaafaaaafaaaafaaaafaaaafaaaafaaaafaaaafaaaafaaaafaaaafaaaafaaaafaaaafaaaafaaaafaaaafaaaafaaaafaaaafaaaafaaaafaaaafaaaafaaaafaaaafaaaafaaaafaaaafaaaafaaaafaaaafaaaafaaaafaaaafaaaafaaaafaaaafaaaafaaaafaaaafaaaafaaaafaaaafaaaafaaaafaaaafaaaafaaaafaaaafaaaafaaaafaaaafaaaafaaaafaaaafaaaafaaaafaaaafaaaafaaaafaaaafaaaafaaaafaaaafaaaafaaaafaaaafaaaafaaaafaaaafaaaafaaaafaaaafaaaafaaaafaaaafaaaafaaaafaaaafaaaafaaaafaaaafaaaafaaaafaaaafaaaafaaaafaaaafaaaafaaaafaaaafaaaafaaaafaaaafaaaafaaaafaaaafaaaafaaaafaaaafaaaafaaaafaaaafaaaafaaaafaaaafaaaafaaaafaaaafaaaafaaaafaaaafaaaafaaaafaaaafaaaafaaaafaaaafaaaafaaaafaaaafaaaafaaaafaaaafaaaafaaaafaaaafaaaafaaaafaaaafaaaafaaaafaaaafaaaafaaaafaaaafaaaafaaaafaaaafaaaafaaaafaaaafaaaafaaaafaaaafaaaafaaaafaaaafaaaafaaaafaaaafaaaafaaaafaaaafaaaafaaaafaaaafaaaafaaaafaaaafaaaafaaaafaaaafaaaafaaaafaaaafaaaafaaaafaaaafaaaafaaaafaaaafaaaafaaaafaaaafaaaafaaaafaaaafaaaafaaaafaaaafaaaafaaaafaaaafaaaafaaaafaaaafaaaafaaaafaaaafaaaafaaaafaaaafaaaafaaaafaaaafaaaafaaaafaaaafaaaafaaaafaaaafaaaafaaaafaaaafaaaafaaaafaaaafaaaafaaaafaaaafaaaafaaaafaaaafaaaafaaaafaaaafaaaafaaaafaaaafaaaafaaaafaaaafaaaafaaaafaaaafaaaafaaaafaaaafaaaafaaaafaaaafaaaafaaaafaaaafaaaafaaaafaaaafaaaafaaaafaaaafaaaafaaaafaaaafaaaafaaaafaaaafaaaafaaaafaaaafaaaafaaaafaaaafaaaafaaaafaaaafaaaafaaaafaaaafaaaafaaaafaaaafaaaafaaaafaaaafaaaafaaaafaaaafaaaafaaaafaaaafaaaafaaaafaaaafaaaafaaaafaaaafaaaafaaaafaaaafaaaafaaaafaaaafaaaafaaaafaaaafaaaafaaaafaaaafaaaafaaaafaaaafaaaafaaaafaaaafaaaafaaaafaaaafaaaafaaaafaaaafaaaafaaaafaaaafaaaafaaaafaaaafaaaafaaaafaaaafaaaafaaaafaaaafaaaafaaaafaaaafaaaafaaaafaaaafaaaafaaaafaaaafaaaafaaaafaaaafaaaafaaaafaaaafaaaafaaaafaaaafaaaafaaaafaaaafaaaafaaaafaaaafaaaafaaaafaaaafaaaafaaaafaaaafaaaafaaaafaaaafaaaafaaaafaaaafaaaafaaaafaaaafaaaafaaaafaaaafaaaafaaaafaaaafaaaafaaaafaaaafaaaafaaaafaaaafaaaafaaaafaaaafaaaafaaaafaaaafaaaafaaaafaaaafaaaafaaaafaaaafaaaafaaaafaaaafaaaafaaaafaaaafaaaafaaaafaaaafaaaafaaaafaaaafaaaafaaaafaaaafaaaafaaaafaaaafaaaafaaaafaaaafaaaafaaaafaaaafaaaafaaaafaaaafaaaafaaaafaaaafaaaafaaaafaaaafaaaafaaaafaaaafaaaafaaaafaaaafaaaafaaaafaaaafaaaafaaaafaaaafaaaafaaaafaaaafaaaafaaaafaaaafaaaafaaaafaaaafaaaafaaaafaaaafaaaafaaaafaaaafaaaafaaaafaaaafaaaafaaaafaaaafaaaafaaaafaaaafaaaafaaaafaaaafaaaafaaaafaaaafaaaafaaaafaaaafaaaafaaaafaaaafaaaafaaaafaaaafaaaafaaaafaaaafaaaafaaaafaaaafaaaafaaaafaaaafaaaafaaaafaaaafaaaafaaaafaaaafaaaafaaaafaaaafaaaafaaaafaaaafaaaafaaaafaaaafaaaafaaaafaaaafaaaafaaaafaaaafaaaafaaaafaaaafaaaafaaaafaaaafaaaafaaaafaaaafaaaafaaaafaaaafaaaafaaaafaaaafaaaafaaaafaaaafaaaafaaaafaaaafaaaafaaaafaaaafaaaafaaaafaaaafaaaafaaaafaaaafaaaafaaaafaaaafaaaafaaaafaaaafaaaafaaaafaaaafaaaafaaaafaaaafaaaafaaaafaaaafaaaafaaaafaaaafaaaafaaaafaaaafaaaafaaaafaaaafaaaafaaaafaaaafaaaafaaaafaaaafaaaafaaaafaaaafaaaafaaaafaaaafaaaafaaaafaaaafaaaafaaaafaaaafaaaafaaaafaaaafaaaafaaaafaaaafaaaafaaaafaaaafaaaafaaaafaaaafaaaafaaaafaaaafaaaafaaaafaaaafaaaafaaaafaaaafaaaafaaaafaaaafaaaafaaaafaaaafaaaafaaaafaaaafaaaafaaaafaaaafaaaafaaaafaaaafaaaafaaaafaaaafaaaafaaaafaaaafaaaafaaaafaaaafaaaafaaaafaaaafaaaafaaaafaaaafaaaafaaaafaaaafaaaafaaaafaaaafaaaafaaaafaaaafaaaafaaaafaaaafaaaafaaaafaaaafaaaafaaaafaaaafaaaafaaaafaaaafaaaafaaaafaaaafaaaafaaaafaaaafaaaafaaaafaaaafaaaafaaaafaaaafaaaafaaaafaaaafaaaafaaaafaaaafaaaafaaaafaaaafaaaafaaaafaaaafaaaafaaaafaaaafaaaafaaaafaaaafaaaafaaaafaaaafaaaafaaaafaaaafaaaafaaaafaaaafaaaafaaaafaaaafaaaafaaaafaaaafaaaafaaaafaaaafaaaafaaaafaaaafaaaafaaaafaaaafaaaafaaaafaaaafaaaafaaaafaaaafaaaafaaaafaaaafaaaafaaaafaaaafaaaafaaaafaaaafaaaafaaaafaaaafaaaafaaaafaaaafaaaafaaaafaaaafaaaafaaaafaaaafaaaafaaaafaaaafaaaafaaaafaaaafaaaafaaaafaaaafaaaafaaaafaaaafaaaafaaaafaaaafaaaafaaaafaaaafaaaafaaaafaaaafaaaafaaaafaaaafaaaafaaaafaaaafaaaafaaaafaaaafaaaafaaaafaaaafaaaafaaaafaaaafaaaafaaaafaaaafaaaafaaaafaaaafaaaafaaaafaaaafaaaafaaaafaaaafaaaafaaaafaaaafaaaafaaaafaaaafaaaafaaaafaaaafaaaafaaaafaaaafaaaafaaaafaaaafaaaafaaaafaaaafaaaafaaaafaaaafaaaafaaaafaaaafaaaafaaaafaaaafaaaafaaaafaaaafaaaafaaaafaaaafaaaafaaaafaaaafaaaafaaaafaaaafaaaafaaaafaaaafaaaafaaaafaaaafaaaafaaaafaaaafaaaafaaaafaaaafaaaafaaaafaaaafaaaafaaaafaaaafaaaafaaaafaaaafaaaafaaaafaaaafaaaafaaaafaaaafaaaafaaaafaaaafaaaafaaaafaaaafaaaafaaaafaaaafaaaafaaaafaaaafaaaafaaaafaaaafaaaafaaaafaaaafaaaafaaaafaaaafaaaafaaaafaaaafaaaafaaaafaaaafaaaafaaaafaaaafaaaafaaaafaaaafaaaafaaaafaaaafaaaafaaaafaaaafaaaafaaaafaaaafaaaafaaaafaaaafaaaafaaaafaaaafaaaafaaaafaaaafaaaafaaaafaaaafaadcfaadcfaadcfaadcfaadcfaadcfaadcfaadcfaadcfaadcfaadcfaadcfaadcfaadcfaadcfaadcfaadcfaadcfaadcfaadcfaadcfaadcfaadcfaadcfaadcfaadcfaadcfaadcfaadcfaadcfaadcfaadcfaaaafaaaafaaaafaaaafaaaafaaaafaaaafaaaafaaaafaaaafaaaafaaaafaaaafaaaafaaaafaaaafaaaafaaaafaaaafaaaafaaaafaaaafaaaafaaaafaaaafaaaafaaaafaaaafaaaafaaaafaaaafaaaafaaaafaaaafaaaafaaaafaaaafaaaafaaaafaaaafaaaafaaaafaaaafaaaafaaaafaaaafaaaafaaaafaaaafaaaafaaaafaaaafaaaafaaaafaaaafaaaafaaaafaaaafaaaafaaaafaaaafaaaafaaaafaaaafaaaafaaaafaaaafaaaafaaaafaaaafaaaafaaaafaaaafaaaafaaaafaaaafaaaafaaaafaaaafaaaafaaaafaaaafaaaafaaaafaaaafaaaafaaaafaaaafaaaafaaaafaaaafaaaafaaaafaaaafaaaafaaaafaaaafaaaafaaaafaaaafaaaafaaaafaaaafaaaafaaaafaaaafaaaafaaaafaaaafaaaafaaaafaaaafaaaafaaaafaaaafaaaafaaaafaaaafaaaafaaaafaaaafaaaafaaaafaaaafaaaafaaaafaaaafaaaafaaaafaaaafaaaafaaaafaaaafaaaafaaaafaaaafaaaafaaaafaaaafaaaafaaaafaaaafaaaafaaaafaaaafaaaafaaaafaaaafaaaafaaaafaaaafaaaafaaaafaaaafaaaafaaaafaaaafaaaafaaaafaaaafaaaafaaaafaaaafaaaafaaaafaaaafaaaafaaaafaaaafaaaafaaaafaaaafaaaafaaaafaaaafaaaafaaaafaaaafaaaafaaaafaaaafaaaafaaaafaaaafaaaafaaaafaaaafaaaafaaaafaaaafaaaafaaaafaaaafaaaafaaaafaaaafaaaafaaaafaaaafaaaafaaaafaaaafaaaafaaaafaaaafaaaafaaaafaaaafaaaafaaaafaaaafaaaafaaaafaaaafaaaafaaaafaaaafaaaafaaaafaaaafaaaafaaaafaaaafaaaafaaaafaaaafaaaafaaaafaaaafaaaafaaaafaaaafaaaafaaaafaaaafaaaafaaaafaaaafaaaafaaaafaaaafaaaafaaaafaaaafaaaafaaaafaaaafaaaafaaaafaaaafaaaafaaaafaaaafaaaafaaaafaaaafaaaafaaaafaaaafaaaafaaaafaaaafaaaafaaaafaaaafaaaafaaaafaaaafaaaafaaaafaaaafaaaafaaaafaaaafaaaafaaaafaaaafaaaafaaaafaaaafaaaafaaaafaaaafaaaafaaaafaaaafaaaafaaaafaaaafaaaafaaaafaaaafaaaafaaaafaaaafaaaafaaaafaaaafaaaafaaaafaaaafaaaafaaaafaaaafaaaafaaaafaaaafaaaafaaaafaaaafaaaafaaaafaaaafaaaafaaaafaaaafaaaafaaaafaaaafaaaafaaaafaaaafaaaafaaaafaaaafaaaafaaaafaaaafaaaafaaaafaaaafaaaafaaaafaaaafaaaafaaaafaaaafaaaafaaaafaaaafaaaafaaaafaaaafaaaafaaaafaaaafaaaafaaaafaaaafaaaafaaaafaaaafaaaafaaaafaaaafaaaafaaaafaaaafaaaafaaaafaaaafaaaafaaaafaaaafaaaafaaaafaaaafaaaafaaaafaaaafaaaafaaaafaaaafaaaafaaaafaaaafaaaafaaaafaaaafaaaafaaaafaaaafaaaafaaaafaaaafaaaafaaaafaaaafaaaafaaaafaaaafaaaafaaaafaaaafaaaafaaaafaaaafaaaafaaaafaaaafaaaafaaaafaaaafaaaafaaaafaaaafaaaafaaaafaaaafaaaafaaaafaaaafaaaafaaaafaaaafaaaafaaaafaaaafaaaafaaaafaaaafaaaafaaaafaaaafaaaafaaaafaaaafaaaafaaaafaaaafaaaafaaaafaaaafaaaafaaaafaaaafaaaafaaaafaaaafaaaafaaaafaaaafaaaafaaaafaaaafaaaafaaaafaaaafaaaafaaaafaaaafaaaafaaaafaaaafaaaafaaaafaaaafaaaafaaaafaaaafaaaafaaaafaaaafaaaafaaaafaaaafaaaafaaaafaaaafaaaafaaaafaaaafaaaafaaaafaaaafaaaafaaaafaaaafaaaafaaaafaaaafaaaafaaaafaaaafaaaafaaaafaaaafaaaafaaaafaaaafaaaafaaaafaaaafaaaafaaaafaaaafaaaafaaaafaaaafaaaafaaaafaaaafaaaafaaaafaaaafaaaafaaaafaaaafaaaafaaaafaaaafaaaafaaaafaaaafaaaafaaaafaaaafaaaafaaaafaaaafaaaafaaaafaaaafaaaafaaaafaaaafaaaafaaaafaaaafaaaafaaaafaaaafaaaafaaaafaaaafaaaafaaaafaaaafaaaafaaaafaaaafaaaafaaaafaaaafaaaafaaaafaaaafaaaafaaaafaaaafaaaafaaaafaaaafaaaafaaaafaaaafaaaafaaaafaaaafaaaafaaaafaaaafaaaafaaaafaaaafaaaafaaaafaaaafaaaafaaaafaaaafaaaafaaaafaaaafaaaafaaaafaaaafaaaafaaaafaaaafaaaafaaaafaaaafaaaafaaaafaaaafaaaafaaaafaaaafaaaafaaaafaaaafaaaafaaaafaaaafaaaafaaaafaaaafaaaafaaaafaaaafaaaafaaaafaaaafaaaafaaaafaaaafaaaafaaaafaaaafaaaafaaaafaaaafaaaafaaaafaaaafaaaafaaaafaaaafaaaafaaaafaaaafaaaafaaaafaaaafaaaafaaaafaaaafaaaafaaaafaaaafaaaafaaaafaaaafaaaafaaaafaaaafaaaafaaaafaaaafaaaafaaaafaaaafaaaafaaaafaaaafaaaafaaaafaaaafaaaafaaaafaaaafaaaafaaaafaaaafaaaafaaaafaaaafaaaafaaaafaaaafaaaafaaaafaaaafaaaafaaaafaaaafaaaafaaaafaaaafaaaafaaaafaaaafaaaafaaaafaaaafaaaafaaaafaaaafaaaafaaaafaaaafaaaafaaaafaaaafaaaafaaaafaaaafaaaafaaaafaaaafaaaafaaaafaaaafaaaafaaaafaaaafaaaafaaaafaaaafaaaafaaaafaaaafaaaafaaaafaaaafaaaafaaaafaaaafaaaafaaaafaaaafaaaafaaaafaaaafaaaafaaaafaaaafaaaafaaaafaaaafaaaafaaaafaaaafaaaafaaaafaaaafaaaafaaaafaaaafaaaafaaaafaaaafaaaafaaaafaaaafaaaafaaaafaaaafaaaafaaaafaaaafaaaafaaaafaaaafaaaafaaaafaaaafaaaafaaaafaaaafaaaafaaaafaaaafaaaafaaaafaaaafaaaafaaaafaaaafaaaafaaaafaaaafaaaafaaaafaaaafaaaafaaaafaaaafaaaafaaaafaaaafaaaafaaaafaaaafaaaafaaaafaaaafaaaafaaaafaaaafaaaafaaaafaaaafaaaafaaaafaaaafaaaafaaaafaaaafaaaafaaaafaaaafaaaafaaaafaaaafaaaafaaaafaaaafaaaafaaaafaaaafaaaafaaaafaaaafaaaafaaaafaaaafaaaafaaaafaaaafaaaafaaaafaaaafaaaafaaaafaaaafaaaafaaaafaaaafaaaafaaaafaaaafaaaafaaaafaaaafaaaafaaaafaaaafaaaafaaaafaaaafaaaafaaaafaaaafaaaafaaaafaaaafaaaafaaaafaaaafaaaafaaaafaaaafaaaafaaaafaaaafaaaafaaaafaaaafaaaafaaaafaaaafaaaafaaaafaaaafaaaafaaaafaaaafaaaafaaaafaaaafaaaafaaaafaaaafaaaafaaaafaaaafaaaafaaaafaaaafaaaafaaaafaaaafaaaafaaaafaaaafaaaafaaaafaaaafaaaafaaaafaaaafaaaafaaaafaaaafaaaafaaaafaaaafaaaafaaaafaaaafaaaafaaaafaaaafaaaafaaaafaaaafaaaafaaaafaaaafaaaafaaaafaaaafaaaafaaaafaaaafaaaafaaaafaaaafaaaafaaaafaaaafaaaafaaaafaaaafaaaafaaaafaaaafaaaafaaaafaaaafaaaafaaaafaaaafaaaafaaaafaaaafaaaafaaaafaaaafaaaafaaaafaaaafaaaafaaaafaaaafaaaafaaaafaaaafaaaafaaaafaaaafaaaafaaaafaaaafaaaafaaaafaaaafaaaafaaaafaaaafaaaafaaaafaaaafaaaafaaaafaaaafaaaafaaaafaaaafaaaafaaaafaaaafaaaafaaaafaaaafaaaafaaaafaaaafaaaafaaaafaaaafaaaafaaaafaaaafaaaafaaaafaaaafaaaafaaaafaaaafaaaafaaaafaaaafaaaafaaaafaaaafaaaafaaaafaaaafaaaafaaaafaaaafaaaafaaaafaaaafaaaafaaaafaaaafaaaafaaaafaaaafaaaafaaaafaaaafaaaafaaaafaaaafaaaafaaaafaaaafaaaafaaaafaaaafaaaafaaaafaaaafaaaafaaaafaaaafaaaafaaaafaaaafaaaafaaaafaaaafaaaafaaaafaaaafaaaafaaaafaaaafaaaafaaaafaaaafaaaafaaaafaaaafaaaafaaaafaaaafaaaafaaaafaaaafaaaafaaaafaaaafaaaafaaaafaaaafaaaafaaaafaaaafaaaafaaaafaaaafaaaafaaaafaaaafaaaafaaaafaaaafaaaafaaaafaaaafaaaafaaaafaaaafaaaafaaaafaaaafaaaafaaaafaaaafaaaafaaaafaaaafaaaafaaaafaaaafaaaafaaaafaaaafaaaafaaaafaaaafaaaafaaaafaaaafaaaafaaaafaaaafaaaafaaaafaaaafaaaafaaaafaaaafaaaafaaaafaaaafaaaafaaaafaaaafaaaafaaaafaaaafaaaafaaaafaaaafaaaafaaaafaaaafaaaafaaaafaaaafaaaafaaaafaaaafaaaafaaaafaaaafaaaafaaaafaaaafaaaafaaaafaaaafaaaafaaaafaaaafaaaafaaaafaaaafaaaafaaaafaaaafaaaafaaaafaaaafaaaafaaaafaaaafaaaafaaaafaaaafaaaafaaaafaaaafaaaafaaaafaaaafaaaafaaaafaaaafaaaafaaaafaaaafaaaafaaaafaaaafaaaafaaaafaaaafaaaafaaaafaaaafaaaafaaaafaaaafaaaafaaaafaaaafaaaafaaaafaaaafaaaafaaaafaaaafaaaafaaaafaaaafaaaafaaaafaaaafaaaafaaaafaaaafaaaafaaaafaaaafaaaafaaaafaaaafaaaafaaaafaaaafaaaafaaaafaaaafaaaafaaaafaaaafaaaafaaaafaaaafaaaafaaaafaaaafaaaafaaaafaaaafaaaafaaaafaaaafaaaafaaaafaaaafaaaafaaaafaaaafaaaafaaaafaaaafaaaafaaaafaaaafaaaafaaaafaaaafaaaafaaaafaaaafaaaafaaaafaaaafaaaafaaaafaaaafaaaafaaaafaaaafaaaafaaaafaaaafaaaafaaaafaaaafaaaafaaaafaaaafaaaafaaaafaaaafaaaafaaaafaaaafaaaafaaaafaaaafaaaafaaaafaaaafaaaafaaaafaaaafaaaafaaaafaaaafaaaafaaaafaaaafaaaafaaaafaaaafaaaafaaaafaaaafaaaafaaaafaaaafaaaafaaaafaaaafaaaafaaaafaaaafaaaafaaaafaaaafaaaafaaaafaaaafaaaafaaaafaaaafaaaafaaaafaaaafaaaafaaaafaaaafaaaafaaaafaaaafaaaafaaaafaaaafaaaafaaaafaaaafaaaafaaaafaaaafaaaafaaaafaaaafaaaafaaaafaaaafaaaafaaaafaaaafaaaafaaaafaaaafaaaafaaaafaaaafaaaafaaaafaaaafaaaafaaaafaaaafaaaafaaaafaaaafaaaafaaaafaaaafaaaafaaaafaaaafaaaafaaaafaaaafaaaafaaaafaaaafaaaafaaaafaaaafaaaafaaaafaaaafaaaafaaaafaaaafaaaafaaaafaaaafaaaafaaaafaaaafaaaafaaaafaaaafaaaafaaaafaaaafaaaafaaaafaaaafaaaafaaaafaaaafaaaafaaaafaaaafaaaafaaaafaaaafaaaafaaaafaaaafaaaafaaaafaaaafaaaafaaaafaaaafaaaafaaaafaaaafaaaafaaaafaaaafaaaafaaaafaaaafaaaafaaaafaaaafaaaafaaaafaaaafaaaafaaaafaaaafaaaafaaaafaaaafaaaafaaaafaaaafaaaafaaaafaaaafaaaafaaaafaaaafaaaafaaaafaaaafaaaafaaaafaaaafaaaafaaaafaaaafaaaafaaaafaaaafaaaafaaaafaaaafaaaafaaaafaaaafaaaafaaaafaaaafaaaafaaaafaaaafaaaafaaaafaaaafaaaafaaaafaaaafaaaafaaaafaaaafaaaafaaaafaaaafaaaafaaaafaaaafaaaafaaaafaaaafaaaafaaaafaaaafaaaafaaaafaaaafaaaafaaaafaaaafaaaafaaaafaaaafaaaafaaaafaaaafaaaafaaaafaaaafaaaafaaaafaaaafaaaafaaaafaaaafaaaafaaaafaaaafaaaafaaaafaaaafaaaafaaaafaaaafaaaafaaaafaaaafaaaafaaaafaaaafaaaafaaaafaaaafaaaafaaaafaaaafaaaafaaaafaaaafaaaafaaaafaaaafaaaafaaaafaaaafaaaafaaaafaaaafaaaafaaaafaaaafaaaafaaaafaaaafaaaafaaaafaaaafaaaafaaaafaaaafaaaafaaaafaaaafaaaafaaaafaaaafaaaafaaaafaaaafaaaafaaaafaaaafaaaafaaaafaaaafaaaafaaaafaaaafaaaafaaaafaaaafaaaafaaaafaaaafaaaafaaaafaaaafaaaafaaaafaaaafaaaafaaaafaaaafaaaafaaaafaaaafaaaafaaaafaaaafaaaafaaaafaaaafaaaafaaaafaaaafaaaafaaaafaaaafaaaafaaaafaaaafaaaafaaaafaaaafaaaafaaaafaaaafaaaafaaaafaaaafaaaafaaaafaaaafaaaafaaaafaaaafaaaafaaaafaaaafaaaafaaaafaaaafaaaafaaaafaaaafaaaafaaaafaaaafaaaafaaaafaaaafaaaafaaaafaaaafaaaafaaaafaaaafaaaafaaaafaaaafaaaafaaaafaaaafaaaafaaaafaaaafaaaafaaaafaaaafaaaafaaaafaaaafaaaafaaaafaaaafaaaafaaaafaaaafaaaafaaaafaaaafaaaafaaaafaaaafaaaafaaaafaaaafaaaafaaaafaaaafaaaafaaaafaaaafaaaafaaaafaaaafaaaafaaaafaaaafaaaafaaaafaaaafaaaafaaaafaaaafaaaafaaaafaaaafaaaafaaaafaaaafaaaafaaaafaaaafaaaafaaaafaaaafaaaafaaaafaaaafaaaafaaaafaaaafaaaafaaaafaaaafaaaafaaaafaaaafaaaafaaaafaaaafaaaafaaaafaaaafaaaafaaaafaaaafaaaafaaaafaaaafaaaafaaaafaaaafaaaafaaaafaaaafaaaafaaaafaaaafaaaafaaaafaaaafaaaafaaaafaaaafaaaafaaaafaaaafaaaafaaaafaaaafaaaafaaaafaaaafaaaafaaaafaaaafaaaafaaaafaaaafaaaafaaaafaaaafaaaafaaaafaaaafaaaafaaaafaaaafaaaafaaaafaaaafaaaafaaaafaaaafaaaafaaaafaaaafaaaafaaaafaaaafaaaafaaaafaaaafaaaafaaaafaaaafaaaafaaaafaaaafaaaafaaaafaaaafaaaafaaaafaaaafaaaafaaaafaaaafaaaafaaaafaaaafaaaafaaaafaaaafaaaafaaaafaaaafaaaafaaaafaaaafaaaafaaaafaaaafaaaafaaaafaaaafaaaafaaaafaaaafaaaafaaaafaaaafaaaafaaaafaaaafaaaafaaaafaaaafaaaafaaaafaaaafaaaafaaaafaaaafaaaafaaaafaaaafaaaafaaaafaaaafaaaafaaaafaaaafaaaafaaaafaaaafaaaafaaaafaaaafaaaafaaaafaaaafaaaafaaaafaaaafaaaafaaaafaaaafaaaafaaaafaaaafaaaafaaaafaaaafaaaafaaaafaaaafaaaafaaaafaaaafaaaafaaaafaaaafaaaafaaaafaaaafaaaafaaaafaaaafaaaafaaaafaaaafaaaafaaaafaaaafaaaafaaaafaaaafaaaafaaaafaaaafaaaafaaaafaaaafaaaafaaaafaaaafaaaafaaaafaaaafaaaafaaaafaaaafaaaafaaaafaaaafaaaafaaaafaaaafaaaafaaaafaaaafaaaafaaaafaaaafaaaafaaaafaaaafaaaafaaaafaaaafaaaafaaaafaaaafaaaafaaaafaaaafaaaafaaaafaaaafaaaafaaaafaaaafaaaafaaaafaaaafaaaafaaaafaaaafaaaafaaaafaaaafaaaafaaaafaaaafaaaafaaaafaaaafaaaafaaaafaaaafaaaafaaaafaaaafaaaafaaaafaaaafaaaafaaaafaaaafaaaafaaaafaaaafaaaafaaaafaaaafaaaafaaaafaaaafaaaafaaaafaaaafaaaafaaaafaaaafaaaafaaaafaaaafaaaafaaaafaaaafaaaafaaaafaaaafaaaafaaaafaaaafaaaafaaaafaaaafaaaafaaaafaaaafaaaafaaaafaaaafaaaafaaaafaaaafaaaafaaaafaaaafaaaafaaaafaaaafaaaafaaaafaaaafaaaafaaaafaaaafaaaafaaaafaaaafaaaafaaaafaaaafaaaafaaaafaaaafaaaafaaaafaaaafaaaafaaaafaaaafaaaafaaaafaaaafaaaafaaaafaaaafaaaafaaaafaaaafaaaafaaaafaaaafaaaafaaaafaaaafaaaafaaaafaaaafaaaafaaaafaaaafaaaafaaaafaaaafaaaafaaaafaaaafaaaafaaaafaaaafaaaafaaaafaaaafaaaafaaaafaaaafaaaafaaaafaaaafaaaafaaaafaaaafaaaafaaaafaaaafaaaafaaaafaaaafaaaafaaaafaaaafaaaafaaaafaaaafaaaafaaaafaaaafaaaafaaaafaaaafaaaafaaaafaaaafaaaafaaaafaaaafaaaafaaaafaaaafaaaafaaaafaaaafaaaafaaaafaaaafaaaafaaaafaaaafaaaafaaaafaaaafaaaafaaaafaaaafaaaafaaaafaaaafaaaafaaaafaaaafaaaafaaaafaaaafaaaafaaaafaaaafaaaafaaaafaaaafaaaafaaaafaaaafaaaafaaaafaaaafaaaafaaaafaaaafaaaafaaaafaaaafaaaafaaaafaaaafaaaafaaaafaaaafaaaafaaaafaaaafaaaafaaaafaaaafaaaafaaaafaaaafaaaafaaaafaaaafaaaafaaaafaaaafaaaafaaaafaaaafaaaafaaaafaaaafaaaafaaaafaaaafaaaafaaaafaaaafaaaafaaaafaaaafaaaafaaaafaaaafaaaafaaaafaaaafaaaafaaaafaaaafaaaafaaaafaaaafaaaafaaaafaaaafaaaafaaaafaaaafaaaafaaaafaaaafaaaafaaaafaaaafaaaafaaaafaaaafaaaafaaaafaaaafaaaafaaaafaaaafaaaafaaaafaaaafaaaafaaaafaaaafaaaafaaaafaaaafaaaafaaaafaaaafaaaafaaaafaaaafaaaafaaaafaaaafaaaafaaaafaaaafaaaafaaaafaaaafaaaafaaaafaaaafaaaafaaaafaaaafaaaafaaaafaaaafaaaafaaaafaaaafaaaafaaaafaaaafaaaafaaaafaaaafaaaafaaaafaaaafaaaafaaaafaaaafaaaafaaaafaaaafaaaafaaaafaaaafaaaafaaaafaaaafaaaafaaaafaaaafaaaafaaaafaaaafaaaafaaaafaaaafaaaafaaaafaaaafaaaafaaaafaaaafaaaafaaaafaaaafaaaafaaaafaaaafaaaafaaaafaaaafaaaafaaaafaaaafaaaafaaaafaaaafaaaafaaaafaaaafaaaafaaaafaaaafaaaafaaaafaaaafaaaafaaaafaaaafaaaafaaaafaaaafaaaafaaaafaaaafaaaafaaaafaaaafaaaafaaaafaaaafaaaafaaaafaaaafaaaafaaaafaaaafaaaafaaaafaaaafaaaafaaaafaaaafaaaafaaaafaaaafaaaafaaaafaaaafaaaafaaaafaaaafaaaafaaaafaaaafaaaafaaaafaaaafaaaafaaaafaaaafaaaafaaaafaaaafaaaafaaaafaaaafaaaafaaaafaaaafaaaafaaaafaaaafaaaafaaaafaaaafaaaafaaaafaaaafaaaafaaaafaaaafaaaafaaaafaaaafaaaafaaaafaaaafaaaafaaaafaaaafaaaafaaaafaaaafaaaafaaaafaaaafaaaafaaaafaaaafaaaafaaaafaaaafaaaafaaaafaaaafaaaafaaaafaaaafaaaafaaaafaaaafaaaafaaaafaaaafaaaafaaaafaaaafaaaafaaaafaaaafaaaafaaaafaaaafaaaafaaaafaaaafaaaafaaaafaaaafaaaafaaaafaaaafaaaafaaaafaaaafaaaafaaaafaaaafaaaafaaaafaaaafaaaafaaaafaaaafaaaafaaaafaaaafaaaafaaaafaaaafaaaafaaaafaaaafaaaafaaaafaaaafaaaafaaaafaaaafaaaafaaaafaaaafaaaafaaaafaaaafaaaafaaaafaaaafaaaafaaaafaaaafaaaafaaaafaaaafaaaafaaaafaaaafaaaafaaaafaaaafaaaafaaaafaaaafaaaafaaaafaaaafaaaafaaaafaaaafaaaafaaaafaaaafaaaafaaaafaaaafaaaafaaaafaaaafaaaafaaaafaaaafaaaafaaaafaaaafaaaafaaaafaaaafaaaafaaaafaaaafaaaafaaaafaaaafaaaafaaaafaaaafaaaafaaaafaaaafaaaafaaaafaaaafaaaafaaaafaaaafaaaafaaaafaaaafaaaafaaaafaaaafaaaafaaaafaaaafaaaafaaaafaaaafaaaafaaaafaaaafaaaafaaaafaaaafaaaafaaaafaaaafaaaafaaaafaaaafaaaafaaaafaaaafaaaafaaaafaaaafaaaafaaaafaaaafaaaafaaaafaaaafaaaafaaaafaaaafaaaafaaaafaaaafaaaafaaaafaaaafaaaafaaaafaaaafaaaafaaaafaaaafaaaafaaaafaaaafaaaafaaaafaaaafaaaafaaaafaaaafaaaafaaaafaaaafaaaafaaaafaaaafaaaafaaaafaaaafaaaafaaaafaaaafaaaafaaaafaaaafaaaafaaaafaaaafaaaafaaaafaaaafaaaafaaaafaaaafaaaafaaaafaaaafaaaafaaaafaaaafaaaafaaaafaaaafaaaafaaaafaaaafaaaafaaaafaaaafaaaafaaaafaaaafaaaafaaaafaaaafaaaafaaaafaaaafaaaafaaaafaaaafaaaafaaaafaaaafaaaafaaaafaaaafaaaafaaaafaaaafaaaafaaaafaaaafaaaafaaaafaaaafaaaafaaaafaaaafaaaafaaaafaaaafaaaafaaaafaaaafaaaafaaaafaaaafaaaafaaaafaaaafaaaafaaaafaaaafaaaafaaaafaaaafaaaafaaaafaaaafaaaafaaaafaaaafaaaafaaaafaaaafaaaafaaaafaaaafaaaafaaaafaaaafaaaafaaaafaaaafaaaafaaaafaaaafaaaafaaaafaaaafaaaafaaaafaaaafaaaafaaaafaaaafaaaafaaaafaaaafaaaafaaaafaaaafaaaafaaaafaaaafaaaafaaaafaaaafaaaafaaaafaaaafaaaafaaaafaaaafaaaafaaaafaaaafaaaafaaaafaaaafaaaafaaaafaaaafaaaafaaaafaaaafaaaafaaaafaaaafaaaafaaaafaaaafaaaafaaaafaaaafaaaafaaaafaaaafaaaafaaaafaaaafaaaafaaaafaaaafaaaafaaaafaaaafaaaafaaaafaaaafaaaafaaaafaaaafaaaafaaaafaaaafaaaafaaaafaaaafaaaafaaaafaaaafaaaafaaaafaaaafaaaafaaaafaaaafaaaafaaaafaaaafaaaafaaaafaaaafaaaafaaaafaaaafaaaafaaaafaaaafaaaafaaaafaaaafaaaafaaaafaaaafaaaafaaaafaaaafaaaafaaaafaaaafaaaafaaaafaaaafaaaafaaaafaaaafaaaafaaaafaaaafaaaafaaaafaaaafaaaafaaaafaaaafaaaafaaaafaaaafaaaafaaaafaaaafaaaafaaaafaaaafaaaafaaaafaaaafaaaafaaaafaaaafaaaafaaaafaaaafaaaafaaaafaaaafaaaafaaaafaaaafaaaafaaaafaaaafaaaafaaaafaaaafaaaafaaaafaaaafaaaafaaaafaaaafaaaafaaaafaaaafaaaafaaaafaaaafaaaafaaaafaaaafaaaafaaaafaaaafaaaafaaaafaaaafaaaafaaaafaaaafaaaafaaaafaaaafaaaafaaaafaaaafaaaafaaaafaaaafaaaafaaaafaaaafaaaafaaaafaaaafaaaafaaaafaaaafaaaafaaaafaaaafaaaafaaaafaaaafaaaafaaaafaaaafaaaafaaaafaaaafaaaafaaaafaaaafaaaafaaaafaaaafaaaafaaaafaaaafaaaafaaaafaaaafaaaafaaaafaaaafaaaafaaaafaaaafaaaafaaaafaaaafaaaafaaaafaaaafaaaafaaaafaaaafaaaafaaaafaaaafaaaafaaaafaaaafaaaafaaaafaaaafaaaafaaaafaaaafaaaafaaaafaaaafaaaafaaaafaaaafaaaafaaaafaaaafaaaafaaaafaaaafaaaafaaaafaaaafaaaafaaaafaaaafaaaafaaaafaaaafaaaafaaaafaaaafaaaafaaaafaaaafaaaafaaaafaaaafaaaafaaaafaaaafaaaafaaaafaaaafaaaafaaaafaaaafaaaafaaaafaaaafaaaafaaaafaaaafaaaafaaaafaaaafaaaafaaaafaaaafaaaafaaaafaaaafaaaafaaaafaaaafaaaafaaaafaaaafaaaafaaaafaaaafaaaafaaaafaaaafaaaafaaaafaaaafaaaafaaaafaaaafaaaafaaaafaaaafaaaafaaaafaaaafaaaafaaaafaaaafaaaafaaaafaaaafaaaafaaaafaaaafaaaafaaaafaaaafaaaafaaaafaaaafaaaafaaaafaaaafaaaafaaaafaaaafaaaafaaaafaaaafaaaafaaaafaaaafaaaafaaaafaaaafaaaafaaaafaaaafaaaafaaaafaaaafaaaafaaaafaaaafaaaafaaaafaaaafaaaafaaaafaaaafaaaafaaaafaaaafaaaafaaaafaaaafaaaafaaaafaaaafaaaafaaaafaaaafaaaafaaaafaaaafaaaafaaaafaaaafaaaafaaaafaaaafaaaafaaaafaaaafaaaafaaaafaaaafaaaafaaaafaaaafaaaafaaaafaaaafaaaafaaaafaaaafaaaafaaaafaaaafaaaafaaaafaaaafaaaafaaaafaaaafaaaafaaaafaaaafaaaafaaaafaaaafaaaafaaaafaaaafaaaafaaaafaaaafaaaafaaaafaaaafaaaafaaaafaaaafaaaafaaaafaaaafaaaafaaaafaaaafaaaafaaaafaaaafaaaafaaaafaaaafaaaafaaaafaaaafaaaafaaaafaaaafaaaafaaaafaaaafaaaafaaaafaaaafaaaafaaaafaaaafaaaafaaaafaaaafaaaafaaaafaaaafaaaafaaaafaaaafaaaafaaaafaaaafaaaafaaaafaaaafaaaafaaaafaaaafaaaafaaaafaaaafaaaafaaaafaaaafaaaafaaaafaaaafaaaafaaaafaaaafaaaafaaaafaaaafaaaafaaaafaaaafaaaafaaaafaaaafaaaafaaaafaaaafaaaafaaaafaaaafaaaafaaaafaaaafaaaafaaaafaaaafaaaafaaaafaaaafaaaafaaaafaaaafaaaafaaaafaaaafaaaafaaaafaaaafaaaafaaaafaaaafaaaafaaaafaaaafaaaafaaaafaaaafaaaafaaaafaaaafaaaafaaaafaaaafaaaafaaaafaaaafaaaafaaaafaaaafaaaafaaaafaaaafaaaafaaaafaaaafaaaafaaaafaaaafaaaafaaaafaaaafaaaafaaaafaaaafaaaafaaaafaaaafaaaafaaaafaaaafaaaafaaaafaaaafaaaafaaaafaaaafaaaafaaaafaaaafaaaafaaaafaaaafaaaafaaaafaaaafaaaafaaaafaaaafaaaafaaaafaaaafaaaafaaaafaaaafaaaafaaaafaaaafaaaafaaaafaaaafaaaafaaaafaaaafaaaafaaaafaaaafaaaafaaaafaaaafaaaafaaaafaaaafaaaafaaaafaaaafaaaafaaaafaaaafaaaafaaaafaaaafaaaafaaaafaaaafaaaafaaaafaaaafaaaafaaaafaaaafaaaafaaaafaaaafaaaafaaaafaaaafaaaafaaaafaaaafaaaafaaaafaaaafaaaafaaaafaaaafaaaafaaaafaaaafaaaafaaaafaaaafaaaafaaaafaaaafaaaafaaaafaaaafaaaafaaaafaaaafaaaafaaaafaaaafaaaafaaaafaaaafaaaafaaaafaaaafaaaafaaaafaaaafaaaafaaaafaaaafaaaafaaaafaaaafaaaafaaaafaaaafaaaafaaaafaaaafaaaafaaaafaaaafaaaafaaaafaaaafaaaafaaaafaaaafaaaafaaaafaaaafaaaafaaaafaaaafaaaafaaaafaaaafaaaafaaaafaaaafaaaafaaaafaaaafaaaafaaaafaaaafaaaafaaaafaaaafaaaafaaaafaaaafaaaafaaaafaaaafaaaafaaaafaaaafaaaafaaaafaaaafaaaafaaaafaaaafaaaafaaaafaaaafaaaafaaaafaaaafaaaafaaaafaaaafaaaafaaaafaaaafaaaafaaaafaaaafaaaafaaaafaaaafaaaafaaaafaaaafaaaafaaaafaaaafaaaafaaaafaaaafaaaafaaaafaaaafaaaafaaaafaaaafaaaafaaaafaaaafaaaafaaaafaaaafaaaafaaaafaaaafaaaafaaaafaaaafaaaafaaaafaaaafaaaafaaaafaaaafaaaafaaaafaaaafaaaafaaaafaaaafaaaafaaaafaaaafaaaafaaaafaaaafaaaafaaaafaaaafaaaafaaaafaaaafaaaafaaaafaaaafaaaafaaaafaaaafaaaafaaaafaaaafaaaafaaaafaaaafaaaafaaaafaaaafaaaafaaaafaaaafaaaafaaaafaaaafaaaafaaaafaaaafaaaafaaaafaaaafaaaafaaaafaaaafaaaafaaaafaaaafaaaafaaaafaaaafaaaafaaaafaaaafaaaafaaaafaaaafaaaafaaaafaaaafaaaafaaaafaaaafaaaafaaaafaaaafaaaafaaaafaaaafaaaafaaaafaaaafaaaafaaaafaaaafaaaafaaaafaaaafaaaafaaaafaaaafaaaafaaaafaaaafaaaafaaaafaaaafaaaafaaaafaaaafaaaafaaaafaaaafaaaafaaaafaaaafaaaafaaaafaaaafaaaafaaaafaaaafaaaafaaaafaaaafaaaafaaaafaaaafaaaafaaaafaaaafaaaafaaaafaaaafaaaafaaaafaaaafaaaafaaaafaaaafaaaafaaaafaaaafaaaafaaaafaaaafaaaafaaaafaaaafaaaafaaaafaaaafaaaafaaaafaaaafaaaafaaaafaaaafaaaafaaaafaaaafaaaafaaaafaaaafaaaafaaaafaaaafaaaafaaaafaaaafaaaafaaaafaaaafaaaafaaaafaaaafaaaafaaaafaaaafaaaafaaaafaaaafaaaafaaaafaaaafaaaafaaaafaaaafaaaafaaaafaaaafaaaafaaaafaaaafaaaafaaaafaaaafaaaafaaaafaaaafaaaafaaaafaaaafaaaafaaaafaaaafaaaafaaaafaaaafaaaafaaaafaaaafaaaafaaaafaaaafaaaafaaaafaaaafaaaafaaaafaaaafaaaafaaaafaaaafaaaafaaaafaaaafaaaafaaaafaaaafaaaafaaaafaaaafaaaafaaaafaaaafaaaafaaaafaaaafaaaafaaaafaaaafaaaafaaaafaaaafaaaafaaaafaaaafaaaafaaaafaaaafaaaafaaaafaaaafaaaafaaaafaaaafaaaafaaaafaaaafaaaafaaaafaaaafaaaafaaaafaaaafaaaafaaaafaaaafaaaafaaaafaaaafaaaafaaaafaaaafaaaafaaaafaaaafaaaafaaaafaaaafaaaafaaaafaaaafaaaafaaaafaaaafaaaafaaaafaaaafaaaafaaaafaaaafaaaafaaaafaaaafaaaafaaaafaaaafaaaafaaaafaaaafaaaafaaaafaaaafaaaafaaaafaaaafaaaafaaaafaaaafaaaafaaaafaaaafaaaafaaaafaaaafaaaafaaaafaaaafaaaafaaaafaaaafaaaafaaaafaaaafaaaafaaaafaaaafaaaafaaaafaaaafaaaafaaaafaaaafaaaafaaaafaaaafaaaafaaaafaaaafaaaafaaaafaaaafaaaafaaaafaaaafaaaafaaaafaaaafaaaafaaaafaaaafaaaafaaaafaaaafaaaafaaaafaaaafaaaafaaaafaaaafaaaafaaaafaaaafaaaafaaaafaaaafaaaafaaaafaaaafaaaafaaaafaaaafaaaafaaaafaaaafaaaafaaaafaaaafaaaafaaaafaaaafaaaafaaaafaaaafaaaafaaaafaaaafaaaafaaaafaaaafaaaafaaaafaaaafaaaafaaaafaaaafaaaafaaaafaaaafaaaafaaaafaaaafaaaafaaaafaaaafaaaafaaaafaaaafaaaafaaaafaaaafaaaafaaaafaaaafaaaafaaaafaaaafaaaafaaaafaaaafaaaafaaaafaaaafaaaafaaaafaaaafaaaafaaaafaaaafaaaafaaaafaaaafaaaafaaaafaaaafaaaafaaaafaaaafaaaafaaaafaaaafaaaafaaaafaaaafaaaafaaaafaaaafaaaafaaaafaaaafaaaafaaaafaaaafaaaafaaaafaaaafaaaafaaaafaaaafaaaafaaaafaaaafaaaafaaaafaaaafaaaafaaaafaaaafaaaafaaaafaaaafaaaafaaaafaaaafaaaafaaaafaaaafaaaafaaaafaaaafaaaafaaaafaaaafaaaafaaaafaaaafaaaafaaaafaaaafaaaafaaaafaaaafaaaafaaaafaaaafaaaafaaaafaaaafaaaafaaaafaaaafaaaafaaaafaaaafaaaafaaaafaaaafaaaafaaaafaaaafaaaafaaaafaaaafaaaafaaaafaaaafaaaafaaaafaaaafaaaafaaaafaaaafaaaafaaaafaaaafaaaafaaaafaaaafaaaafaaaafaaaafaaaafaaaafaaaafaaaafaaaafaaaafaaaafaaaafaaaafaaaafaaaafaaaafaaaafaaaafaaaafaaaafaaaafaaaafaaaafaaaafaaaafaaaafaaaafaaaafaaaafaaaafaaaafaaaafaaaafaaaafaaaafaaaafaaaafaaaafaaaafaaaafaaaafaaaafaaaafaaaafaaaafaaaafaaaafaaaafaaaafaaaafaaaafaaaafaaaafaaaafaaaafaaaafaaaafaaaafaaaafaaaafaaaafaaaafaaaafaaaafaaaafaaaafaaaafaaaafaaaafaaaafaaaafaaaafaaaafaaaafaaaafaaaafaaaafaaaafaaaafaaaafaaaafaaaafaaaafaaaafaaaafaaaafaaaafaaaafaaaafaaaafaaaafaaaafaaaafaaaafaaaafaaaafaaaafaaaafaaaafaaaafaaaafaaaafaaaafaaaafaaaafaaaafaaaafaaaafaaaafaaaafaaaafaaaafaaaafaaaafaaaafaaaafaaaafaaaafaaaafaaaafaaaafaaaafaaaafaaaafaaaafaaaafaaaafaaaafaaaafaaaafaaaafaaaafaaaafaaaafaaaafaaaafaaaafaaaafaaaafaaaafaaaafaaaafaaaafaaaafaaaafaaaafaaaafaaaafaaaafaaaafaaaafaaaafaaaafaaaafaaaafaaaafaaaafaaaafaaaafaaaafaaaafaaaafaaaafaaaafaaaafaaaafaaaafaaaafaaaafaaaafaaaafaaaafaaaafaaaafaaaafaaaafaaaafaaaafaaaafaaaafaaaafaaaafaaaafaaaafaaaafaaaafaaaafaaaafaaaafaaaafaaaafaaaafaaaafaaaafaaaafaaaafaaaafaaaafaaaafaaaafaaaafaaaafaaaafaaaafaaaafaaaafaaaafaaaafaaaafaaaafaaaafaaaafaaaafaaaafaaaafaaaafaaaafaaaafaaaafaaaafaaaafaaaafaaaafaaaafaaaafaaaafaaaafaaaafaaaafaaaafaaaafaaaafaaaafaaaafaaaafaaaafaaaafaaaafaaaafaaaafaaaafaaaafaaaafaaaafaaaafaaaafaaaafaaaafaaaafaaaafaaaafaaaafaaaafaaaafaaaafaaaafaaaafaaaafaaaafaaaafaaaafaaaafaaaafaaaafaaaafaaaafaaaafaaaafaaaafaaaafaaaafaaaafaaaafaaaafaaaafaaaafaaaafaaaafaaaafaaaafaaaafaaaafaaaafaaaafaaaafaaaafaaaafaaaafaaaafaaaafaaaafaaaafaaaafaaaafaaaafaaaafaaaafaaaafaaaafaaaafaaaafaaaafaaaafaaaafaaaafaaaafaaaafaaaafaaaafaaaafaaaafaaaafaaaafaaaafaaaafaaaafaaaafaaaafaaaafaaaafaaaafaaaafaaaafaaaafaaaafaaaafaaaafaaaafaaaafaaaafaaaafaaaafaaaafaaaafaaaafaaaafaaaafaaaafaaaafaaaafaaaafaaaafaaaafaaaafaaaafaaaafaaaafaaaafaaaafaaaafaaaafaaaafaaaafaaaafaaaafaaaafaaaafaaaafaaaafaaaafaaaafaaaafaaaafaaaafaaaafaaaafaaaafaaaafaaaafaaaafaaaafaaaafaaaafaaaafaaaafaaaafaaaafaaaafaaaafaaaafaaaafaaaafaaaafaaaafaaaafaaaafaaaafaaaafaaaafaaaafaaaafaaaafaaaafaaaafaaaafaaaafaaaafaaaafaaaafaaaafaaaafaaaafaaaafaaaafaaaafaaaafaaaafaaaafaaaafaaaafaaaafaaaafaaaafaaaafaaaafaaaafaaaafaaaafaaaafaaaafaaaafaaaafaaaafaaaafaaaafaaaafaaaafaaaafaaaafaaaafaaaafaaaafaaaafaaaafaaaafaaaafaaaafaaaafaaaafaaaafaaaafaaaafaaaafaaaafaaaafaaaafaaaafaaaafaaaafaaaafaaaafaaaafaaaafaaaafaaaafaaaafaaaafaaaafaaaafaaaafaaaafaaaafaaaafaaaafaaaafaaaafaaaafaaaafaaaafaaaafaaaafaaaafaaaafaaaafaaaafaaaafaaaafaaaafaaaafaaaafaaaafaaaafaaaafaaaafaaaafaaaafaaaafaaaafaaaafaaaafaaaafaaaafaaaafaaaafaaaafaaaafaaaafaaaafaaaafaaaafaaaafaaaafaaaafaaaafaaaafaaaafaaaafaaaafaaaafaaaafaaaafaaaafaaaafaaaafaaaafaaaafaaaafaaaafaaaafaaaafaaaafaaaafaaaafaaaafaaaafaaaafaaaafaaaafaaaafaaaafaaaafaaaafaaaafaaaafaaaafaaaafaaaafaaaafaaaafaaaafaaaafaaaafaaaafaaaafaaaafaaaafaaaafaaaafaaaafaaaafaaaafaaaafaaaafaaaafaaaafaaaafaaaafaaaafaaaafaaaafaaaafaaaafaaaafaaaafaaaafaaaafaaaafaaaafaaaafaaaafaaaafaaaafaaaafaaaafaaaafaaaafaaaafaaaafaaaafaaaafaaaafaaaafaaaafaaaafaaaafaaaafaaaafaaaafaaaafaaaafaaaafaaaafaaaafaaaafaaaafaaaafaaaafaaaafaaaafaaaafaaaafaaaafaaaafaaaafaaaafaaaafaaaafaaaafaaaafaaaafaaaafaaaafaaaafaaaafaaaafaaaafaaaafaaaafaaaafaaaafaaaafaaaafaaaafaaaafaaaafaaaafaaaafaaaafaaaafaaaafaaaafaaaafaaaafaaaafaaaafaaaafaaaafaaaafaaaafaaaafaaaafaaaafaaaafaaaafaaaafaaaafaaaafaaaafaaaafaaaafaaaafaaaafaaaafaaaafaaaafaaaafaaaafaaaafaaaafaaaafaaaafaaaafaaaafaaaafaaaafaaaafaaaafaaaafaaaafaaaafaaaafaaaafaaaafaaaafaaaafaaaafaaaafaaaafaaaafaaaafaaaafaaaafaaaafaaaafaaaafaaaafaaaafaaaafaaaafaaaafaaaafaaaafaaaafaaaafaaaafaaaafaaaafaaaafaaaafaaaafaaaafaaaafaaaafaaaafaaaafaaaafaaaafaaaafaaaafaaaafaaaafaaaafaaaafaaaafaaaafaaaafaaaafaaaafaaaafaaaafaaaafaaaafaaaafaaaafaaaafaaaafaaaafaaaafaaaafaaaafaaaafaaaafaaaafaaaafaaaafaaaafaaaafaaaafaaaafaaaafaaaafaaaafaaaafaaaafaaaafaaaafaaaafaaaafaaaafaaaafaaaafaaaafaaaafaaaafaaaafaaaafaaaafaaaafaaaafaaaafaaaafaaaafaaaafaaaafaaaafaaaafaaaafaaaafaaaafaaaafaaaafaaaafaaaafaaaafaaaafaaaafaaaafaaaafaaaafaaaafaaaafaaaafaaaafaaaafaaaafaaaafaaaafaaaafaaaafaaaafaaaafaaaafaaaafaaaafaaaafaaaafaaaafaaaafaaaafaaaafaaaafaaaafaaaafaaaafaaaafaaaafaaaafaaaafaaaafaaaafaaaafaaaafaaaafaaaafaaaafaaaafaaaafaaaafaaaafaaaafaaaafaaaafaaaafaaaafaaaafaaaafaaaafaaaafaaaafaaaafaaaafaaaafaaaafaaaafaaaafaaaafaaaafaaaafaaaafaaaafaaaafaaaafaaaafaaaafaaaafaaaafaaaafaaaafaaaafaaaafaaaafaaaafaaaafaaaafaaaafaaaafaaaafaaaafaaaafaaaafaaaafaaaafaaaafaaaafaaaafaaaafaaaafaaaafaaaafaaaafaaaafaaaafaaaafaaaafaaaafaaaafaaaafaaaafaaaafaaaafaaaafaaaafaaaafaaaafaaaafaaaafaaaafaaaafaaaafaaaafaaaafaaaafaaaafaaaafaaaafaaaafaaaafaaaafaaaafaaaafaaaafaaaafaaaafaaaafaaaafaaaafaaaafaaaafaaaafaaaafaaaafaaaafaaaafaaaafaaaafaaaafaaaafaaaafaaaafaaaafaaaafaaaafaaaafaaaafaaaafaaaafaaaafaaaafaaaafaaaafaaaafaaaafaaaafaaaafaaaafaaaafaaaafaaaafaaaafaaaafaaaafaaaafaaaafaaaafaaaafaaaafaaaafaaaafaaaafaaaafaaaafaaaafaaaafaaaafaaaafaaaafaaaafaaaafaaaafaaaafaaaafaaaafaaaafaaaafaaaafaaaafaaaafaaaafaaaafaaaafaaaafaaaafaaaafaaaafaaaafaaaafaaaafaaaafaaaafaaaafaaaafaaaafaaaafaaaafaaaafaaaafaaaafaaaafaaaafaaaafaaaafaaaafaaaafaaaafaaaafaaaafaaaafaaaafaaaafaaaafaaaafaaaafaaaafaaaafaaaafaaaafaaaafaaaafaaaafaaaafaaaafaaaafaaaafaaaafaaaafaaaafaaaafaaaafaaaafaaaafaaaafaaaafaaaafaaaafaaaafaaaafaaaafaaaafaaaafaaaafaaaafaaaafaaaafaaaafaaaafaaaafaaaafaaaafaaaafaaaafaaaafaaaafaaaafaaaafaaaafaaaafaaaafaaaafaaaafaaaafaaaafaaaafaaaafaaaafaaaafaaaafaaaafaaaafaaaafaaaafaaaafaaaafaaaafaaaafaaaafaaaafaaaafaaaafaaaafaaaafaaaafaaaafaaaafaaaafaaaafaaaafaaaafaaaafaaaafaaaafaaaafaaaafaaaafaaaafaaaafaaaafaaaafaaaafaaaafaaaafaaaafaaaafaaaafaaaafaaaafaaaafaaaafaaaafaaaafaaaafaaaafaaaafaaaafaaaafaaaafaaaafaaaafaaaafaaaafaaaafaaaafaaaafaaaafaaaafaaaafaaaafaaaafaaaafaaaafaaaafaaaafaaaafaaaafaaaafaaaafaaaafaaaafaaaafaaaafaaaafaaaafaaaafaaaafaaaafaaaafaaaafaaaafaaaafaaaafaaaafaaaafaaaafaaaafaaaafaaaafaaaafaaaafaaaafaaaafaaaafaaaafaaaafaaaafaaaafaaaafaaaafaaaafaaaafaaaafaaaafaaaafaaaafaaaafaaaafaaaafaaaafaaaafaaaafaaaafaaaafaaaafaaaafaaaafaaaafaaaafaaaafaaaafaaaafaaaafaaaafaaaafaaaafaaaafaaaafaaaafaaaafaaaafaaaafaaaafaaaafaaaafaaaafaaaafaaaafaaaafaaaafaaaafaaaafaaaafaaaafaaaafaaaafaaaafaaaafaaaafaaaafaaaafaaaafaaaafaaaafaaaafaaaafaaaafaaaafaaaafaaaafaaaafaaaafaaaafaaaafaaaafaaaafaaaafaaaafaaaafaaaafaaaafaaaafaaaafaaaafaaaafaaaafaaaafaaaafaaaafaaaafaaaafaaaafaaaafaaaafaaaafaaaafaaaafaaaafaaaafaaaafaaaafaaaafaaaafaaaafaaaafaaaafaaaafaaaafaaaafaaaafaaaafaaaafaaaafaaaafaaaafaaaafaaaafaaaafaaaafaaaafaaaafaaaafaaaafaaaafaaaafaaaafaaaafaaaafaaaafaaaafaaaafaaaafaaaafaaaafaaaafaaaafaaaafaaaafaaaafaaaafaaaafaaaafaaaafaaaafaaaafaaaafaaaafaaaafaaaafaaaafaaaafaaaafaaaafaaaafaaaafaaaafaaaafaaaafaaaafaaaafaaaafaaaafaaaafaaaafaaaafaaaafaaaafaaaafaaaafaaaafaaaafaaaafaaaafaaaafaaaafaaaafaaaafaaaafaaaafaaaafaaaafaaaafaaaafaaaafaaaafaaaafaaaafaaaafaaaafaaaafaaaafaaaafaaaafaaaafaaaafaaaafaaaafaaaafaaaafaaaafaaaafaaaafaaaafaaaafaaaafaaaafaaaafaaaafaaaafaaaafaaaafaaaafaaaafaaaafaaaafaaaafaaaafaaaafaaaafaaaafaaaafaaaafaaaafaaaafaaaafaaaafaaaafaaaafaaaafaaaafaaaafaaaafaaaafaaaafaaaafaaaafaaaafaaaafaaaafaaaafaaaafaaaafaaaafaaaafaaaafaaaafaaaafaaaafaaaafaaaafaaaafaaaafaaaafaaaafaaaafaaaafaaaafaaaafaaaafaaaafaaaafaaaafaaaafaaaafaaaafaaaafaaaafaaaafaaaafaaaafaaaafaaaafaaaafaaaafaaaafaaaafaaaafaaaafaaaafaaaafaaaafaaaafaaaafaaaafaaaafaaaafaaaafaaaafaaaafaaaafaaaafaaaafaaaafaaaafaaaafaaaafaaaafaaaafaaaafaaaafaaaafaaaafaaaafaaaafaaaafaaaafaaaafaaaafaaaafaaaafaaaafaaaafaaaafaaaafaaaafaaaafaaaafaaaafaaaafaaaafaaaafaaaafaaaafaaaafaaaafaaaafaaaafaaaafaaaafaaaafaaaafaaaafaaaafaaaafaaaafaaaafaaaafaaaafaaaafaaaafaaaafaaaafaaaafaaaafaaaafaaaafaaaafaaaafaaaafaaaafaaaafaaaafaaaafaaaafaaaafaaaafaaaafaaaafaaaafaaaafaaaafaaaafaaaafaaaafaaaafaaaafaaaafaaaafaaaafaaaafaaaafaaaafaaaafaaaafaaaafaaaafaaaafaaaafaaaafaaaafaaaafaaaafaaaafaaaafaaaafaaaafaaaafaaaafaaaafaaaafaaaafaaaafaaaafaaaafaaaafaaaafaaaafaaaafaaaafaaaafaaaafaaaafaaaafaaaafaaaafaaaafaaaafaaaafaaaafaaaafaaaafaaaafaaaafaaaafaaaafaaaafaaaafaaaafaaaafaaaafaaaafaaaafaaaafaaaafaaaafaaaafaaaafaaaafaaaafaaaafaaaafaaaafaaaafaaaafaaaafaaaafaaaafaaaafaaaafaaaafaaaafaaaafaaaafaaaafaaaafaaaafaaaafaaaafaaaafaaaafaaaafaaaafaaaafaaaafaaaafaaaafaaaafaaaafaaaafaaaafaaaafaaaafaaaafaaaafaaaafaaaafaaaafaaaafaaaafaaaafaaaafaaaafaaaafaaaafaaaafaaaafaaaafaaaafaaaafaaaafaaaafaaaafaaaafaaaafaaaafaaaafaaaafaaaafaaaafaaaafaaaafaaaafaaaafaaaafaaaafaaaafaaaafaaaafaaaafaaaafaaaafaaaafaaaafaaaafaaaafaaaafaaaafaaaafaaaafaaaafaaaafaaaafaaaafaaaafaaaafaaaafaaaafaaaafaaaafaaaafaaaafaaaafaaaafaaaafaaaafaaaafaaaafaaaafaaaafaaaafaaaafaaaafaaaafaaaafaaaafaaaafaaaafaaaafaaaafaaaafaaaafaaaafaaaafaaaafaaaafaaaafaaaafaaaafaaaafaaaafaaaafaaaafaaaafaaaafaaaafaaaafaaaafaaaafaaaafaaaafaaaafaaaafaaaafaaaafaaaafaaaafaaaafaaaafaaaafaaaafaaaafaaaafaaaafaaaafaaaafaaaafaaaafaaaafaaaafaaaafaaaafaaaafaaaafaaaafaaaafaaaafaaaafaaaafaaaafaaaafaaaafaaaafaaaafaaaafaaaafaaaafaaaafaaaafaaaafaaaafaaaafaaaafaaaafaaaafaaaafaaaafaaaafaaaafaaaafaaaafaaaafaaaafaaaafaaaafaaaafaaaafaaaafaaaafaaaafaaaafaaaafaaaafaaaafaaaafaaaafaaaafaaaafaaaafaaaafaaaafaaaafaaaafaaaafaaaafaaaafaaaafaaaafaaaafaaaafaaaafaaaafaaaafaaaafaaaafaaaafaaaafaaaafaaaafaaaafaaaafaaaafaaaafaaaafaaaafaaaafaaaafaaaafaaaafaaaafaaaafaaaafaaaafaaaafaaaafaaaafaaaafaaaafaaaafaaaafaaaafaaaafaaaafaaaafaaaafaaaafaaaafaaaafaaaafaaaafaaaafaaaafaaaafaaaafaaaafaaaafaaaafaaaafaaaafaaaafaaaafaaaafaaaafaaaafaaaafaaaafaaaafaaaafaaaafaaaafaaaafaaaafaaaafaaaafaaaafaaaafaaaafaaaafaaaafaaaafaaaafaaaafaaaafaaaafaaaafaaaafaaaafaaaafaaaafaaaafaaaafaaaafaaaafaaaafaaaafaaaafaaaafaaaafaaaafaaaafaaaafaaaafaaaafaaaafaaaafaaaafaaaafaaaafaaaafaaaafaaaafaaaafaaaafaaaafaaaafaaaafaaaafaaaafaaaafaaaafaaaafaaaafaaaafaaaafaaaafaaaafaaaafaaaafaaaafaaaafaaaafaaaafaaaafaaaafaaaafaaaafaaaafaaaafaaaafaaaafaaaafaaaafaaaafaaaafaaaafaaaafaaaafaaaafaaaafaaaafaaaafaaaafaaaafaaaafaaaafaaaafaaaafaaaafaaaafaaaafaaaafaaaafaaaafaaaafaaaafaaaafaaaafaaaafaaaafaaaafaaaafaaaafaaaafaaaafaaaafaaaafaaaafaaaafaaaafaaaafaaaafaaaafaaaafaaaafaaaafaaaafaaaafaaaafaaaafaaaafaaaafaaaafaaaafaaaafaaaafaaaafaaaafaaaafaaaafaaaafaaaafaaaafaaaafaaaafaaaafaaaafaaaafaaaafaaaafaaaafaaaafaaaafaaaafaaaafaaaafaaaafaaaafaaaafaaaafaaaafaaaafaaaafaaaafaaaafaaaafaaaafaaaafaaaafaaaafaaaafaaaafaaaafaaaafaaaafaaaafaaaafaaaafaaaafaaaafaaaafaaaafaaaafaaaafaaaafaaaafaaaafaaaafaaaafaaaafaaaafaaaafaaaafaaaafaaaafaaaafaaaafaaaafaaaafaaaafaaaafaaaafaaaafaaaafaaaafaaaafaaaafaaaafaaaafaaaafaaaafaaaafaaaafaaaafaaaafaaaafaaaafaaaafaaaafaaaafaaaafaaaafaaaafaaaafaaaafaaaafaaaafaaaafaaaafaaaafaaaafaaaafaaaafaaaafaaaafaaaafaaaafaaaafaaaafaaaafaaaafaaaafaaaafaaaafaaaafaaaafaaaafaaaafaaaafaaaafaaaafaaaafaaaafaaaafaaaafaaaafaaaafaaaafaaaafaaaafaaaafaaaafaaaafaaaafaaaafaaaafaaaafaaaafaaaafaaaafaaaafaaaafaaaafaaaafaaaafaaaafaaaafaaaafaaaafaaaafaaaafaaaafaaaafaaaafaaaafaaaafaaaafaaaafaaaafaaaafaaaafaaaafaaaafaaaafaaaafaaaafaaaafaaaafaaaafaaaafaaaafaaaafaaaafaaaafaaaafaaaafaaaafaaaafaaaafaaaafaaaafaaaafaaaafaaaafaaaafaaaafaaaafaaaafaaaafaaaafaaaafaaaafaaaafaaaafaaaafaaaafaaaafaaaafaaaafaaaafaaaafaaaafaaaafaaaafaaaafaaaafaaaafaaaafaaaafaaaafaaaafaaaafaaaafaaaafaaaafaaaafaaaafaaaafaaaafaaaafaaaafaaaafaaaafaaaafaaaafaaaafaaaafaaaafaaaafaaaafaaaafaaaafaaaafaaaafaaaafaaaafaaaafaaaafaaaafaaaafaaaafaaaafaaaafaaaafaaaafaaaafaaaafaaaafaaaafaaaafaaaafaaaafaaaafaaaafaaaafaaaafaaaafaaaafaaaafaaaafaaaafaaaafaaaafaaaafaaaafaaaafaaaafaaaafaaaafaaaafaaaafaaaafaaaafaaaafaaaafaaaafaaaafaaaafaaaafaaaafaaaafaaaafaaaafaaaafaaaafaaaafaaaafaaaafaaaafaaaafaaaafaaaafaaaafaaaafaaaafaaaafaaaafaaaafaaaafaaaafaaaafaaaafaaaafaaaafaaaafaaaafaaaafaaaafaaaafaaaafaaaafaaaafaaaafaaaafaaaafaaaafaaaafaaaafaaaafaaaafaaaafaaaafaaaafaaaafaaaafaaaafaaaafaaaafaaaafaaaafaaaafaaaafaaaafaaaafaaaafaaaafaaaafaaaafaaaafaaaafaaaafaaaafaaaafaaaafaaaafaaaafaaaafaaaafaaaafaaaafaaaafaaaafaaaafaaaafaaaafaaaafaaaafaaaafaaaafaaaafaaaafaaaafaaaafaaaafaaaafaaaafaaaafaaaafaaaafaaaafaaaafaaaafaaaafaaaafaaaafaaaafaaaafaaaafaaaafaaaafaaaafaaaafaaaafaaaafaaaafaaaafaaaafaaaafaaaafaaaafaaaafaaaafaaaafaaaafaaaafaaaafaaaafaaaafaaaafaaaafaaaafaaaafaaaafaaaafaaaafaaaafaaaafaaaafaaaafaaaafaaaafaaaafaaaafaaaafaaaafaaaafaaaafaaaafaaaafaaaafaaaafaaaafaaaafaaaafaaaafaaaafaaaafaaaafaaaafaaaafaaaafaaaafaaaafaaaafaaaafaaaafaaaafaaaafaaaafaaaafaaaafaaaafaaaafaaaafaaaafaaaafaaaafaaaafaaaafaaaafaaaafaaaafaaaafaaaafaaaafaaaafaaaafaaaafaaaafaaaafaaaafaaaafaaaafaaaafaaaafaaaafaaaafaaaafaaaafaaaafaaaafaaaafaaaafaaaafaaaafaaaafaaaafaaaafaaaafaaaafaaaafaaaafaaaafaaaafaaaafaaaafaaaafaaaafaaaafaaaafaaaafaaaafaaaafaaaafaaaafaaaafaaaafaaaafaaaafaaaafaaaafaaaafaaaafaaaafaaaafaaaafaaaafaaaafaaaafaaaafaaaafaaaafaaaafaaaafaaaafaaaafaaaafaaaafaaaafaaaafaaaafaaaafaaaafaaaafaaaafaaaafaaaafaaaafaaaafaaaafaaaafaaaafaaaafaaaafaaaafaaaafaaaafaaaafaaaafaaaafaaaafaaaafaaaafaaaafaaaafaaaafaaaafaaaafaaaafaaaafaaaafaaaafaaaafaaaafaaaafaaaafaaaafaaaafaaaafaaaafaaaafaaaafaaaafaaaafaaaafaaaafaaaafaaaafaaaafaaaafaaaafaaaafaaaafaaaafaaaafaaaafaaaafaaaafaaaafaaaafaaaafaaaafaaaafaaaafaaaafaaaafaaaafaaaafaaaafaaaafaaaafaaaafaaaafaaaafaaaafaaaafaaaafaaaafaaaafaaaafaaaafaaaafaaaafaaaafaaaafaaaafaaaafaaaafaaaafaaaafaaaafaaaafaaaafaaaafaaaafaaaafaaaafaaaafaaaafaaaafaaaafaaaafaaaafaaaafaaaafaaaafaaaafaaaafaaaafaaaafaaaafaaaafaaaafaaaafaaaafaaaafaaaafaaaafaaaafaaaafaaaafaaaafaaaafaaaafaaaafaaaafaaaafaaaafaaaafaaaafaaaafaaaafaaaafaaaafaaaafaaaafaaaafaaaafaaaafaaaafaaaafaaaafaaaafaaaafaaaafaaaafaaaafaaaafaaaafaaaafaaaafaaaafaaaafaaaafaaaafaaaafaaaafaaaafaaaafaaaafaaaafaaaafaaaafaaaafaaaafaaaafaaaafaaaafaaaafaaaafaaaafaaaafaaaafaaaafaaaafaaaafaaaafaaaafaaaafaaaafaaaafaaaafaaaafaaaafaaaafaaaafaaaafaaaafaaaafaaaafaaaafaaaafaaaafaaaafaaaafaaaafaaaafaaaafaaaafaaaafaaaafaaaafaaaafaaaafaaaafaaaafaaaafaaaafaaaafaaaafaaaafaaaafaaaafaaaafaaaafaaaafaaaafaaaafaaaafaaaafaaaafaaaafaaaafaaaafaaaafaaaafaaaafaaaafaaaafaaaafaaaafaaaafaaaafaaaafaaaafaaaafaaaafaaaafaaaafaaaafaaaafaaaafaaaafaaaafaaaafaaaafaaaafaaaafaaaafaaaafaaaafaaaafaaaafaaaafaaaafaaaafaaaafaaaafaaaafaaaafaaaafaaaafaaaafaaaafaaaafaaaafaaaafaaaafaaaafaaaafaaaafaaaafaaaafaaaafaaaafaaaafaaaafaaaafaaaafaaaafaaaafaaaafaaaafaaaafaaaafaaaafaaaafaaaafaaaafaaaafaaaafaaaafaaaafaaaafaaaafaaaafaaaafaaaafaaaafaaaafaaaafaaaafaaaafaaaafaaaafaaaafaaaafaaaafaaaafaaaafaaaafaaaafaaaafaaaafaaaafaaaafaaaafaaaafaaaafaaaafaaaafaaaafaaaafaaaafaaaafaaaafaaaafaaaafaaaafaaaafaaaafaaaafaaaafaaaafaaaafaaaafaaaafaaaafaaaafaaaafaaaafaaaafaaaafaaaafaaaafaaaafaaaafaaaafaaaafaaaafaaaafaaaafaaaafaaaafaaaafaaaafaaaafaaaafaaaafaaaafaaaafaaaafaaaafaaaafaaaafaaaafaaaafaaaafaaaafaaaafaaaafaaaafaaaafaaaafaaaafaaaafaaaafaaaafaaaafaaaafaaaafaaaafaaaafaaaafaaaafaaaafaaaafaaaafaaaafaaaafaaaafaaaafaaaafaaaafaaaafaaaafaaaafaaaafaaaafaaaafaaaafaaaafaaaafaaaafaaaafaaaafaaaafaaaafaaaafaaaafaaaafaaaafaaaafaaaafaaaafaaaafaaaafaaaafaaaafaaaafaaaafaaaafaaaafaaaafaaaafaaaafaaaafaaaafaaaafaaaafaaaafaaaafaaaafaaaafaaaafaaaafaaaafaaaafaaaafaaaafaaaafaaaafaaaafaaaafaaaafaaaafaaaafaaaafaaaafaaaafaaaafaaaafaaaafaaaafaaaafaaaafaaaafaaaafaaaafaaaafaaaafaaaafaaaafaaaafaaaafaaaafaaaafaaaafaaaafaaaafaaaafaaaafaaaafaaaafaaaafaaaafaaaafaaaafaaaafaaaafaaaafaaaafaaaafaaaafaaaafaaaafaaaafaaaafaaaafaaaafaaaafaaaafaaaafaaaafaaaafaaaafaaaafaaaafaaaafaaaafaaaafaaaafaaaafaaaafaaaafaaaafaaaafaaaafaaaafaaaafaaaafaaaafaaaafaaaafaaaafaaaafaaaafaaaafaaaafaaaafaaaafaaaafaaaafaaaafaaaafaaaafaaaafaaaafaaaafaaaafaaaafaaaafaaaafaaaafaaaafaaaafaaaafaaaafaaaafaaaafaaaafaaaafaaaafaaaafaaaafaaaafaaaafaaaafaaaafaaaafaaaafaaaafaaaafaaaafaaaafaaaafaaaafaaaafaaaafaaaafaaaafaaaafaaaafaaaafaaaafaaaafaaaafaaaafaaaafaaaafaaaafaaaafaaaafaaaafaaaafaaaafaaaafaaaafaaaafaaaafaaaafaaaafaaaafaaaafaaaafaaaafaaaafaaaafaaaafaaaafaaaafaaaafaaaafaaaafaaaafaaaafaaaafaaaafaaaafaaaafaaaafaaaafaaaafaaaafaaaafaaaafaaaafaaaafaaaafaaaafaaaafaaaafaaaafaaaafaaaafaaaafaaaafaaaafaaaafaaaafaaaafaaaafaaaafaaaafaaaafaaaafaaaafaaaafaaaafaaaafaaaafaaaafaaaafaaaafaaaafaaaafaaaafaaaafaaaafaaaafaaaafaaaafaaaafaaaafaaaafaaaafaaaafaaaafaaaafaaaafaaaafaaaafaaaafaaaafaaaafaaaafaaaafaaaafaaaafaaaafaaaafaaaafaaaafaaaafaaaafaaaafaaaafaaaafaaaafaaaafaaaafaaaafaaaafaaaafaaaafaaaafaaaafaaaafaaaafaaaafaaaafaaaafaaaafaaaafaaaafaaaafaaaafaaaafaaaafaaaafaaaafaaaafaaaafaaaafaaaafaaaafaaaafaaaafaaaafaaaafaaaafaaaafaaaafaaaafaaaafaaaafaaaafaaaafaaaafaaaafaaaafaaaafaaaafaaaafaaaafaaaafaaaafaaaafaaaafaaaafaaaafaaaafaaaafaaaafaaaafaaaafaaaafaaaafaaaafaaaafaaaafaaaafaaaafaaaafaaaafaaaafaaaafaaaafaaaafaaaafaaaafaaaafaaaafaaaafaaaafaaaafaaaafaaaafaaaafaaaafaaaafaaaafaaaafaaaafaaaafaaaafaaaafaaaafaaaafaaaafaaaafaaaafaaaafaaaafaaaafaaaafaaaafaaaafaaaafaaaafaaaafaaaafaaaafaaaafaaaafaaaafaaaafaaaafaaaafaaaafaaaafaaaafaaaafaaaafaaaafaaaafaaaafaaaafaaaafaaaafaaaafaaaafaaaafaaaafaaaafaaaafaaaafaaaafaaaafaaaafaaaafaaaafaaaafaaaafaaaafaaaafaaaafaaaafaaaafaaaafaaaafaaaafaaaafaaaafaaaafaaaafaaaafaaaafaaaafaaaafaaaafaaaafaaaafaaaafaaaafaaaafaaaafaaaafaaaafaaaafaaaafaaaafaaaafaaaafaaaafaaaafaaaafaaaafaaaafaaaafaaaafaaaafaaaafaaaafaaaafaaaafaaaafaaaafaaaafaaaafaaaafaaaafaaaafaaaafaaaafaaaafaaaafaaaafaaaafaaaafaaaafaaaafaaaafaaaafaaaafaaaafaaaafaaaafaaaafaaaafaaaafaaaafaaaafaaaafaaaafaaaafaaaafaaaafaaaafaaaafaaaafaaaafaaaafaaaafaaaafaaaafaaaafaaaafaaaafaaaafaaaafaaaafaaaafaaaafaaaafaaaafaaaafaaaafaaaafaaaafaaaafaaaafaaaafaaaafaaaafaaaafaaaafaaaafaaaafaaaafaaaafaaaafaaaafaaaafaaaafaaaafaaaafaaaafaaaafaaaafaaaafaaaafaaaafaaaafaaaafaaaafaaaafaaaafaaaafaaaafaaaafaaaafaaaafaaaafaaaafaaaafaaaafaaaafaaaafaaaafaaaafaaaafaaaafaaaafaaaafaaaafaaaafaaaafaaaafaaaafaaaafaaaafaaaafaaaafaaaafaaaafaaaafaaaafaaaafaaaafaaaafaaaafaaaafaaaafaaaafaaaafaaaafaaaafaaaafaaaafaaaafaaaafaaaafaaaafaaaafaaaafaaaafaaaafaaaafaaaafaaaafaaaafaaaafaaaafaaaafaaaafaaaafaaaafaaaafaaaafaaaafaaaafaaaafaaaafaaaafaaaafaaaafaaaafaaaafaaaafaaaafaaaafaaaafaaaafaaaafaaaafaaaafaaaafaaaafaaaafaaaafaaaafaaaafaaaafaaaafaaaafaaaafaaaafaaaafaaaafaaaafaaaafaaaafaaaafaaaafaaaafaaaafaaaafaaaafaaaafaaaafaaaafaaaafaaaafaaaafaaaafaaaafaaaafaaaafaaaafaaaafaaaafaaaafaaaafaaaafaaaafaaaafaaaafaaaafaaaafaaaafaaaafaaaafaaaafaaaafaaaafaaaafaaaafaaaafaaaafaaaafaaaafaaaafaaaafaaaafaaaafaaaafaaaafaaaafaaaafaaaafaaaafaaaafaaaafaaaafaaaafaaaafaaaafaaaafaaaafaaaafaaaafaaaafaaaafaaaafaaaafaaaafaaaafaaaafaaaafaaaafaaaafaaaafaaaafaaaafaaaafaaaafaaaafaaaafaaaafaaaafaaaafaaaafaaaafaaaafaaaafaaaafaaaafaaaafaaaafaaaafaaaafaaaafaaaafaaaafaaaafaaaafaaaafaaaafaaaafaaaafaaaafaaaafaaaafaaaafaaaafaaaafaaaafaaaafaaaafaaaafaaaafaaaafaaaafaaaafaaaafaaaafaaaafaaaafaaaafaaaafaaaafaaaafaaaafaaaafaaaafaaaafaaaafaaaafaaaafaaaafaaaafaaaafaaaafaaaafaaaafaaaafaaaafaaaafaaaafaaaafaaaafaaaafaaaafaaaafaaaafaaaafaaaafaaaafaaaafaaaafaaaafaaaafaaaafaaaafaaaafaaaafaaaafaaaafaaaafaaaafaaaafaaaafaaaafaaaafaaaafaaaafaaaafaaaafaaaafaaaafaaaafaaaafaaaafaaaafaaaafaaaafaaaafaaaafaaaafaaaafaaaafaaaafaaaafaaaafaaaafaaaafaaaafaaaafaaaafaaaafaaaafaaaafaaaafaaaafaaaafaaaafaaaafaaaafaaaafaaaafaaaafaaaafaaaafaaaafaaaafaaaafaaaafaaaafaaaafaaaafaaaafaaaafaaaafaaaafaaaafaaaafaaaafaaaafaaaafaaaafaaaafaaaafaaaafaaaafaaaafaaaafaaaafaaaafaaaafaaaafaaaafaaaafaaaafaaaafaaaafaaaafaaaafaaaafaaaafaaaafaaaafaaaafaaaafaaaafaaaafaaaafaaaafaaaafaaaafaaaafaaaafaaaafaaaafaaaafaaaafaaaafaaaafaaaafaaaafaaaafaaaafaaaafaaaafaaaafaaaafaaaafaaaafaaaafaaaafaaaafaaaafaaaafaaaafaaaafaaaafaaaafaaaafaaaafaaaafaaaafaaaafaaaafaaaafaaaafaaaafaaaafaaaafaaaafaaaafaaaafaaaafaaaafaaaafaaaafaaaafaaaafaaaafaaaafaaaafaaaafaaaafaaaafaaaafaaaafaaaafaaaafaaaafaaaafaaaafaaaafaaaafaaaafaaaafaaaafaaaafaaaafaaaafaaaafaaaafaaaafaaaafaaaafaaaafaaaafaaaafaaaafaaaafaaaafaaaafaaaafaaaafaaaafaaaafaaaafaaaafaaaafaaaafaaaafaaaafaaaafaaaafaaaafaaaafaaaafaaaafaaaafaaaafaaaafaaaafaaaafaaaafaaaafaaaafaaaafaaaafaaaafaaaafaaaafaaaafaaaafaaaafaaaafaaaafaaaafaaaafaaaafaaaafaaaafaaaafaaaafaaaafaaaafaaaafaaaafaaaafaaaafaaaafaaaafaaaafaaaafaaaafaaaafaaaafaaaafaaaafaaaafaaaafaaaafaaaafaaaafaaaafaaaafaaaafaaaafaaaafaaaafaaaafaaaafaaaafaaaafaaaafaaaafaaaafaaaafaaaafaaaafaaaafaaaafaaaafaaaafaaaafaaaafaaaafaaaafaaaafaaaafaaaafaaaafaaaafaaaafaaaafaaaafaaaafaaaafaaaafaaaafaaaafaaaafaaaafaaaafaaaafaaaafaaaafaaaafaaaafaaaafaaaafaaaafaaaafaaaafaaaafaaaafaaaafaaaafaaaafaaaafaaaafaaaafaaaafaaaafaaaafaaaafaaaafaaaafaaaafaaaafaaaafaaaafaaaafaaaafaaaafaaaafaaaafaaaafaaaafaaaafaaaafaaaafaaaafaaaafaaaafaaaafaaaafaaaafaaaafaaaafaaaafaaaafaaaafaaaafaaaafaaaafaaaafaaaafaaaafaaaafaaaafaaaafaaaafaaaafaaaafaaaafaaaafaaaafaaaafaaaafaaaafaaaafaaaafaaaafaaaafaaaafaaaafaaaafaaaafaaaafaaaafaaaafaaaafaaaafaaaafaaaafaaaafaaaafaaaafaaaafaaaafaaaafaaaafaaaafaaaafaaaafaaaafaaaafaaaafaaaafaaaafaaaafaaaafaaaafaaaafaaaafaaaafaaaafaaaafaaaafaaaafaaaafaaaafaaaafaaaafaaaafaaaafaaaafaaaafaaaafaaaafaaaafaaaafaaaafaaaafaaaafaaaafaaaafaaaafaaaafaaaafaaaafaaaafaaaafaaaafaaaafaaaafaaaafaaaafaaaafaaaafaaaafaaaafaaaafaaaafaaaafaaaafaaaafaaaafaaaafaaaafaaaafaaaafaaaafaaaafaaaafaaaafaaaafaaaafaaaafaaaafaaaafaaaafaaaafaaaafaaaafaaaafaaaafaaaafaaaafaaaafaaaafaaaafaaaafaaaafaaaafaaaafaaaafaaaafaaaafaaaafaaaafaaaafaaaafaaaafaaaafaaaafaaaafaaaafaaaafaaaafaaaafaaaafaaaafaaaafaaaafaaaafaaaafaaaafaaaafaaaafaaaafaaaafaaaafaaaafaaaafaaaafaaaafaaaafaaaafaaaafaaaafaaaafaaaafaaaafaaaafaaaafaaaafaaaafaaaafaaaafaaaafaaaafaaaafaaaafaaaafaaaafaaaafaaaafaaaafaaaafaaaafaaaafaaaafaaaafaaaafaaaafaaaafaaaafaaaafaaaafaaaafaaaafaaaafaaaafaaaafaaaafaaaafaaaafaaaafaaaafaaaafaaaafaaaafaaaafaaaafaaaafaaaafaaaafaaaafaaaafaaaafaaaafaaaafaaaafaaaafaaaafaaaafaaaafaaaafaaaafaaaafaaaafaaaafaaaafaaaafaaaafaaaafaaaafaaaafaaaafaaaafaaaafaaaafaaaafaaaafaaaafaaaafaaaafaaaafaaaafaaaafaaaafaaaafaaaafaaaafaaaafaaaafaaaafaaaafaaaafaaaafaaaafaaaafaaaafaaaafaaaafaaaafaaaafaaaafaaaafaaaafaaaafaaaafaaaafaaaafaaaafaaaafaaaafaaaafaaaafaaaafaaaafaaaafaaaafaaaafaaaafaaaafaaaafaaaafaaaafaaaafaaaafaaaafaaaafaaaafaaaafaaaafaaaafaaaafaaaafaaaafaaaafaaaafaaaafaaaafaaaafaaaafaaaafaaaafaaaafaaaafaaaafaaaafaaaafaaaafaaaafaaaafaaaafaaaafaaaafaaaafaaaafaaaafaaaafaaaafaaaafaaaafaaaafaaaafaaaafaaaafaaaafaaaafaaaafaaaafaaaafaaaafaaaafaaaafaaaafaaaafaaaafaaaafaaaafaaaafaaaafaaaafaaaafaaaafaaaafaaaafaaaafaaaafaaaafaaaafaaaafaaaafaaaafaaaafaaaafaaaafaaaafaaaafaaaafaaaafaaaafaaaafaaaafaaaafaaaafaaaafaaaafaaaafaaaafaaaafaaaafaaaafaaaafaaaafaaaafaaaafaaaafaaaafaaaafaaaafaaaafaaaafaaaafaaaafaaaafaaaafaaaafaaaafaaaafaaaafaaaafaaaafaaaafaaaafaaaafaaaafaaaafaaaafaaaafaaaafaaaafaaaafaaaafaaaafaaaafaaaafaaaafaaaafaaaafaaaafaaaafaaaafaaaafaaaafaaaafaaaafaaaafaaaafaaaafaaaafaaaafaaaafaaaafaaaafaaaafaaaafaaaafaaaafaaaafaaaafaaaafaaaafaaaafaaaafaaaafaaaafaaaafaaaafaaaafaaaafaaaafaaaafaaaafaaaafaaaafaaaafaaaafaaaafaaaafaaaafaaaafaaaafaaaafaaaafaaaafaaaafaaaafaaaafaaaafaaaafaaaafaaaafaaaafaaaafaaaafaaaafaaaafaaaafaaaafaaaafaaaafaaaafaaaafaaaafaaaafaaaafaaaafaaaafaaaafaaaafaaaafaaaafaaaafaaaafaaaafaaaafaaaafaaaafaaaafaaaafaaaafaaaafaaaafaaaafaaaafaaaafaaaafaaaafaaaafaaaafaaaafaaaafaaaafaaaafaaaafaaaafaaaafaaaafaaaafaaaafaaaafaaaafaaaafaaaafaaaafaaaafaaaafaaaafaaaafaaaafaaaafaaaafaaaafaaaafaaaafaaaafaaaafaaaafaaaafaaaafaaaafaaaafaaaafaaaafaaaafaaaafaaaafaaaafaaaafaaaafaaaafaaaafaaaafaaaafaaaafaaaafaaaafaaaafaaaafaaaafaaaafaaaafaaaafaaaafaaaafaaaafaaaafaaaafaaaafaaaafaaaafaaaafaaaafaaaafaaaafaaaafaaaafaaaafaaaafaaaafaaaafaaaafaaaafaaaafaaaafaaaafaaaafaaaafaaaafaaaafaaaafaaaafaaaafaaaafaaaafaaaafaaaafaaaafaaaafaaaafaaaafaaaafaaaafaaaafaaaafaaaafaaaafaaaafaaaafaaaafaaaafaaaafaaaafaaaafaaaafaaaafaaaafaaaafaaaafaaaafaaaafaaaafaaaafaaaafaaaafaaaafaaaafaaaafaaaafaaaafaaaafaaaafaaaafaaaafaaaafaaaafaaaafaaaafaaaafaaaafaaaafaaaafaaaafaaaafaaaafaaaafaaaafaaaafaaaafaaaafaaaafaaaafaaaafaaaafaaaafaaaafaaaafaaaafaaaafaaaafaaaafaaaafaaaafaaaafaaaafaaaafaaaafaaaafaaaafaaaafaaaafaaaafaaaafaaaafaaaafaaaafaaaafaaaafaaaafaaaafaaaafaaaafaaaafaaaafaaaafaaaafaaaafaaaafaaaafaaaafaaaafaaaafaaaafaaaafaaaafaaaafaaaafaaaafaaaafaaaafaaaafaaaafaaaafaaaafaaaafaaaafaaaafaaaafaaaafaaaafaaaafaaaafaaaafaaaafaaaafaaaafaaaafaaaafaaaafaaaafaaaafaaaafaaaafaaaafaaaafaaaafaaaafaaaafaaaafaaaafaaaafaaaafaaaafaaaafaaaafaaaafaaaafaaaafaaaafaaaafaaaafaaaafaaaafaaaafaaaafaaaafaaaafaaaafaaaafaaaafaaaafaaaafaaaafaaaafaaaafaaaafaaaafaaaafaaaafaaaafaaaafaaaafaaaafaaaafaaaafaaaafaaaafaaaafaaaafaaaafaaaafaaaafaaaafaaaafaaaafaaaafaaaafaaaafaaaafaaaafaaaafaaaafaaaafaaaafaaaafaaaafaaaafaaaafaaaafaaaafaaaafaaaafaaaafaaaafaaaafaaaafaaaafaaaafaaaafaaaafaaaafaaaafaaaafaaaafaaaafaaaafaaaafaaaafaaaafaaaafaaaafaaaafaaaafaaaafaaaafaaaafaaaafaaaafaaaafaaaafaaaafaaaafaaaafaaaafaaaafaaaafaaaafaaaafaaaafaaaafaaaafaaaafaaaafaaaafaaaafaaaafaaaafaaaafaaaafaaaafaaaafaaaafaaaafaaaafaaaafaaaafaaaafaaaafaaaafaaaafaaaafaaaafaaaafaaaafaaaafaaaafaaaafaaaafaaaafaaaafaaaafaaaafaaaafaaaafaaaafaaaafaaaafaaaafaaaafaaaafaaaafaaaafaaaafaaaafaaaafaaaafaaaafaaaafaaaafaaaafaaaafaaaafaaaafaaaafaaaafaaaafaaaafaaaafaaaafaaaafaaaafaaaafaaaafaaaafaaaafaaaafaaaafaaaafaaaafaaaafaaaafaaaafaaaafaaaafaaaafaaaafaaaafaaaafaaaafaaaafaaaafaaaafaaaafaaaafaaaafaaaafaaaafaaaafaaaafaaaafaaaafaaaafaaaafaaaafaaaafaaaafaaaafaaaafaaaafaaaafaaaafaaaafaaaafaaaafaaaafaaaafaaaafaaaafaaaafaaaafaaaafaaaafaaaafaaaafaaaafaaaafaaaafaaaafaaaafaaaafaaaafaaaafaaaafaaaafaaaafaaaafaaaafaaaafaaaafaaaafaaaafaaaafaaaafaaaafaaaafaaaafaaaafaaaafaaaafaaaafaaaafaaaafaaaafaaaafaaaafaaaafaaaafaaaafaaaafaaaafaaaafaaaafaaaafaaaafaaaafaaaafaaaafaaaafaaaafaaaafaaaafaaaafaaaafaaaafaaaafaaaafaaaafaaaafaaaafaaaafaaaafaaaafaaaafaaaafaaaafaaaafaaaafaaaafaaaafaaaafaaaafaaaafaaaafaaaafaaaafaaaafaaaafaaaafaaaafaaaafaaaafaaaafaaaafaaaafaaaafaaaafaaaafaaaafaaaafaaaafaaaafaaaafaaaafaaaafaaaafaaaafaaaafaaaafaaaafaaaafaaaafaaaafaaaafaaaafaaaafaaaafaaaafaaaafaaaafaaaafaaaafaaaafaaaafaaaafaaaafaaaafaaaafaaaafaaaafaaaafaaaafaaaafaaaafaaaafaaaafaaaafaaaafaaaafaaaafaaaafaaaafaaaafaaaafaaaafaaaafaaaafaaaafaaaafaaaafaaaafaaaafaaaafaaaafaaaafaaaafaaaafaaaafaaaafaaaafaaaafaaaafaaaafaaaafaaaafaaaafaaaafaaaafaaaafaaaafaaaafaaaafaaaafaaaafaaaafaaaafaaaafaaaafaaaafaaaafaaaafaaaafaaaafaaaafaaaafaaaafaaaafaaaafaaaafaaaafaaaafaaaafaaaafaaaafaaaafaaaafaaaafaaaafaaaafaaaafaaaafaaaafaaaafaaaafaaaafaaaafaaaafaaaafaaaafaaaafaaaafaaaafaaaafaaaafaaaafaaaafaaaafaaaafaaaafaaaafaaaafaaaafaaaafaaaafaaaafaaaafaaaafaaaafaaaafaaaafaaaafaaaafaaaafaaaafaaaafaaaafaaaafaaaafaaaafaaaafaaaafaaaafaaaafaaaafaaaafaaaafaaaafaaaafaaaafaaaafaaaafaaaafaaaafaaaafaaaafaaaafaaaafaaaafaaaafaaaafaaaafaaaafaaaafaaaafaaaafaaaafaaaafaaaafaaaafaaaafaaaafaaaafaaaafaaaafaaaafaaaafaaaafaaaafaaaafaaaafaaaafaaaafaaaafaaaafaaaafaaaafaaaafaaaafaaaafaaaafaaaafaaaafaaaafaaaafaaaafaaaafaaaafaaaafaaaafaaaafaaaafaaaafaaaafaaaafaaaafaaaafaaaafaaaafaaaafaaaafaaaafaaaafaaaafaaaafaaaafaaaafaaaafaaaafaaaafaaaafaaaafaaaafaaaafaaaafaaaafaaaafaaaafaaaafaaaafaaaafaaaafaaaafaaaafaaaafaaaafaaaafaaaafaaaafaaaafaaaafaaaafaaaafaaaafaaaafaaaafaaaafaaaafaaaafaaaafaaaafaaaafaaaafaaaafaaaafaaaafaaaafaaaafaaaafaaaafaaaafaaaafaaaafaaaafaaaafaaaafaaaafaaaafaaaafaaaafaaaafaaaafaaaafaaaafaaaafaaaafaaaafaaaafaaaafaaaafaaaafaaaafaaaafaaaafaaaafaaaafaaaafaaaafaaaafaaaafaaaafaaaafaaaafaaaafaaaafaaaafaaaafaaaafaaaafaaaafaaaafaaaafaaaafaaaafaaaafaaaafaaaafaaaafaaaafaaaafaaaafaaaafaaaafaaaafaaaafaaaafaaaafaaaafaaaafaaaafaaaafaaaafaaaafaaaafaaaafaaaafaaaafaaaafaaaafaaaafaaaafaaaafaaaafaaaafaaaafaaaafaaaafaaaafaaaafaaaafaaaafaaaafaaaafaaaafaaaafaaaafaaaafaaaafaaaafaaaafaaaafaaaafaaaafaaaafaaaafaaaafaaaafaaaafaaaafaaaafaaaafaaaafaaaafaaaafaaaafaaaafaaaafaaaafaaaafaaaafaaaafaaaafaaaafaaaafaaaafaaaafaaaafaaaafaaaafaaaafaaaafaaaafaaaafaaaafaaaafaaaafaaaafaaaafaaaafaaaafaaaafaaaafaaaafaaaafaaaafaaaafaaaafaaaafaaaafaaaafaaaafaaaafaaaafaaaafaaaafaaaafaaaafaaaafaaaafaaaafaaaafaaaafaaaafaaaafaaaafaaaafaaaafaaaafaaaafaaaafaaaafaaaafaaaafaaaafaaaafaaaafaaaafaaaafaaaafaaaafaaaafaaaafaaaafaaaafaaaafaaaafaaaafaaaafaaaafaaaafaaaafaaaafaaaafaaaafaaaafaaaafaaaafaaaafaaaafaaaafaaaafaaaafaaaafaaaafaaaafaaaafaaaafaaaafaaaafaaaafaaaafaaaafaaaafaaaafaaaafaaaafaaaafaaaafaaaafaaaafaaaafaaaafaaaafaaaafaaaafaaaafaaaafaaaafaaaafaaaafaaaafaaaafaaaafaaaafaaaafaaaafaaaafaaaafaaaafaaaafaaaafaaaafaaaafaaaafaaaafaaaafaaaafaaaafaaaafaaaafaaaafaaaafaaaafaaaafaaaafaaaafaaaafaaaafaaaafaaaafaaaafaaaafaaaafaaaafaaaafaaaafaaaafaaaafaaaafaaaafaaaafaaaafaaaafaaaafaaaafaaaafaaaafaaaafaaaafaaaafaaaafaaaafaaaafaaaafaaaafaaaafaaaafaaaafaaaafaaaafaaaafaaaafaaaafaaaafaaaafaaaafaaaafaaaafaaaafaaaafaaaafaaaafaaaafaaaafaaaafaaaafaaaafaaaafaaaafaaaafaaaafaaaafaaaafaaaafaaaafaaaafaaaafaaaafaaaafaaaafaaaafaaaafaaaafaaaafaaaafaaaafaaaafaaaafaaaafaaaafaaaafaaaafaaaafaaaafaaaafaaaafaaaafaaaafaaaafaaaafaaaafaaaafaaaafaaaafaaaafaaaafaaaafaaaafaaaafaaaafaaaafaaaafaaaafaaaafaaaafaaaafaaaafaaaafaaaafaaaafaaaafaaaafaaaafaaaafaaaafaaaafaaaafaaaafaaaafaaaafaaaafaaaafaaaafaaaafaaaafaaaafaaaafaaaafaaaafaaaafaaaafaaaafaaaafaaaafaaaafaaaafaaaafaaaafaaaafaaaafaaaafaaaafaaaafaaaafaaaafaaaafaaaafaaaafaaaafaaaafaaaafaaaafaaaafaaaafaaaafaaaafaaaafaaaafaaaafaaaafaaaafaaaafaaaafaaaafaaaafaaaafaaaafaaaafaaaafaaaafaaaafaaaafaaaafaaaafaaaafaaaafaaaafaaaafaaaafaaaafaaaafaaaafaaaafaaaafaaaafaaaafaaaafaaaafaaaafaaaafaaaafaaaafaaaafaaaafaaaafaaaafaaaafaaaafaaaafaaaafaaaafaaaafaaaafaaaafaaaafaaaafaaaafaaaafaaaafaaaafaaaafaaaafaaaafaaaafaaaafaaaafaaaafaaaafaaaafaaaafaaaafaaaafaaaafaaaafaaaafaaaafaaaafaaaafaaaafaaaafaaaafaaaafaaaafaaaafaaaafaaaafaaaafaaaafaaaafaaaafaaaafaaaafaaaafaaaafaaaafaaaafaaaafaaaafaaaafaaaafaaaafaaaafaaaafaaaafaaaafaaaafaaaafaaaafaaaafaaaafaaaafaaaafaaaafaaaafaaaafaaaafaaaafaaaafaaaafaaaafaaaafaaaafaaaafaaaafaaaafaaaafaaaafaaaafaaaafaaaafaaaafaaaafaaaafaaaafaaaafaaaafaaaafaaaafaaaafaaaafaaaafaaaafaaaafaaaafaaaafaaaafaaaafaaaafaaaafaaaafaaaafaaaafaaaafaaaafaaaafaaaafaaaafaaaafaaaafaaaafaaaafaaaafaaaafaaaafaaaafaaaafaaaafaaaafaaaafaaaafaaaafaaaafaaaafaaaafaaaafaaaafaaaafaaaafaaaafaaaafaaaafaaaafaaaafaaaafaaaafaaaafaaaafaaaafaaaafaaaafaaaafaaaafaaaafaaaafaaaafaaaafaaaafaaaafaaaafaaaafaaaafaaaafaaaafaaaafaaaafaaaafaaaafaaaafaaaafaaaafaaaafaaaafaaaafaaaafaaaafaaaafaaaafaaaafaaaafaaaafaaaafaaaafaaaafaaaafaaaafaaaafaaaafaaaafaaaafaaaafaaaafaaaafaaaafaaaafaaaafaaaafaaaafaaaafaaaafaaaafaaaafaaaafaaaafaaaafaaaafaaaafaaaafaaaafaaaafaaaafaaaafaaaafaaaafaaaafaaaafaaaafaaaafaaaafaaaafaaaafaaaafaaaafaaaafaaaafaaaafaaaafaaaafaaaafaaaafaaaafaaaafaaaafaaaafaaaafaaaafaaaafaaaafaaaafaaaafaaaafaaaafaaaafaaaafaaaafaaaafaaaafaaaafaaaafaaaafaaaafaaaafaaaafaaaafaaaafaaaafaaaafaaaafaaaafaaaafaaaafaaaafaaaafaaaafaaaafaaaafaaaafaaaafaaaafaaaafaaaafaaaafaaaafaaaafaaaafaaaafaaaafaaaafaaaafaaaafaaaafaaaafaaaafaaaafaaaafaaaafaaaafaaaafaaaafaaaafaaaafaaaafaaaafaaaafaaaafaaaafaaaafaaaafaaaafaaaafaaaafaaaafaaaafaaaafaaaafaaaafaaaafaaaafaaaafaaaafaaaafaaaafaaaafaaaafaaaafaaaafaaaafaaaafaaaafaaaafaaaafaaaafaaaafaaaafaaaafaaaafaaaafaaaafaaaafaaaafaaaafaaaafaaaafaaaafaaaafaaaafaaaafaaaafaaaafaaaafaaaafaaaafaaaafaaaafaaaafaaaafaaaafaaaafaaaafaaaafaaaafaaaafaaaafaaaafaaaafaaaafaaaafaaaafaaaafaaaafaaaafaaaafaaaafaaaafaaaafaaaafaaaafaaaafaaaafaaaafaaaafaaaafaaaafaaaafaaaafaaaafaaaafaaaafaaaafaaaafaaaafaaaafaaaafaaaafaaaafaaaafaaaafaaaafaaaafaaaafaaaafaaaafaaaafaaaafaaaafaaaafaaaafaaaafaaaafaaaafaaaafaaaafaaaafaaaafaaaafaaaafaaaafaaaafaaaafaaaafaaaafaaaafaaaafaaaafaaaafaaaafaaaafaaaafaaaafaaaafaaaafaaaafaaaafaaaafaaaafaaaafaaaafaaaafaaaafaaaafaaaafaaaafaaaafaaaafaaaafaaaafaaaafaaaafaaaafaaaafaaaafaaaafaaaafaaaafaaaafaaaafaaaafaaaafaaaafaaaafaaaafaaaafaaaafaaaafaaaafaaaafaaaafaaaafaaaafaaaafaaaafaaaafaaaafaaaafaaaafaaaafaaaafaaaafaaaafaaaafaaaafaaaafaaaafaaaafaaaafaaaafaaaafaaaafaaaafaaaafaaaafaaaafaaaafaaaafaaaafaaaafaaaafaaaafaaaafaaaafaaaafaaaafaaaafaaaafaaaafaaaafaaaafaaaafaaaafaaaafaaaafaaaafaaaafaaaafaaaafaaaafaaaafaaaafaaaafaaaafaaaafaaaafaaaafaaaafaaaafaaaafaaaafaaaafaaaafaaaafaaaafaaaafaaaafaaaafaaaafaaaafaaaafaaaafaaaafaaaafaaaafaaaafaaaafaaaafaaaafaaaafaaaafaaaafaaaafaaaafaaaafaaaafaaaafaaaafaaaafaaaafaaaafaaaafaaaafaaaafaaaafaaaafaaaafaaaafaaaafaaaafaaaafaaaafaaaafaaaafaaaafaaaafaaaafaaaafaaaafaaaafaaaafaaaafaaaafaaaafaaaafaaaafaaaafaaaafaaaafaaaafaaaafaaaafaaaafaaaafaaaafaaaafaaaafaaaafaaaafaaaafaaaafaaaafaaaafaaaafaaaafaaaafaaaafaaaafaaaafaaaafaaaafaaaafaaaafaaaafaaaafaaaafaaaafaaaafaaaafaaaafaaaafaaaafaaaafaaaafaaaafaaaafaaaafaaaafaaaafaaaafaaaafaaaafaaaafaaaafaaaafaaaafaaaafaaaafaaaafaaaafaaaafaaaafaaaafaaaafaaaafaaaafaaaafaaaafaaaafaaaafaaaafaaaafaaaafaaaafaaaafaaaafaaaafaaaafaaaafaaaafaaaafaaaafaaaafaaaafaaaafaaaafaaaafaaaafaaaafaaaafaaaafaaaafaaaafaaaafaaaafaaaafaaaafaaaafaaaafaaaafaaaafaaaafaaaafaaaafaaaafaaaafaaaafaaaafaaaafaaaafaaaafaaaafaaaafaaaafaaaafaaaafaaaafaaaafaaaafaaaafaaaafaaaafaaaafaaaafaaaafaaaafaaaafaaaafaaaafaaaafaaaafaaaafaaaafaaaafaaaafaaaafaaaafaaaafaaaafaaaafaaaafaaaafaaaafaaaafaaaafaaaafaaaafaaaafaaaafaaaafaaaafaaaafaaaafaaaafaaaafaaaafaaaafaaaafaaaafaaaafaaaafaaaafaaaafaaaafaaaafaaaafaaaafaaaafaaaafaaaafaaaafaaaafaaaafaaaafaaaafaaaafaaaafaaaafaaaafaaaafaaaafaaaafaaaafaaaafaaaafaaaafaaaafaaaafaaaafaaaafaaaafaaaafaaaafaaaafaaaafaaaafaaaafaaaafaaaafaaaafaaaafaaaafaaaafaaaafaaaafaaaafaaaafaaaafaaaafaaaafaaaafaaaafaaaafaaaafaaaafaaaafaaaafaaaafaaaafaaaafaaaafaaaafaaaafaaaafaaaafaaaafaaaafaaaafaaaafaaaafaaaafaaaafaaaafaaaafaaaafaaaafaaaafaaaafaaaafaaaafaaaafaaaafaaaafaaaafaaaafaaaafaaaafaaaafaaaafaaaafaaaafaaaafaaaafaaaafaaaafaaaafaaaafaaaafaaaafaaaafaaaafaaaafaaaafaaaafaaaafaaaafaaaafaaaafaaaafaaaafaaaafaaaafaaaafaaaafaaaafaaaafaaaafaaaafaaaafaaaafaaaafaaaafaaaafaaaafaaaafaaaafaaaafaaaafaaaafaaaafaaaafaaaafaaaafaaaafaaaafaaaafaaaafaaaafaaaafaaaafaaaafaaaafaaaafaaaafaaaafaaaafaaaafaaaafaaaafaaaafaaaafaaaafaaaafaaaafaaaafaaaafaaaafaaaafaaaafaaaafaaaafaaaafaaaafaaaafaaaafaaaafaaaafaaaafaaaafaaaafaaaafaaaafaaaafaaaafaaaafaaaafaaaafaaaafaaaafaaaafaaaafaaaafaaaafaaaafaaaafaaaafaaaafaaaafaaaafaaaafaaaafaaaafaaaafaaaafaaaafaaaafaaaafaaaafaaaafaaaafaaaafaaaafaaaafaaaafaaaafaaaafaaaafaaaafaaaafaaaafaaaafaaaafaaaafaaaafaaaafaaaafaaaafaaaafaaaafaaaafaaaafaaaafaaaafaaaafaaaafaaaafaaaafaaaafaaaafaaaafaaaafaaaafaaaafaaaafaaaafaaaafaaaafaaaafaaaafaaaafaaaafaaaafaaaafaaaafaaaafaaaafaaaafaaaafaaaafaaaafaaaafaaaafaaaafaaaafaaaafaaaafaaaafaaaafaaaafaaaafaaaafaaaafaaaafaaaafaaaafaaaafaaaafaaaafaaaafaaaafaaaafaaaafaaaafaaaafaaaafaaaafaaaafaaaafaaaafaaaafaaaafaaaafaaaafaaaafaaaafaaaafaaaafaaaafaaaafaaaafaaaafaaaafaaaafaaaafaaaafaaaafaaaafaaaafaaaafaaaafaaaafaaaafaaaafaaaafaaaafaaaafaaaafaaaafaaaafaaaafaaaafaaaafaaaafaaaafaaaafaaaafaaaafaaaafaaaafaaaafaaaafaaaafaaaafaaaafaaaafaaaafaaaafaaaafaaaafaaaafaaaafaaaafaaaafaaaafaaaafaaaafaaaafaaaafaaaafaaaafaaaafaaaafaaaafaaaafaaaafaaaafaaaafaaaafaaaafaaaafaaaafaaaafaaaafaaaafaaaafaaaafaaaafaaaafaaaafaaaafaaaafaaaafaaaafaaaafaaaafaaaafaaaafaaaafaaaafaaaafaaaafaaaafaaaafaaaafaaaafaaaafaaaafaaaafaaaafaaaafaaaafaaaafaaaafaaaafaaaafaaaafaaaafaaaafaaaafaaaafaaaafaaaafaaaafaaaafaaaafaaaafaaaafaaaafaaaafaaaafaaaafaaaafaaaafaaaafaaaafaaaafaaaafaaaafaaaafaaaafaaaafaaaafaaaafaaaafaaaafaaaafaaaafaaaafaaaafaaaafaaaafaaaafaaaafaaaafaaaafaaaafaaaafaaaafaaaafaaaafaaaafaaaafaaaafaaaafaaaafaaaafaaaafaaaafaaaafaaaafaaaafaaaafaaaafaaaafaaaafaaaafaaaafaaaafaaaafaaaafaaaafaaaafaaaafaaaafaaaafaaaafaaaafaaaafaaaafaaaafaaaafaaaafaaaafaaaafaaaafaaaafaaaafaaaafaaaafaaaafaaaafaaaafaaaafaaaafaaaafaaaafaaaafaaaafaaaafaaaafaaaafaaaafaaaafaaaafaaaafaaaafaaaafaaaafaaaafaaaafaaaafaaaafaaaafaaaafaaaafaaaafaaaafaaaafaaaafaaaafaaaafaaaafaaaafaaaafaaaafaaaafaaaafaaaafaaaafaaaafaaaafaaaafaaaafaaaafaaaafaaaafaaaafaaaafaaaafaaaafaaaafaaaafaaaafaaaafaaaafaaaafaaaafaaaafaaaafaaaafaaaafaaaafaaaafaaaafaaaafaaaafaaaafaaaafaaaafaaaafaaaafaaaafaaaafaaaafaaaafaaaafaaaafaaaafaaaafaaaafaaaafaaaafaaaafaaaafaaaafaaaafaaaafaaaafaaaafaaaafaaaafaaaafaaaafaaaafaaaafaaaafaaaafaaaafaaaafaaaafaaaafaaaafaaaafaaaafaaaafaaaafaaaafaaaafaaaafaaaafaaaafaaaafaaaafaaaafaaaafaaaafaaaafaaaafaaaafaaaafaaaafaaaafaaaafaaaafaaaafaaaafaaaafaaaafaaaafaaaafaaaafaaaafaaaafaaaafaaaafaaaafaaaafaaaafaaaafaaaafaaaafaaaafaaaafaaaafaaaafaaaafaaaafaaaafaaaafaaaafaaaafaaaafaaaafaaaafaaaafaaaafaaaafaaaafaaaafaaaafaaaafaaaafaaaafaaaafaaaafaaaafaaaafaaaafaaaafaaaafaaaafaaaafaaaafaaaafaaaafaaaafaaaafaaaafaaaafaaaafaaaafaaaafaaaafaaaafaaaafaaaafaaaafaaaafaaaafaaaafaaaafaaaafaaaafaaaafaaaafaaaafaaaafaaaafaaaafaaaafaaaafaaaafaaaafaaaafaaaafaaaafaaaafaaaafaaaafaaaafaaaafaaaafaaaafaaaafaaaafaaaafaaaafaaaafaaaafaaaafaaaafaaaafaaaafaaaafaaaafaaaafaaaafaaaafaaaafaaaafaaaafaaaafaaaafaaaafaaaafaaaafaaaafaaaafaaaafaaaafaaaafaaaafaaaafaaaafaaaafaaaafaaaafaaaafaaaafaaaafaaaafaaaafaaaafaaaafaaaafaaaafaaaafaaaafaaaafaaaafaaaafaaaafaaaafaaaafaaaafaaaafaaaafaaaafaaaafaaaafaaaafaaaafaaaafaaaafaaaafaaaafaaaafaaaafaaaafaaaafaaaafaaaafaaaafaaaafaaaafaaaafaaaafaaaafaaaafaaaafaaaafaaaafaaaafaaaafaaaafaaaafaaaafaaaafaaaafaaaafaaaafaaaafaaaafaaaafaaaafaaaafaaaafaaaafaaaafaaaafaaaafaaaafaaaafaaaafaaaafaaaafaaaafaaaafaaaafaaaafaaaafaaaafaaaafaaaafaaaafaaaafaaaafaaaafaaaafaaaafaaaafaaaafaaaafaaaafaaaafaaaafaaaafaaaafaaaafaaaafaaaafaaaafaaaafaaaafaaaafaaaafaaaafaaaafaaaafaaaafaaaafaaaafaaaafaaaafaaaafaaaafaaaafaaaafaaaafaaaafaaaafaaaafaaaafaaaafaaaafaaaafaaaafaaaafaaaafaaaafaaaafaaaafaaaafaaaafaaaafaaaafaaaafaaaafaaaafaaaafaaaafaaaafaaaafaaaafaaaafaaaafaaaafaaaafaaaafaaaafaaaafaaaafaaaafaaaafaaaafaaaafaaaafaaaafaaaafaaaafaaaafaaaafaaaafaaaafaaaafaaaafaaaafaaaafaaaafaaaafaaaafaaaafaaaafaaaafaaaafaaaafaaaafaaaafaaaafaaaafaaaafaaaafaaaafaaaafaaaafaaaafaaaafaaaafaaaafaaaafaaaafaaaafaaaafaaaafaaaafaaaafaaaafaaaafaaaafaaaafaaaafaaaafaaaafaaaafaaaafaaaafaaaafaaaafaaaafaaaafaaaafaaaafaaaafaaaafaaaafaaaafaaaafaaaafaaaafaaaafaaaafaaaafaaaafaaaafaaaafaaaafaaaafaaaafaaaafaaaafaaaafaaaafaaaafaaaafaaaafaaaafaaaafaaaafaaaafaaaafaaaafaaaafaaaafaaaafaaaafaaaafaaaafaaaafaaaafaaaafaaaafaaaafaaaafaaaafaaaafaaaafaaaafaaaafaaaafaaaafaaaafaaaafaaaafaaaafaaaafaaaafaaaafaaaafaaaafaaaafaaaafaaaafaaaafaaaafaaaafaaaafaaaafaaaafaaaafaaaafaaaafaaaafaaaafaaaafaaaafaaaafaaaafaaaafaaaafaaaafaaaafaaaafaaaafaaaafaaaafaaaafaaaafaaaafaaaafaaaafaaaafaaaafaaaafaaaafaaaafaaaafaaaafaaaafaaaafaaaafaaaafaaaafaaaafaaaafaaaafaaaafaaaafaaaafaaaafaaaafaaaafaaaafaaaafaaaafaaaafaaaafaaaafaaaafaaaafaaaafaaaafaaaafaaaafaaaafaaaafaaaafaaaafaaaafaaaafaaaafaaaafaaaafaaaafaaaafaaaafaaaafaaaafaaaafaaaafaaaafaaaafaaaafaaaafaaaafaaaafaaaafaaaafaaaafaaaafaaaafaaaafaaaafaaaafaaaafaaaafaaaafaaaafaaaafaaaafaaaafaaaafaaaafaaaafaaaafaaaafaaaafaaaafaaaafaaaafaaaafaaaafaaaafaaaafaaaafaaaafaaaafaaaafaaaafaaaafaaaafaaaafaaaafaaaafaaaafaaaafaaaafaaaafaaaafaaaafaaaafaaaafaaaafaaaafaaaafaaaafaaaafaaaafaaaafaaaafaaaafaaaafaaaafaaaafaaaafaaaafaaaafaaaafaaaafaaaafaaaafaaaafaaaafaaaafaaaafaaaafaaaafaaaafaaaafaaaafaaaafaaaafaaaafaaaafaaaafaaaafaaaafaaaafaaaafaaaafaaaafaaaafaaaafaaaafaaaafaaaafaaaafaaaafaaaafaaaafaaaafaaaafaaaafaaaafaaaafaaaafaaaafaaaafaaaafaaaafaaaafaaaafaaaafaaaafaaaafaaaafaaaafaaaafaaaafaaaafaaaafaaaafaaaafaaaafaaaafaaaafaaaafaaaafaaaafaaaafaaaafaaaafaaaafaaaafaaaafaaaafaaaafaaaafaaaafaaaafaaaafaaaafaaaafaaaafaaaafaaaafaaaafaaaafaaaafaaaafaaaafaaaafaaaafaaaafaaaafaaaafaaaafaaaafaaaafaaaafaaaafaaaafaaaafaaaafaaaafaaaafaaaafaaaafaaaafaaaafaaaafaaaafaaaafaaaafaaaafaaaafaaaafaaaafaaaafaaaafaaaafaaaafaaaafaaaafaaaafaaaafaaaafaaaafaaaafaaaafaaaafaaaafaaaafaaaafaaaafaaaafaaaafaaaafaaaafaaaafaaaafaaaafaaaafaaaafaaaafaaaafaaaafaaaafaaaafaaaafaaaafaaaafaaaafaaaafaaaafaaaafaaaafaaaafaaaafaaaafaaaafaaaafaaaafaaaafaaaafaaaafaaaafaaaafaaaafaaaafaaaafaaaafaaaafaaaafaaaafaaaafaaaafaaaafaaaafaaaafaaaafaaaafaaaafaaaafaaaafaaaafaaaafaaaafaaaafaaaafaaaafaaaafaaaafaaaafaaaafaaaafaaaafaaaafaaaafaaaafaaaafaaaafaaaafaaaafaaaafaaaafaaaafaaaafaaaafaaaafaaaafaaaafaaaafaaaafaaaafaaaafaaaafaaaafaaaafaaaafaaaafaaaafaaaafaaaafaaaafaaaafaaaafaaaafaaaafaaaafaaaafaaaafaaaafaaaafaaaafaaaafaaaafaaaafaaaafaaaafaaaafaaaafaaaafaaaafaaaafaaaafaaaafaaaafaaaafaaaafaaaafaaaafaaaafaaaafaaaafaaaafaaaafaaaafaaaafaaaafaaaafaaaafaaaafaaaafaaaafaaaafaaaafaaaafaaaafaaaafaaaafaaaafaaaafaaaafaaaafaaaafaaaafaaaafaaaafaaaafaaaafaaaafaaaafaaaafaaaafaaaafaaaafaaaafaaaafaaaafaaaafaaaafaaaafaaaafaaaafaaaafaaaafaaaafaaaafaaaafaaaafaaaafaaaafaaaafaaaafaaaafaaaafaaaafaaaafaaaafaaaafaaaafaaaafaaaafaaaafaaaafaaaafaaaafaaaafaaaafaaaafaaaafaaaafaaaafaaaafaaaafaaaafaaaafaaaafaaaafaaaafaaaafaaaafaaaafaaaafaaaafaaaafaaaafaaaafaaaafaaaafaaaafaaaafaaaafaaaafaaaafaaaafaaaafaaaafaaaafaaaafaaaafaaaafaaaafaaaafaaaafaaaafaaaafaaaafaaaafaaaafaaaafaaaafaaaafaaaafaaaafaaaafaaaafaaaafaaaafaaaafaaaafaaaafaaaafaaaafaaaafaaaafaaaafaaaafaaaafaaaafaaaafaaaafaaaafaaaafaaaafaaaafaaaafaaaafaaaafaaaafaaaafaaaafaaaafaaaafaaaafaaaafaaaafaaaafaaaafaaaafaaaafaaaafaaaafaaaafaaaafaaaafaaaafaaaafaaaafaaaafaaaafaaaafaaaafaaaafaaaafaaaafaaaafaaaafaaaafaaaafaaaafaaaafaaaafaaaafaaaafaaaafaaaafaaaafaaaafaaaafaaaafaaaafaaaafaaaafaaaafaaaafaaaafaaaafaaaafaaaafaaaafaaaafaaaafaaaafaaaafaaaafaaaafaaaafaaaafaaaafaaaafaaaafaaaafaaaafaaaafaaaafaaaafaaaafaaaafaaaafaaaafaaaafaaaafaaaafaaaafaaaafaaaafaaaafaaaafaaaafaaaafaaaafaaaafaaaafaaaafaaaafaaaafaaaafaaaafaaaafaaaafaaaafaaaafaaaafaaaafaaaafaaaafaaaafaaaafaaaafaaaafaaaafaaaafaaaafaaaafaaaafaaaafaaaafaaaafaaaafaaaafaaaafaaaafaaaafaaaafaaaafaaaafaaaafaaaafaaaafaaaafaaaafaaaafaaaafaaaafaaaafaaaafaaaafaaaafaaaafaaaafaaaafaaaafaaaafaaaafaaaafaaaafaaaafaaaafaaaafaaaafaaaafaaaafaaaafaaaafaaaafaaaafaaaafaaaafaaaafaaaafaaaafaaaafaaaafaaaafaaaafaaaafaaaafaaaafaaaafaaaafaaaafaaaafaaaafaaaafaaaafaaaafaaaafaaaafaaaafaaaafaaaafaaaafaaaafaaaafaaaafaaaafaaaafaaaafaaaafaaaafaaaafaaaafaaaafaaaafaaaafaaaafaaaafaaaafaaaafaaaafaaaafaaaafaaaafaaaafaaaafaaaafaaaafaaaafaaaafaaaafaaaafaaaafaaaafaaaafaaaafaaaafaaaafaaaafaaaafaaaafaaaafaaaafaaaafaaaafaaaafaaaafaaaafaaaafaaaafaaaafaaaafaaaafaaaafaaaafaaaafaaaafaaaafaaaafaaaafaaaafaaaafaaaafaaaafaaaafaaaafaaaafaaaafaaaafaaaafaaaafaaaafaaaafaaaafaaaafaaaafaaaafaaaafaaaafaaaafaaaafaaaafaaaafaaaafaaaafaaaafaaaafaaaafaaaafaaaafaaaafaaaafaaaafaaaafaaaafaaaafaaaafaaaafaaaafaaaafaaaafaaaafaaaafaaaafaaaafaaaafaaaafaaaafaaaafaaaafaaaafaaaafaaaafaaaafaaaafaaaafaaaafaaaafaaaafaaaafaaaafaaaafaaaafaaaafaaaafaaaafaaaafaaaafaaaafaaaafaaaafaaaafaaaafaaaafaaaafaaaafaaaafaaaafaaaafaaaafaaaafaaaafaaaafaaaafaaaafaaaafaaaafaaaafaaaafaaaafaaaafaaaafaaaafaaaafaaaafaaaafaaaafaaaafaaaafaaaafaaaafaaaafaaaafaaaafaaaafaaaafaaaafaaaafaaaafaaaafaaaafaaaafaaaafaaaafaaaafaaaafaaaafaaaafaaaafaaaafaaaafaaaafaaaafaaaafaaaafaaaafaaaafaaaafaaaafaaaafaaaafaaaafaaaafaaaafaaaafaaaafaaaafaaaafaaaafaaaafaaaafaaaafaaaafaaaafaaaafaaaafaaaafaaaafaaaafaaaafaaaafaaaafaaaafaaaafaaaafaaaafaaaafaaaafaaaafaaaafaaaafaaaafaaaafaaaafaaaafaaaafaaaafaaaafaaaafaaaafaaaafaaaafaaaafaaaafaaaafaaaafaaaafaaaafaaaafaaaafaaaafaaaafaaaafaaaafaaaafaaaafaaaafaaaafaaaafaaaafaaaafaaaafaaaafaaaafaaaafaaaafaaaafaaaafaaaafaaaafaaaafaaaafaaaafaaaafaaaafaaaafaaaafaaaafaaaafaaaafaaaafaaaafaaaafaaaafaaaafaaaafaaaafaaaafaaaafaaaafaaaafaaaafaaaafaaaafaaaafaaaafaaaafaaaafaaaafaaaafaaaafaaaafaaaafaaaafaaaafaaaafaaaafaaaafaaaafaaaafaaaafaaaafaaaafaaaafaaaafaaaafaaaafaaaafaaaafaaaafaaaafaaaafaaaafaaaafaaaafaaaafaaaafaaaafaaaafaaaafaaaafaaaafaaaafaaaafaaaafaaaafaaaafaaaafaaaafaaaafaaaafaaaafaaaafaaaafaaaafaaaafaaaafaaaafaaaafaaaafaaaafaaaafaaaafaaaafaaaafaaaafaaaafaaaafaaaafaaaafaaaafaaaafaaaafaaaafaaaafaaaafaaaafaaaafaaaafaaaafaaaafaaaafaaaafaaaafaaaafaaaafaaaafaaaafaaaafaaaafaaaafaaaafaaaafaaaafaaaafaaaafaaaafaaaafaaaafaaaafaaaafaaaafaaaafaaaafaaaafaaaafaaaafaaaafaaaafaaaafaaaafaaaafaaaafaaaafaaaafaaaafaaaafaaaafaaaafaaaafaaaafaaaafaaaafaaaafaaaafaaaafaaaafaaaafaaaafaaaafaaaafaaaafaaaafaaaafaaaafaaaafaaaafaaaafaaaafaaaafaaaafaaaafaaaafaaaafaaaafaaaafaaaafaaaafaaaafaaaafaaaafaaaafaaaafaaaafaaaafaaaafaaaafaaaafaaaafaaaafaaaafaaaafaaaafaaaafaaaafaaaafaaaafaaaafaaaafaaaafaaaafaaaafaaaafaaaafaaaafaaaafaaaafaaaafaaaafaaaafaaaafaaaafaaaafaaaafaaaafaaaafaaaafaaaafaaaafaaaafaaaafaaaafaaaafaaaafaaaafaaaafaaaafaaaafaaaafaaaafaaaafaaaafaaaafaaaafaaaafaaaafaaaafaaaafaaaafaaaafaaaafaaaafaaaafaaaafaaaafaaaafaaaafaaaafaaaafaaaafaaaafaaaafaaaafaaaafaaaafaaaafaaaafaaaafaaaafaaaafaaaafaaaafaaaafaaaafaaaafaaaafaaaafaaaafaaaafaaaafaaaafaaaafaaaafaaaafaaaafaaaafaaaafaaaafaaaafaaaafaaaafaaaafaaaafaaaafaaaafaaaafaaaafaaaafaaaafaaaafaaaafaaaafaaaafaaaafaaaafaaaafaaaafaaaafaaaafaaaafaaaafaaaafaaaafaaaafaaaafaaaafaaaafaaaafaaaafaaaafaaaafaaaafaaaafaaaafaaaafaaaafaaaafaaaafaaaafaaaafaaaafaaaafaaaafaaaafaaaafaaaafaaaafaaaafaaaafaaaafaaaafaaaafaaaafaaaafaaaafaaaafaaaafaaaafaaaafaaaafaaaafaaaafaaaafaaaafaaaafaaaafaaaafaaaafaaaafaaaafaaaafaaaafaaaafaaaafaaaafaaaafaaaafaaaafaaaafaaaafaaaafaaaafaaaafaaaafaaaafaaaafaaaafaaaafaaaafaaaafaaaafaaaafaaaafaaaafaaaafaaaafaaaafaaaafaaaafaaaafaaaafaaaafaaaafaaaafaaaafaaaafaaaafaaaafaaaafaaaafaaaafaaaafaaaafaaaafaaaafaaaafaaaafaaaafaaaafaaaafaaaafaaaafaaaafaaaafaaaafaaaafaaaafaaaafaaaafaaaafaaaafaaaafaaaafaaaafaaaafaaaafaaaafaaaafaaaafaaaafaaaafaaaafaaaafaaaafaaaafaaaafaaaafaaaafaaaafaaaafaaaafaaaafaaaafaaaafaaaafaaaafaaaafaaaafaaaafaaaafaaaafaaaafaaaafaaaafaaaafaaaafaaaafaaaafaaaafaaaafaaaafaaaafaaaafaaaafaaaafaaaafaaaafaaaafaaaafaaaafaaaafaaaafaaaafaaaafaaaafaaaafaaaafaaaafaaaafaaaafaaaafaaaafaaaafaaaafaaaafaaaafaaaafaaaafaaaafaaaafaaaafaaaafaaaafaaaafaaaafaaaafaaaafaaaafaaaafaaaafaaaafaaaafaaaafaaaafaaaafaaaafaaaafaaaafaaaafaaaafaaaafaaaafaaaafaaaafaaaafaaaafaaaafaaaafaaaafaaaafaaaafaaaafaaaafaaaafaaaafaaaafaaaafaaaafaaaafaaaafaaaafaaaafaaaafaaaafaaaafaaaafaaaafaaaafaaaafaaaafaaaafaaaafaaaafaaaafaaaafaaaafaaaafaaaafaaaafaaaafaaaafaaaafaaaafaaaafaaaafaaaafaaaafaaaafaaaafaaaafaaaafaaaafaaaafaaaafaaaafaaaafaaaafaaaafaaaafaaaafaaaafaaaafaaaafaaaafaaaafaaaafaaaafaaaafaaaafaaaafaaaafaaaafaaaafaaaafaaaafaaaafaaaafaaaafaaaafaaaafaaaafaaaafaaaafaaaafaaaafaaaafaaaafaaaafaaaafaaaafaaaafaaaafaaaafaaaafaaaafaaaafaaaafaaaafaaaafaaaafaaaafaaaafaaaafaaaafaaaafaaaafaaaafaaaafaaaafaaaafaaaafaaaafaaaafaaaafaaaafaaaafaaaafaaaafaaaafaaaafaaaafaaaafaaaafaaaafaaaafaaaafaaaafaaaafaaaafaaaafaaaafaaaafaaaafaaaafaaaafaaaafaaaafaaaafaaaafaaaafaaaafaaaafaaaafaaaafaaaafaaaafaaaafaaaafaaaafaaaafaaaafaaaafaaaafaaaafaaaafaaaafaaaafaaaafaaaafaaaafaaaafaaaafaaaafaaaafaaaafaaaafaaaafaaaafaaaafaaaafaaaafaaaafaaaafaaaafaaaafaaaafaaaafaaaafaaaafaaaafaaaafaaaafaaaafaaaafaaaafaaaafaaaafaaaafaaaafaaaafaaaafaaaafaaaafaaaafaaaafaaaafaaaafaaaafaaaafaaaafaaaafaaaafaaaafaaaafaaaafaaaafaaaafaaaafaaaafaaaafaaaafaaaafaaaafaaaafaaaafaaaafaaaafaaaafaaaafaaaafaaaafaaaafaaaafaaaafaaaafaaaafaaaafaaaafaaaafaaaafaaaafaaaafaaaafaaaafaaaafaaaafaaaafaaaafaaaafaaaafaaaafaaaafaaaafaaaafaaaafaaaafaaaafaaaafaaaafaaaafaaaafaaaafaaaafaaaafaaaafaaaafaaaafaaaafaaaafaaaafaaaafaaaafaaaafaaaafaaaafaaaafaaaafaaaafaaaafaaaafaaaafaaaafaaaafaaaafaaaafaaaafaaaafaaaafaaaafaaaafaaaafaaaafaaaafaaaafaaaafaaaafaaaafaaaafaaaafaaaafaaaafaaaafaaaafaaaafaaaafaaaafaaaafaaaafaaaafaaaafaaaafaaaafaaaafaaaafaaaafaaaafaaaafaaaafaaaafaaaafaaaafaaaafaaaafaaaafaaaafaaaafaaaafaaaafaaaafaaaafaaaafaaaafaaaafaaaafaaaafaaaafaaaafaaaafaaaafaaaafaaaafaaaafaaaafaaaafaaaafaaaafaaaafaaaafaaaafaaaafaaaafaaaafaaaafaaaafaaaafaaaafaaaafaaaafaaaafaaaafaaaafaaaafaaaafaaaafaaaafaaaafaaaafaaaafaaaafaaaafaaaafaaaafaaaafaaaafaaaafaaaafaaaafaaaafaaaafaaaafaaaafaaaafaaaafaaaafaaaafaaaafaaaafaaaafaaaafaaaafaaaafaaaafaaaafaaaafaaaafaaaafaaaafaaaafaaaafaaaafaaaafaaaafaaaafaaaafaaaafaaaafaaaafaaaafaaaafaaaafaaaafaaaafaaaafaaaafaaaafaaaafaaaafaaaafaaaafaaaafaaaafaaaafaaaafaaaafaaaafaaaafaaaafaaaafaaaafaaaafaaaafaaaafaaaafaaaafaaaafaaaafaaaafaaaafaaaafaaaafaaaafaaaafaaaafaaaafaaaafaaaafaaaafaaaafaaaafaaaafaaaafaaaafaaaafaaaafaaaafaaaafaaaafaaaafaaaafaaaafaaaafaaaafaaaafaaaafaaaafaaaafaaaafaaaafaaaafaaaafaaaafaaaafaaaafaaaafaaaafaaaafaaaafaaaafaaaafaaaafaaaafaaaafaaaafaaaafaaaafaaaafaaaafaaaafaaaafaaaafaaaafaaaafaaaafaaaafaaaafaaaafaaaafaaaafaaaafaaaafaaaafaaaafaaaafaaaafaaaafaaaafaaaafaaaafaaaafaaaafaaaafaaaafaaaafaaaafaaaafaaaafaaaafaaaafaaaafaaaafaaaafaaaafaaaafaaaafaaaafaaaafaaaafaaaafaaaafaaaafaaaafaaaafaaaafaaaafaaaafaaaafaaaafaaaafaaaafaaaafaaaafaaaafaaaafaaaafaaaafaaaafaaaafaaaafaaaafaaaafaaaafaaaafaaaafaaaafaaaafaaaafaaaafaaaafaaaafaaaafaaaafaaaafaaaafaaaafaaaafaaaafaaaafaaaafaaaafaaaafaaaafaaaafaaaafaaaafaaaafaaaafaaaafaaaafaaaafaaaafaaaafaaaafaaaafaaaafaaaafaaaafaaaafaaaafaaaafaaaafaaaafaaaafaaaafaaaafaaaafaaaafaaaafaaaafaaaafaaaafaaaafaaaafaaaafaaaafaaaafaaaafaaaafaaaafaaaafaaaafaaaafaaaafaaaafaaaafaaaafaaaafaaaafaaaafaaaafaaaafaaaafaaaafaaaafaaaafaaaafaaaafaaaafaaaafaaaafaaaafaaaafaaaafaaaafaaaafaaaafaaaafaaaafaaaafaaaafaaaafaaaafaaaafaaaafaaaafaaaafaaaafaaaafaaaafaaaafaaaafaaaafaaaafaaaafaaaafaaaafaaaafaaaafaaaafaaaafaaaafaaaafaaaafaaaafaaaafaaaafaaaafaaaafaaaafaaaafaaaafaaaafaaaafaaaafaaaafaaaafaaaafaaaafaaaafaaaafaaaafaaaafaaaafaaaafaaaafaaaafaaaafaaaafaaaafaaaafaaaafaaaafaaaafaaaafaaaafaaaafaaaafaaaafaaaafaaaafaaaafaaaafaaaafaaaafaaaafaaaafaaaafaaaafaaaafaaaafaaaafaaaafaaaafaaaafaaaafaaaafaaaafaaaafaaaafaaaafaaaafaaaafaaaafaaaafaaaafaaaafaaaafaaaafaaaafaaaafaaaafaaaafaaaafaaaafaaaafaaaafaaaafaaaafaaaafaaaafaaaafaaaafaaaafaaaafaaaafaaaafaaaafaaaafaaaafaaaafaaaafaaaafaaaafaaaafaaaafaaaafaaaafaaaafaaaafaaaafaaaafaaaafaaaafaaaafaaaafaaaafaaaafaaaafaaaafaaaafaaaafaaaafaaaafaaaafaaaafaaaafaaaafaaaafaaaafaaaafaaaafaaaafaaaafaaaafaaaafaaaafaaaafaaaafaaaafaaaafaaaafaaaafaaaafaaaafaaaafaaaafaaaafaaaafaaaafaaaafaaaafaaaafaaaafaaaafaaaafaaaafaaaafaaaafaaaafaaaafaaaafaaaafaaaafaaaafaaaafaaaafaaaafaaaafaaaafaaaafaaaafaaaafaaaafaaaafaaaafaaaafaaaafaaaafaaaafaaaafaaaafaaaafaaaafaaaafaaaafaaaafaaaafaaaafaaaafaaaafaaaafaaaafaaaafaaaafaaaafaaaafaaaafaaaafaaaafaaaafaaaafaaaafaaaafaaaafaaaafaaaafaaaafaaaafaaaafaaaafaaaafaaaafaaaafaaaafaaaafaaaafaaaafaaaafaaaafaaaafaaaafaaaafaaaafaaaafaaaafaaaafaaaafaaaafaaaafaaaafaaaafaaaafaaaafaaaafaaaafaaaafaaaafaaaafaaaafaaaafaaaafaaaafaaaafaaaafaaaafaaaafaaaafaaaafaaaafaaaafaaaafaaaafaaaafaaaafaaaafaaaafaaaafaaaafaaaafaaaafaaaafaaaafaaaafaaaafaaaafaaaafaaaafaaaafaaaafaaaafaaaafaaaafaaaafaaaafaaaafaaaafaaaafaaaafaaaafaaaafaaaafaaaafaaaafaaaafaaaafaaaafaaaafaaaafaaaafaaaafaaaafaaaafaaaafaaaafaaaafaaaafaaaafaaaafaaaafaaaafaaaafaaaafaaaafaaaafaaaafaaaafaaaafaaaafaaaafaaaafaaaafaaaafaaaafaaaafaaaafaaaafaaaafaaaafaaaafaaaafaaaafaaaafaaaafaaaafaaaafaaaafaaaafaaaafaaaafaaaafaaaafaaaafaaaafaaaafaaaafaaaafaaaafaaaafaaaafaaaafaaaafaaaafaaaafaaaafaaaafaaaafaaaafaaaafaaaafaaaafaaaafaaaafaaaafaaaafaaaafaaaafaaaafaaaafaaaafaaaafaaaafaaaafaaaafaaaafaaaafaaaafaaaafaaaafaaaafaaaafaaaafaaaafaaaafaaaafaaaafaaaafaaaafaaaafaaaafaaaafaaaafaaaafaaaafaaaafaaaafaaaafaaaafaaaafaaaafaaaafaaaafaaaafaaaafaaaafaaaafaaaafaaaafaaaafaaaafaaaafaaaafaaaafaaaafaaaafaaaafaaaafaaaafaaaafaaaafaaaafaaaafaaaafaaaafaaaafaaaafaaaafaaaafaaaafaaaafaaaafaaaafaaaafaaaafaaaafaaaafaaaafaaaafaaaafaaaafaaaafaaaafaaaafaaaafaaaafaaaafaaaafaaaafaaaafaaaafaaaafaaaafaaaafaaaafaaaafaaaafaaaafaaaafaaaafaaaafaaaafaaaafaaaafaaaafaaaafaaaafaaaafaaaafaaaafaaaafaaaafaaaafaaaafaaaafaaaafaaaafaaaafaaaafaaaafaaaafaaaafaaaafaaaafaaaafaaaafaaaafaaaafaaaafaaaafaaaafaaaafaaaafaaaafaaaafaaaafaaaafaaaafaaaafaaaafaaaafaaaafaaaafaaaafaaaafaaaafaaaafaaaafaaaafaaaafaaaafaaaafaaaafaaaafaaaafaaaafaaaafaaaafaaaafaaaafaaaafaaaafaaaafaaaafaaaafaaaafaaaafaaaafaaaafaaaafaaaafaaaafaaaafaaaafaaaafaaaafaaaafaaaafaaaafaaaafaaaafaaaafaaaafaaaafaaaafaaaafaaaafaaaafaaaafaaaafaaaafaaaafaaaafaaaafaaaafaaaafaaaafaaaafaaaafaaaafaaaafaaaafaaaafaaaafaaaafaaaafaaaafaaaafaaaafaaaafaaaafaaaafaaaafaaaafaaaafaaaafaaaafaaaafaaaafaaaafaaaafaaaafaaaafaaaafaaaafaaaafaaaafaaaafaaaafaaaafaaaafaaaafaaaafaaaafaaaafaaaafaaaafaaaafaaaafaaaafaaaafaaaafaaaafaaaafaaaafaaaafaaaafaaaafaaaafaaaafaaaafaaaafaaaafaaaafaaaafaaaafaaaafaaaafaaaafaaaafaaaafaaaafaaaafaaaafaaaafaaaafaaaafaaaafaaaafaaaafaaaafaaaafaaaafaaaafaaaafaaaafaaaafaaaafaaaafaaaafaaaafaaaafaaaafaaaafaaaafaaaafaaaafaaaafaaaafaaaafaaaafaaaafaaaafaaaafaaaafaaaafaaaafaaaafaaaafaaaafaaaafaaaafaaaafaaaafaaaafaaaafaaaafaaaafaaaafaaaafaaaafaaaafaaaafaaaafaaaafaaaafaaaafaaaafaaaafaaaafaaaafaaaafaaaafaaaafaaaafaaaafaaaafaaaafaaaafaaaafaaaafaaaafaaaafaaaafaaaafaaaafaaaafaaaafaaaafaaaafaaaafaaaafaaaafaaaafaaaafaaaafaaaafaaaafaaaafaaaafaaaafaaaafaaaafaaaafaaaafaaaafaaaafaaaafaaaafaaaafaaaafaaaafaaaafaaaafaaaafaaaafaaaafaaaafaaaafaaaafaaaafaaaafaaaafaaaafaaaafaaaafaaaafaaaafaaaafaaaafaaaafaaaafaaaafaaaafaaaafaaaafaaaafaaaafaaaafaaaafaaaafaaaafaaaafaaaafaaaafaaaafaaaafaaaafaaaafaaaafaaaafaaaafaaaafaaaafaaaafaaaafaaaafaaaafaaaafaaaafaaaafaaaafaaaafaaaafaaaafaaaafaaaafaaaafaaaafaaaafaaaafaaaafaaaafaaaafaaaafaaaafaaaafaaaafaaaafaaaafaaaafaaaafaaaafaaaafaaaafaaaafaaaafaaaafaaaafaaaafaaaafaaaafaaaafaaaafaaaafaaaafaaaafaaaafaaaafaaaafaaaafaaaafaaaafaaaafaaaafaaaafaaaafaaaafaaaafaaaafaaaafaaaafaaaafaaaafaaaafaaaafaaaafaaaafaaaafaaaafaaaafaaaafaaaafaaaafaaaafaaaafaaaafaaaafaaaafaaaafaaaafaaaafaaaafaaaafaaaafaaaafaaaafaaaafaaaafaaaafaaaafaaaafaaaafaaaafaaaafaaaafaaaafaaaafaaaafaaaafaaaafaaaafaaaafaaaafaaaafaaaafaaaafaaaafaaaafaaaafaaaafaaaafaaaafaaaafaaaafaaaafaaaafaaaafaaaafaaaafaaaafaaaafaaaafaaaafaaaafaaaafaaaafaaaafaaaafaaaafaaaafaaaafaaaafaaaafaaaafaaaafaaaafaaaafaaaafaaaafaaaafaaaafaaaafaaaafaaaafaaaafaaaafaaaafaaaafaaaafaaaafaaaafaaaafaaaafaaaafaaaafaaaafaaaafaaaafaaaafaaaafaaaafaaaafaaaafaaaafaaaafaaaafaaaafaaaafaaaafaaaafaaaafaaaafaaaafaaaafaaaafaaaafaaaafaaaafaaaafaaaafaaaafaaaafaaaafaaaafaaaafaaaafaaaafaaaafaaaafaaaafaaaafaaaafaaaafaaaafaaaafaaaafaaaafaaaafaaaafaaaafaaaafaaaafaaaafaaaafaaaafaaaafaaaafaaaafaaaafaaaafaaaafaaaafaaaafaaaafaaaafaaaafaaaafaaaafaaaafaaaafaaaafaaaafaaaafaaaafaaaafaaaafaaaafaaaafaaaafaaaafaaaafaaaafaaaafaaaafaaaafaaaafaaaafaaaafaaaafaaaafaaaafaaaafaaaafaaaafaaaafaaaafaaaafaaaafaaaafaaaafaaaafaaaafaaaafaaaafaaaafaaaafaaaafaaaafaaaafaaaafaaaafaaaafaaaafaaaafaaaafaaaafaaaafaaaafaaaafaaaafaaaafaaaafaaaafaaaafaaaafaaaafaaaafaaaafaaaafaaaafaaaafaaaafaaaafaaaafaaaafaaaafaaaafaaaafaaaafaaaafaaaafaaaafaaaafaaaafaaaafaaaafaaaafaaaafaaaafaaaafaaaafaaaafaaaafaaaafaaaafaaaafaaaafaaaafaaaafaaaafaaaafaaaafaaaafaaaafaaaafaaaafaaaafaaaafaaaafaaaafaaaafaaaafaaaafaaaafaaaafaaaafaaaafaaaafaaaafaaaafaaaafaaaafaaaafaaaafaaaafaaaafaaaafaaaafaaaafaaaafaaaafaaaafaaaafaaaafaaaafaaaafaaaafaaaafaaaafaaaafaaaafaaaafaaaafaaaafaaaafaaaafaaaafaaaafaaaafaaaafaaaafaaaafaaaafaaaafaaaafaaaafaaaafaaaafaaaafaaaafaaaafaaaafaaaafaaaafaaaafaaaafaaaafaaaafaaaafaaaafaaaafaaaafaaaafaaaafaaaafaaaafaaaafaaaafaaaafaaaafaaaafaaaafaaaafaaaafaaaafaaaafaaaafaaaafaaaafaaaafaaaafaaaafaaaafaaaafaaaafaaaafaaaafaaaafaaaafaaaafaaaafaaaafaaaafaaaafaaaafaaaafaaaafaaaafaaaafaaaafaaaafaaaafaaaafaaaafaaaafaaaafaaaafaaaafaaaafaaaafaaaafaaaafaaaafaaaafaaaafaaaafaaaafaaaafaaaafaaaafaaaafaaaafaaaafaaaafaaaafaaaafaaaafaaaafaaaafaaaafaaaafaaaafaaaafaaaafaaaafaaaafaaaafaaaafaaaafaaaafaaaafaaaafaaaafaaaafaaaafaaaafaaaafaaaafaaaafaaaafaaaafaaaafaaaafaaaafaaaafaaaafaaaafaaaafaaaafaaaafaaaafaaaafaaaafaaaafaaaafaaaafaaaafaaaafaaaafaaaafaaaafaaaafaaaafaaaafaaaafaaaafaaaafaaaafaaaafaaaafaaaafaaaafaaaafaaaafaaaafaaaafaaaafaaaafaaaafaaaafaaaafaaaafaaaafaaaafaaaafaaaafaaaafaaaafaaaafaaaafaaaafaaaafaaaafaaaafaaaafaaaafaaaafaaaafaaaafaaaafaaaafaaaafaaaafaaaafaaaafaaaafaaaafaaaafaaaafaaaafaaaafaaaafaaaafaaaafaaaafaaaafaaaafaaaafaaaafaaaafaaaafaaaafaaaafaaaafaaaafaaaafaaaafaaaafaaaafaaaafaaaafaaaafaaaafaaaafaaaafaaaafaaaafaaaafaaaafaaaafaaaafaaaafaaaafaaaafaaaafaaaafaaaafaaaafaaaafaaaafaaaafaaaafaaaafaaaafaaaafaaaafaaaafaaaafaaaafaaaafaaaafaaaafaaaafaaaafaaaafaaaafaaaafaaaafaaaafaaaafaaaafaaaafaaaafaaaafaaaafaaaafaaaafaaaafaaaafaaaafaaaafaaaafaaaafaaaafaaaafaaaafaaaafaaaafaaaafaaaafaaaafaaaafaaaafaaaafaaaafaaaafaaaafaaaafaaaafaaaafaaaafaaaafaaaafaaaafaaaafaaaafaaaafaaaafaaaafaaaafaaaafaaaafaaaafaaaafaaaafaaaafaaaafaaaafaaaafaaaafaaaafaaaafaaaafaaaafaaaafaaaafaaaafaaaafaaaafaaaafaaaafaaaafaaaafaaaafaaaafaaaafaaaafaaaafaaaafaaaafaaaafaaaafaaaafaaaafaaaafaaaafaaaafaaaafaaaafaaaafaaaafaaaafaaaafaaaafaaaafaaaafaaaafaaaafaaaafaaaafaaaafaaaafaaaafaaaafaaaafaaaafaaaafaaaafaaaafaaaafaaaafaaaafaaaafaaaafaaaafaaaafaaaafaaaafaaaafaaaafaaaafaaaafaaaafaaaafaaaafaaaafaaaafaaaafaaaafaaaafaaaafaaaafaaaafaaaafaaaafaaaafaaaafaaaafaaaafaaaafaaaafaaaafaaaafaaaafaaaafaaaafaaaafaaaafaaaafaaaafaaaafaaaafaaaafaaaafaaaafaaaafaaaafaaaafaaaafaaaafaaaafaaaafaaaafaaaafaaaafaaaafaaaafaaaafaaaafaaaafaaaafaaaafaaaafaaaafaaaafaaaafaaaafaaaafaaaafaaaafaaaafaaaafaaaafaaaafaaaafaaaafaaaafaaaafaaaafaaaafaaaafaaaafaaaafaaaafaaaafaaaafaaaafaaaafaaaafaaaafaaaafaaaafaaaafaaaafaaaafaaaafaaaafaaaafaaaafaaaafaaaafaaaafaaaafaaaafaaaafaaaafaaaafaaaafaaaafaaaafaaaafaaaafaaaafaaaafaaaafaaaafaaaafaaaafaaaafaaaafaaaafaaaafaaaafaaaafaaaafaaaafaaaafaaaafaaaafaaaafaaaafaaaafaaaafaaaafaaaafaaaafaaaafaaaafaaaafaaaafaaaafaaaafaaaafaaaafaaaafaaaafaaaafaaaafaaaafaaaafaaaafaaaafaaaafaaaafaaaafaaaafaaaafaaaafaaaafaaaafaaaafaaaafaaaafaaaafaaaafaaaafaaaafaaaafaaaafaaaafaaaafaaaafaaaafaaaafaaaafaaaafaaaafaaaafaaaafaaaafaaaafaaaafaaaafaaaafaaaafaaaafaaaafaaaafaaaafaaaafaaaafaaaafaaaafaaaafaaaafaaaafaaaafaaaafaaaafaaaafaaaafaaaafaaaafaaaafaaaafaaaafaaaafaaaafaaaafaaaafaaaafaaaafaaaafaaaafaaaafaaaafaaaafaaaafaaaafaaaafaaaafaaaafaaaafaaaafaaaafaaaafaaaafaaaafaaaafaaaafaaaafaaaafaaaafaaaafaaaafaaaafaaaafaaaafaaaafaaaafaaaafaaaafaaaafaaaafaaaafaaaafaaaafaaaafaaaafaaaafaaaafaaaafaaaafaaaafaaaafaaaafaaaafaaaafaaaafaaaafaaaafaaaafaaaafaaaafaaaafaaaafaaaafaaaafaaaafaaaafaaaafaaaafaaaafaaaafaaaafaaaafaaaafaaaafaaaafaaaafaaaafaaaafaaaafaaaafaaaafaaaafaaaafaaaafaaaafaaaafaaaafaaaafaaaafaaaafaaaafaaaafaaaafaaaafaaaafaaaafaaaafaaaafaaaafaaaafaaaafaaaafaaaafaaaafaaaafaaaafaaaafaaaafaaaafaaaafaaaafaaaafaaaafaaaafaaaafaaaafaaaafaaaafaaaafaaaafaaaafaaaafaaaafaaaafaaaafaaaafaaaafaaaafaaaafaaaafaaaafaaaafaaaafaaaafaaaafaaaafaaaafaaaafaaaafaaaafaaaafaaaafaaaafaaaafaaaafaaaafaaaafaaaafaaaafaaaafaaaafaaaafaaaafaaaafaaaafaaaafaaaafaaaafaaaafaaaafaaaafaaaafaaaafaaaafaaaafaaaafaaaafaaaafaaaafaaaafaaaafaaaafaaaafaaaafaaaafaaaafaaaafaaaafaaaafaaaafaaaafaaaafaaaafaaaafaaaafaaaafaaaafaaaafaaaafaaaafaaaafaaaafaaaafaaaafaaaafaaaafaaaafaaaafaaaafaaaafaaaafaaaafaaaafaaaafaaaafaaaafaaaafaaaafaaaafaaaafaaaafaaaafaaaafaaaafaaaafaaaafaaaafaaaafaaaafaaaafaaaafaaaafaaaafaaaafaaaafaaaafaaaafaaaafaaaafaaaafaaaafaaaafaaaafaaaafaaaafaaaafaaaafaaaafaaaafaaaafaaaafaaaafaaaafaaaafaaaafaaaafaaaafaaaafaaaafaaaafaaaafaaaafaaaafaaaafaaaafaaaafaaaafaaaafaaaafaaaafaaaafaaaafaaaafaaaafaaaafaaaafaaaafaaaafaaaafaaaafaaaafaaaafaaaafaaaafaaaafaaaafaaaafaaaafaaaafaaaafaaaafaaaafaaaafaaaafaaaafaaaafaaaafaaaafaaaafaaaafaaaafaaaafaaaafaaaafaaaafaaaafaaaafaaaafaaaafaaaafaaaafaaaafaaaafaaaafaaaafaaaafaaaafaaaafaaaafaaaafaaaafaaaafaaaafaaaafaaaafaaaafaaaafaaaafaaaafaaaafaaaafaaaafaaaafaaaafaaaafaaaafaaaafaaaafaaaafaaaafaaaafaaaafaaaafaaaafaaaafaaaafaaaafaaaafaaaafaaaafaaaafaaaafaaaafaaaafaaaafaaaafaaaafaaaafaaaafaaaafaaaafaaaafaaaafaaaafaaaafaaaafaaaafaaaafaaaafaaaafaaaafaaaafaaaafaaaafaaaafaaaafaaaafaaaafaaaafaaaafaaaafaaaafaaaafaaaafaaaafaaaafaaaafaaaafaaaafaaaafaaaafaaaafaaaafaaaafaaaafaaaafaaaafaaaafaaaafaaaafaaaafaaaafaaaafaaaafaaaafaaaafaaaafaaaafaaaafaaaafaaaafaaaafaaaafaaaafaaaafaaaafaaaafaaaafaaaafaaaafaaaafaaaafaaaafaaaafaaaafaaaafaaaafaaaafaaaafaaaafaaaafaaaafaaaafaaaafaaaafaaaafaaaafaaaafaaaafaaaafaaaafaaaafaaaafaaaafaaaafaaaafaaaafaaaafaaaafaaaafaaaafaaaafaaaafaaaafaaaafaaaafaaaafaaaafaaaafaaaafaaaafaaaafaaaafaaaafaaaafaaaafaaaafaaaafaaaafaaaafaaaafaaaafaaaafaaaafaaaafaaaafaaaafaaaafaaaafaaaafaaaafaaaafaaaafaaaafaaaafaaaafaaaafaaaafaaaafaaaafaaaafaaaafaaaafaaaafaaaafaaaafaaaafaaaafaaaafaaaafaaaafaaaafaaaafaaaafaaaafaaaafaaaafaaaafaaaafaaaafaaaafaaaafaaaafaaaafaaaafaaaafaaaafaaaafaaaafaaaafaaaafaaaafaaaafaaaafaaaafaaaafaaaafaaaafaaaafaaaafaaaafaaaafaaaafaaaafaaaafaaaafaaaafaaaafaaaafaaaafaaaafaaaafaaaafaaaafaaaafaaaafaaaafaaaafaaaafaaaafaaaafaaaafaaaafaaaafaaaafaaaafaaaafaaaafaaaafaaaafaaaafaaaafaaaafaaaafaaaafaaaafaaaafaaaafaaaafaaaafaaaafaaaafaaaafaaaafaaaafaaaafaaaafaaaafaaaafaaaafaaaafaaaafaaaafaaaafaaaafaaaafaaaafaaaafaaaafaaaafaaaafaaaafaaaafaaaafaaaafaaaafaaaafaaaafaaaafaaaafaaaafaaaafaaaafaaaafaaaafaaaafaaaafaaaafaaaafaaaafaaaafaaaafaaaafaaaafaaaafaaaafaaaafaaaafaaaafaaaafaaaafaaaafaaaafaaaafaaaafaaaafaaaafaaaafaaaafaaaafaaaafaaaafaaaafaaaafaaaafaaaafaaaafaaaafaaaafaaaafaaaafaaaafaaaafaaaafaaaafaaaafaaaafaaaafaaaafaaaafaaaafaaaafaaaafaaaafaaaafaaaafaaaafaaaafaaaafaaaafaaaafaaaafaaaafaaaafaaaafaaaafaaaafaaaafaaaafaaaafaaaafaaaafaaaafaaaafaaaafaaaafaaaafaaaafaaaafaaaafaaaafaaaafaaaafaaaafaaaafaaaafaaaafaaaafaaaafaaaafaaaafaaaafaaaafaaaafaaaafaaaafaaaafaaaafaaaafaaaafaaaafaaaafaaaafaaaafaaaafaaaafaaaafaaaafaaaafaaaafaaaafaaaafaaaafaaaafaaaafaaaafaaaafaaaafaaaafaaaafaaaafaaaafaaaafaaaafaaaafaaaafaaaafaaaafaaaafaaaafaaaafaaaafaaaafaaaafaaaafaaaafaaaafaaaafaaaafaaaafaaaafaaaafaaaafaaaafaaaafaaaafaaaafaaaafaaaafaaaafaaaafaaaafaaaafaaaafaaaafaaaafaaaafaaaafaaaafaaaafaaaafaaaafaaaafaaaafaaaafaaaafaaaafaaaafaaaafaaaafaaaafaaaafaaaafaaaafaaaafaaaafaaaafaaaafaaaafaaaafaaaafaaaafaaaafaaaafaaaafaaaafaaaafaaaafaaaafaaaafaaaafaaaafaaaafaaaafaaaafaaaafaaaafaaaafaaaafaaaafaaaafaaaafaaaafaaaafaaaafaaaafaaaafaaaafaaaafaaaafaaaafaaaafaaaafaaaafaaaafaaaafaaaafaaaafaaaafaaaafaaaafaaaafaaaafaaaafaaaafaaaafaaaafaaaafaaaafaaaafaaaafaaaafaaaafaaaafaaaafaaaafaaaafaaaafaaaafaaaafaaaafaaaafaaaafaaaafaaaafaaaafaaaafaaaafaaaafaaaafaaaafaaaafaaaafaaaafaaaafaaaafaaaafaaaafaaaafaaaafaaaafaaaafaaaafaaaafaaaafaaaafaaaafaaaafaaaafaaaafaaaafaaaafaaaafaaaafaaaafaaaafaaaafaaaafaaaafaaaafaaaafaaaafaaaafaaaafaaaafaaaafaaaafaaaafaaaafaaaafaaaafaaaafaaaafaaaafaaaafaaaafaaaafaaaafaaaafaaaafaaaafaaaafaaaafaaaafaaaafaaaafaaaafaaaafaaaafaaaafaaaafaaaafaaaafaaaafaaaafaaaafaaaafaaaafaaaafaaaafaaaafaaaafaaaafaaaafaaaafaaaafaaaafaaaafaaaafaaaafaaaafaaaafaaaafaaaafaaaafaaaafaaaafaaaafaaaafaaaafaaaafaaaafaaaafaaaafaaaafaaaafaaaafaaaafaaaafaaaafaaaafaaaafaaaafaaaafaaaafaaaafaaaafaaaafaaaafaaaafaaaafaaaafaaaafaaaafaaaafaaaafaaaafaaaafaaaafaaaafaaaafaaaafaaaafaaaafaaaafaaaafaaaafaaaafaaaafaaaafaaaafaaaafaaaafaaaafaaaafaaaafaaaafaaaafaaaafaaaafaaaafaaaafaaaafaaaafaaaafaaaafaaaafaaaafaaaafaaaafaaaafaaaafaaaafaaaafaaaafaaaafaaaafaaaafaaaafaaaafaaaafaaaafaaaafaaaafaaaafaaaafaaaafaaaafaaaafaaaafaaaafaaaafaaaafaaaafaaaafaaaafaaaafaaaafaaaafaaaafaaaafaaaafaaaafaaaafaaaafaaaafaaaafaaaafaaaafaaaafaaaafaaaafaaaafaaaafaaaafaaaafaaaafaaaafaaaafaaaafaaaafaaaafaaaafaaaafaaaafaaaafaaaafaaaafaaaafaaaafaaaafaaaafaaaafaaaafaaaafaaaafaaaafaaaafaaaafaaaafaaaafaaaafaaaafaaaafaaaafaaaafaaaafaaaafaaaafaaaafaaaafaaaafaaaafaaaafaaaafaaaafaaaafaaaafaaaafaaaafaaaafaaaafaaaafaaaafaaaafaaaafaaaafaaaafaaaafaaaafaaaafaaaafaaaafaaaafaaaafaaaafaaaafaaaafaaaafaaaafaaaafaaaafaaaafaaaafaaaafaaaafaaaafaaaafaaaafaaaafaaaafaaaafaaaafaaaafaaaafaaaafaaaafaaaafaaaafaaaafaaaafaaaafaaaafaaaafaaaafaaaafaaaafaaaafaaaafaaaafaaaafaaaafaaaafaaaafaaaafaaaafaaaafaaaafaaaafaaaafaaaafaaaafaaaafaaaafaaaafaaaafaaaafaaaafaaaafaaaafaaaafaaaafaaaafaaaafaaaafaaaafaaaafaaaafaaaafaaaafaaaafaaaafaaaafaaaafaaaafaaaafaaaafaaaafaaaafaaaafaaaafaaaafaaaafaaaafaaaafaaaafaaaafaaaafaaaafaaaafaaaafaaaafaaaafaaaafaaaafaaaafaaaafaaaafaaaafaaaafaaaafaaaafaaaafaaaafaaaafaaaafaaaafaaaafaaaafaaaafaaaafaaaafaaaafaaaafaaaafaaaafaaaafaaaafaaaafaaaafaaaafaaaafaaaafaaaafaaaafaaaafaaaafaaaafaaaafaaaafaaaafaaaafaaaafaaaafaaaafaaaafaaaafaaaafaaaafaaaafaaaafaaaafaaaafaaaafaaaafaaaafaaaafaaaafaaaafaaaafaaaafaaaafaaaafaaaafaaaafaaaafaaaafaaaafaaaafaaaafaaaafaaaafaaaafaaaafaaaafaaaafaaaafaaaafaaaafaaaafaaaafaaaafaaaafaaaafaaaafaaaafaaaafaaaafaaaafaaaafaaaafaaaafaaaafaaaafaaaafaaaafaaaafaaaafaaaafaaaafaaaafaaaafaaaafaaaafaaaafaaaafaaaafaaaafaaaafaaaafaaaafaaaafaaaafaaaafaaaafaaaafaaaafaaaafaaaafaaaafaaaafaaaafaaaafaaaafaaaafaaaafaaaafaaaafaaaafaaaafaaaafaaaafaaaafaaaafaaaafaaaafaaaafaaaafaaaafaaaafaaaafaaaafaaaafaaaafaaaafaaaafaaaafaaaafaaaafaaaafaaaafaaaafaaaafaaaafaaaafaaaafaaaafaaaafaaaafaaaafaaaafaaaafaaaafaaaafaaaafaaaafaaaafaaaafaaaafaaaafaaaafaaaafaaaafaaaafaaaafaaaafaaaafaaaafaaaafaaaafaaaafaaaafaaaafaaaafaaaafaaaafaaaafaaaafaaaafaaaafaaaafaaaafaaaafaaaafaaaafaaaafaaaafaaaafaaaafaaaafaaaafaaaafaaaafaaaafaaaafaaaafaaaafaaaafaaaafaaaafaaaafaaaafaaaafaaaafaaaafaaaafaaaafaaaafaaaafaaaafaaaafaaaafaaaafaaaafaaaafaaaafaaaafaaaafaaaafaaaafaaaafaaaafaaaafaaaafaaaafaaaafaaaafaaaafaaaafaaaafaaaafaaaafaaaafaaaafaaaafaaaafaaaafaaaafaaaafaaaafaaaafaaaafaaaafaaaafaaaafaaaafaaaafaaaafaaaafaaaafaaaafaaaafaaaafaaaafaaaafaaaafaaaafaaaafaaaafaaaafaaaafaaaafaaaafaaaafaaaafaaaafaaaafaaaafaaaafaaaafaaaafaaaafaaaafaaaafaaaafaaaafaaaafaaaafaaaafaaaafaaaafaaaafaaaafaaaafaaaafaaaafaaaafaaaafaaaafaaaafaaaafaaaafaaaafaaaafaaaafaaaafaaaafaaaafaaaafaaaafaaaafaaaafaaaafaaaafaaaafaaaafaaaafaaaafaaaafaaaafaaaafaaaafaaaafaaaafaaaafaaaafaaaafaaaafaaaafaaaafaaaafaaaafaaaafaaaafaaaafaaaafaaaafaaaafaaaafaaaafaaaafaaaafaaaafaaaafaaaafaaaafaaaafaaaafaaaafaaaafaaaafaaaafaaaafaaaafaaaafaaaafaaaafaaaafaaaafaaaafaaaafaaaafaaaafaaaafaaaafaaaafaaaafaaaafaaaafaaaafaaaafaaaafaaaafaaaafaaaafaaaafaaaafaaaafaaaafaaaafaaaafaaaafaaaafaaaafaaaafaaaafaaaafaaaafaaaafaaaafaaaafaaaafaaaafaaaafaaaafaaaafaaaafaaaafaaaafaaaafaaaafaaaafaaaafaaaafaaaafaaaafaaaafaaaafaaaafaaaafaaaafaaaafaaaafaaaafaaaafaaaafaaaafaaaafaaaafaaaafaaaafaaaafaaaafaaaafaaaafaaaafaaaafaaaafaaaafaaaafaaaafaaaafaaaafaaaafaaaafaaaafaaaafaaaafaaaafaaaafaaaafaaaafaaaafaaaafaaaafaaaafaaaafaaaafaaaafaaaafaaaafaaaafaaaafaaaafaaaafaaaafaaaafaaaafaaaafaaaafaaaafaaaafaaaafaaaafaaaafaaaafaaaafaaaafaaaafaaaafaaaafaaaafaaaafaaaafaaaafaaaafaaaafaaaafaaaafaaaafaaaafaaaafaaaafaaaafaaaafaaaafaaaafaaaafaaaafaaaafaaaafaaaafaaaafaaaafaaaafaaaafaaaafaaaafaaaafaaaafaaaafaaaafaaaafaaaafaaaafaaaafaaaafaaaafaaaafaaaafaaaafaaaafaaaafaaaafaaaafaaaafaaaafaaaafaaaafaaaafaaaafaaaafaaaafaaaafaaaafaaaafaaaafaaaafaaaafaaaafaaaafaaaafaaaafaaaafaaaafaaaafaaaafaaaafaaaafaaaafaaaafaaaafaaaafaaaafaaaafaaaafaaaafaaaafaaaafaaaafaaaafaaaafaaaafaaaafaaaafaaaafaaaafaaaafaaaafaaaafaaaafaaaafaaaafaaaafaaaafaaaafaaaafaaaafaaaafaaaafaaaafaaaafaaaafaaaafaaaafaaaafaaaafaaaafaaaafaaaafaaaafaaaafaaaafaaaafaaaafaaaafaaaafaaaafaaaafaaaafaaaafaaaafaaaafaaaafaaaafaaaafaaaafaaaafaaaafaaaafaaaafaaaafaaaafaaaafaaaafaaaafaaaafaaaafaaaafaaaafaaaafaaaafaaaafaaaafaaaafaaaafaaaafaaaafaaaafaaaafaaaafaaaafaaaafaaaafaaaafaaaafaaaafaaaafaaaafaaaafaaaafaaaafaaaafaaaafaaaafaaaafaaaafaaaafaaaafaaaafaaaafaaaafaaaafaaaafaaaafaaaafaaaafaaaafaaaafaaaafaaaafaaaafaaaafaaaafaaaafaaaafaaaafaaaafaaaafaaaafaaaafaaaafaaaafaaaafaaaafaaaafaaaafaaaafaaaafaaaafaaaafaaaafaaaafaaaafaaaafaaaafaaaafaaaafaaaafaaaafaaaafaaaafaaaafaaaafaaaafaaaafaaaafaaaafaaaafaaaafaaaafaaaafaaaafaaaafaaaafaaaafaaaafaaaafaaaafaaaafaaaafaaaafaaaafaaaafaaaafaaaafaaaafaaaafaaaafaaaafaaaafaaaafaaaafaaaafaaaafaaaafaaaafaaaafaaaafaaaafaaaafaaaafaaaafaaaafaaaafaaaafaaaafaaaafaaaafaaaafaaaafaaaafaaaafaaaafaaaafaaaafaaaafaaaafaaaafaaaafaaaafaaaafaaaafaaaafaaaafaaaafaaaafaaaafaaaafaaaafaaaafaaaafaaaafaaaafaaaafaaaafaaaafaaaafaaaafaaaafaaaafaaaafaaaafaaaafaaaafaaaafaaaafaaaafaaaafaaaafaaaafaaaafaaaafaaaafaaaafaaaafaaaafaaaafaaaafaaaafaaaafaaaafaaaafaaaafaaaafaaaafaaaafaaaafaaaafaaaafaaaafaaaafaaaafaaaafaaaafaaaafaaaafaaaafaaaafaaaafaaaafaaaafaaaafaaaafaaaafaaaafaaaafaaaafaaaafaaaafaaaafaaaafaaaafaaaafaaaafaaaafaaaafaaaafaaaafaaaafaaaafaaaafaaaafaaaafaaaafaaaafaaaafaaaafaaaafaaaafaaaafaaaafaaaafaaaafaaaafaaaafaaaafaaaafaaaafaaaafaaaafaaaafaaaafaaaafaaaafaaaafaaaafaaaafaaaafaaaafaaaafaaaafaaaafaaaafaaaafaaaafaaaafaaaafaaaafaaaafaaaafaaaafaaaafaaaafaaaafaaaafaaaafaaaafaaaafaaaafaaaafaaaafaaaafaaaafaaaafaaaafaaaafaaaafaaaafaaaafaaaafaaaafaaaafaaaafaaaafaaaafaaaafaaaafaaaafaaaafaaaafaaaafaaaafaaaafaaaafaaaafaaaafaaaafaaaafaaaafaaaafaaaafaaaafaaaafaaaafaaaafaaaafaaaafaaaafaaaafaaaafaaaafaaaafaaaafaaaafaaaafaaaafaaaafaaaafaaaafaaaafaaaafaaaafaaaafaaaafaaaafaaaafaaaafaaaafaaaafaaaafaaaafaaaafaaaafaaaafaaaafaaaafaaaafaaaafaaaafaaaafaaaafaaaafaaaafaaaafaaaafaaaafaaaafaaaafaaaafaaaafaaaafaaaafaaaafaaaafaaaafaaaafaaaafaaaafaaaafaaaafaaaafaaaafaaaafaaaafaaaafaaaafaaaafaaaafaaaafaaaafaaaafaaaafaaaafaaaafaaaafaaaafaaaafaaaafaaaafaaaafaaaafaaaafaaaafaaaafaaaafaaaafaaaafaaaafaaaafaaaafaaaafaaaafaaaafaaaafaaaafaaaafaaaafaaaafaaaafaaaafaaaafaaaafaaaafaaaafaaaafaaaafaaaafaaaafaaaafaaaafaaaafaaaafaaaafaaaafaaaafaaaafaaaafaaaafaaaafaaaafaaaafaaaafaaaafaaaafaaaafaaaafaaaafaaaafaaaafaaaafaaaafaaaafaaaafaaaafaaaafaaaafaaaafaaaafaaaafaaaafaaaafaaaafaaaafaaaafaaaafaaaafaaaafaaaafaaaafaaaafaaaafaaaafaaaafaaaafaaaafaaaafaaaafaaaafaaaafaaaafaaaafaaaafaaaafaaaafaaaafaaaafaaaafaaaafaaaafaaaafaaaafaaaafaaaafaaaafaaaafaaaafaaaafaaaafaaaafaaaafaaaafaaaafaaaafaaaafaaaafaaaafaaaafaaaafaaaafaaaafaaaafaaaafaaaafaaaafaaaafaaaafaaaafaaaafaaaafaaaafaaaafaaaafaaaafaaaafaaaafaaaafaaaafaaaafaaaafaaaafaaaafaaaafaaaafaaaafaaaafaaaafaaaafaaaafaaaafaaaafaaaafaaaafaaaafaaaafaaaafaaaafaaaafaaaafaaaafaaaafaaaafaaaafaaaafaaaafaaaafaaaafaaaafaaaafaaaafaaaafaaaafaaaafaaaafaaaafaaaafaaaafaaaafaaaafaaaafaaaafaaaafaaaafaaaafaaaafaaaafaaaafaaaafaaaafaaaafaaaafaaaafaaaafaaaafaaaafaaaafaaaafaaaafaaaafaaaafaaaafaaaafaaaafaaaafaaaafaaaafaaaafaaaafaaaafaaaafaaaafaaaafaaaafaaaafaaaafaaaafaaaafaaaafaaaafaaaafaaaafaaaafaaaafaaaafaaaafaaaafaaaafaaaafaaaafaaaafaaaafaaaafaaaafaaaafaaaafaaaafaaaafaaaafaaaafaaaafaaaafaaaafaaaafaaaafaaaafaaaafaaaafaaaafaaaafaaaafaaaafaaaafaaaafaaaafaaaafaaaafaaaafaaaafaaaafaaaafaaaafaaaafaaaafaaaafaaaafaaaafaaaafaaaafaaaafaaaafaaaafaaaafaaaafaaaafaaaafaaaafaaaafaaaafaaaafaaaafaaaafaaaafaaaafaaaafaaaafaaaafaaaafaaaafaaaafaaaafaaaafaaaafaaaafaaaafaaaafaaaafaaaafaaaafaaaafaaaafaaaafaaaafaaaafaaaafaaaafaaaafaaaafaaaafaaaafaaaafaaaafaaaafaaaafaaaafaaaafaaaafaaaafaaaafaaaafaaaafaaaafaaaafaaaafaaaafaaaafaaaafaaaafaaaafaaaafaaaafaaaafaaaafaaaafaaaafaaaafaaaafaaaafaaaafaaaafaaaafaaaafaaaafaaaafaaaafaaaafaaaafaaaafaaaafaaaafaaaafaaaafaaaafaaaafaaaafaaaafaaaafaaaafaaaafaaaafaaaafaaaafaaaafaaaafaaaafaaaafaaaafaaaafaaaafaaaafaaaafaaaafaaaafaaaafaaaafaaaafaaaafaaaafaaaafaaaafaaaafaaaafaaaafaaaafaaaafaaaafaaaafaaaafaaaafaaaafaaaafaaaafaaaafaaaafaaaafaaaafaaaafaaaafaaaafaaaafaaaafaaaafaaaafaaaafaaaafaaaafaaaafaaaafaaaafaaaafaaaafaaaafaaaafaaaafaaaafaaaafaaaafaaaafaaaafaaaafaaaafaaaafaaaafaaaafaaaafaaaafaaaafaaaafaaaafaaaafaaaafaaaafaaaafaaaafaaaafaaaafaaaafaaaafaaaafaaaafaaaafaaaafaaaafaaaafaaaafaaaafaaaafaaaafaaaafaaaafaaaafaaaafaaaafaaaafaaaafaaaafaaaafaaaafaaaafaaaafaaaafaaaafaaaafaaaafaaaafaaaafaaaafaaaafaaaafaaaafaaaafaaaafaaaafaaaafaaaafaaaafaaaafaaaafaaaafaaaafaaaafaaaafaaaafaaaafaaaafaaaafaaaafaaaafaaaafaaaafaaaafaaaafaaaafaaaafaaaafaaaafaaaafaaaafaaaafaaaafaaaafaaaafaaaafaaaafaaaafaaaafaaaafaaaafaaaafaaaafaaaafaaaafaaaafaaaafaaaafaaaafaaaafaaaafaaaafaaaafaaaafaaaafaaaafaaaafaaaafaaaafaaaafaaaafaaaafaaaafaaaafaaaafaaaafaaaafaaaafaaaafaaaafaaaafaaaafaaaafaaaafaaaafaaaafaaaafaaaafaaaafaaaafaaaafaaaafaaaafaaaafaaaafaaaafaaaafaaaafaaaafaaaafaaaafaaaafaaaafaaaafaaaafaaaafaaaafaaaafaaaafaaaafaaaafaaaafaaaafaaaafaaaafaaaafaaaafaaaafaaaafaaaafaaaafaaaafaaaafaaaafaaaafaaaafaaaafaaaafaaaafaaaafaaaafaaaafaaaafaaaafaaaafaaaafaaaafaaaafaaaafaaaafaaaafaaaafaaaafaaaafaaaafaaaafaaaafaaaafaaaafaaaafaaaafaaaafaaaafaaaafaaaafaaaafaaaafaaaafaaaafaaaafaaaafaaaafaaaafaaaafaaaafaaaafaaaafaaaafaaaafaaaafaaaafaaaafaaaafaaaafaaaafaaaafaaaafaaaafaaaafaaaafaaaafaaaafaaaafaaaafaaaafaaaafaaaafaaaafaaaafaaaafaaaafaaaafaaaafaaaafaaaafaaaafaaaafaaaafaaaafaaaafaaaafaaaafaaaafaaaafaaaafaaaafaaaafaaaafaaaafaaaafaaaafaaaafaaaafaaaafaaaafaaaafaaaafaaaafaaaafaaaafaaaafaaaafaaaafaaaafaaaafaaaafaaaafaaaafaaaafaaaafaaaafaaaafaaaafaaaafaaaafaaaafaaaafaaaafaaaafaaaafaaaafaaaafaaaafaaaafaaaafaaaafaaaafaaaafaaaafaaaafaaaafaaaafaaaafaaaafaaaafaaaafaaaafaaaafaaaafaaaafaaaafaaaafaaaafaaaafaaaafaaaafaaaafaaaafaaaafaaaafaaaafaaaafaaaafaaaafaaaafaaaafaaaafaaaafaaaafaaaafaaaafaaaafaaaafaaaafaaaafaaaafaaaafaaaafaaaafaaaafaaaafaaaafaaaafaaaafaaaafaaaafaaaafaaaafaaaafaaaafaaaafaaaafaaaafaaaafaaaafaaaafaaaafaaaafaaaafaaaafaaaafaaaafaaaafaaaafaaaafaaaafaaaafaaaafaaaafaaaafaaaafaaaafaaaafaaaafaaaafaaaafaaaafaaaafaaaafaaaafaaaafaaaafaaaafaaaafaaaafaaaafaaaafaaaafaaaafaaaafaaaafaaaafaaaafaaaafaaaafaaaafaaaafaaaafaaaafaaaafaaaafaaaafaaaafaaaafaaaafaaaafaaaafaaaafaaaafaaaafaaaafaaaafaaaafaaaafaaaafaaaafaaaafaaaafaaaafaaaafaaaafaaaafaaaafaaaafaaaafaaaafaaaafaaaafaaaafaaaafaaaafaaaafaaaafaaaafaaaafaaaafaaaafaaaafaaaafaaaafaaaafaaaafaaaafaaaafaaaafaaaafaaaafaaaafaaaafaaaafaaaafaaaafaaaafaaaafaaaafaaaafaaaafaaaafaaaafaaaafaaaafaaaafaaaafaaaafaaaafaaaafaaaafaaaafaaaafaaaafaaaafaaaafaaaafaaaafaaaafaaaafaaaafaaaafaaaafaaaafaaaafaaaafaaaafaaaafaaaafaaaafaaaafaaaafaaaafaaaafaaaafaaaafaaaafaaaafaaaafaaaafaaaafaaaafaaaafaaaafaaaafaaaafaaaafaaaafaaaafaaaafaaaafaaaafaaaafaaaafaaaafaaaafaaaafaaaafaaaafaaaafaaaafaaaafaaaafaaaafaaaafaaaafaaaafaaaafaaaafaaaafaaaafaaaafaaaafaaaafaaaafaaaafaaaafaaaafaaaafaaaafaaaafaaaafaaaafaaaafaaaafaaaafaaaafaaaafaaaafaaaafaaaafaaaafaaaafaaaafaaaafaaaafaaaafaaaafaaaafaaaafaaaafaaaafaaaafaaaafaaaafaaaafaaaafaaaafaaaafaaaafaaaafaaaafaaaafaaaafaaaafaaaafaaaafaaaafaaaafaaaafaaaafaaaafaaaafaaaafaaaafaaaafaaaafaaaafaaaafaaaafaaaafaaaafaaaafaaaafaaaafaaaafaaaafaaaafaaaafaaaafaaaafaaaafaaaafaaaafaaaafaaaafaaaafaaaafaaaafaaaafaaaafaaaafaaaafaaaafaaaafaaaafaaaafaaaafaaaafaaaafaaaafaaaafaaaafaaaafaaaafaaaafaaaafaaaafaaaafaaaafaaaafaaaafaaaafaaaafaaaafaaaafaaaafaaaafaaaafaaaafaaaafaaaafaaaafaaaafaaaafaaaafaaaafaaaafaaaafaaaafaaaafaaaafaaaafaaaafaaaafaaaafaaaafaaaafaaaafaaaafaaaafaaaafaaaafaaaafaaaafaaaafaaaafaaaafaaaafaaaafaaaafaaaafaaaafaaaafaaaafaaaafaaaafaaaafaaaafaaaafaaaafaaaafaaaafaaaafaaaafaaaafaaaafaaaafaaaafaaaafaaaafaaaafaaaafaaaafaaaafaaaafaaaafaaaafaaaafaaaafaaaafaaaafaaaafaaaafaaaafaaaafaaaafaaaafaaaafaaaafaaaafaaaafaaaafaaaafaaaafaaaafaaaafaaaafaaaafaaaafaaaafaaaafaaaafaaaafaaaafaaaafaaaafaaaafaaaafaaaafaaaafaaaafaaaafaaaafaaaafaaaafaaaafaaaafaaaafaaaafaaaafaaaafaaaafaaaafaaaafaaaafaaaafaaaafaaaafaaaafaaaafaaaafaaaafaaaafaaaafaaaafaaaafaaaafaaaafaaaafaaaafaaaafaaaafaaaafaaaafaaaafaaaafaaaafaaaafaaaafaaaafaaaafaaaafaaaafaaaafaaaafaaaafaaaafaaaafaaaafaaaafaaaafaaaafaaaafaaaafaaaafaaaafaaaafaaaafaaaafaaaafaaaafaaaafaaaafaaaafaaaafaaaafaaaafaaaafaaaafaaaafaaaafaaaafaaaafaaaafaaaafaaaafaaaafaaaafaaaafaaaafaaaafaaaafaaaafaaaafaaaafaaaafaaaafaaaafaaaafaaaafaaaafaaaafaaaafaaaafaaaafaaaafaaaafaaaafaaaafaaaafaaaafaaaafaaaafaaaafaaaafaaaafaaaafaaaafaaaafaaaafaaaafaaaafaaaafaaaafaaaafaaaafaaaafaaaafaaaafaaaafaaaafaaaafaaaafaaaafaaaafaaaafaaaafaaaafaaaafaaaafaaaafaaaafaaaafaaaafaaaafaaaafaaaafaaaafaaaafaaaafaaaafaaaafaaaafaaaafaaaafaaaafaaaafaaaafaaaafaaaafaaaafaaaafaaaafaaaafaaaafaaaafaaaafaaaafaaaafaaaafaaaafaaaafaaaafaaaafaaaafaaaafaaaafaaaafaaaafaaaafaaaafaaaafaaaafaaaafaaaafaaaafaaaafaaaafaaaafaaaafaaaafaaaafaaaafaaaafaaaafaaaafaaaafaaaafaaaafaaaafaaaafaaaafaaaafaaaafaaaafaaaafaaaafaaaafaaaafaaaafaaaafaaaafaaaafaaaafaaaafaaaafaaaafaaaafaaaafaaaafaaaafaaaafaaaafaaaafaaaafaaaafaaaafaaaafaaaafaaaafaaaafaaaafaaaafaaaafaaaafaaaafaaaafaaaafaaaafaaaafaaaafaaaafaaaafaaaafaaaafaaaafaaaafaaaafaaaafaaaafaaaafaaaafaaaafaaaafaaaafaaaafaaaafaaaafaaaafaaaafaaaafaaaafaaaafaaaafaaaafaaaafaaaafaaaafaaaafaaaafaaaafaaaafaaaafaaaafaaaafaaaafaaaafaaaafaaaafaaaafaaaafaaaafaaaafaaaafaaaafaaaafaaaafaaaafaaaafaaaafaaaafaaaafaaaafaaaafaaaafaaaafaaaafaaaafaaaafaaaafaaaafaaaafaaaafaaaafaaaafaaaafaaaafaaaafaaaafaaaafaaaafaaaafaaaafaaaafaaaafaaaafaaaafaaaafaaaafaaaafaaaafaaaafaaaafaaaafaaaafaaaafaaaafaaaafaaaafaaaafaaaafaaaafaaaafaaaafaaaafaaaafaaaafaaaafaaaafaaaafaaaafaaaafaaaafaaaafaaaafaaaafaaaafaaaafaaaafaaaafaaaafaaaafaaaafaaaafaaaafaaaafaaaafaaaafaaaafaaaafaaaafaaaafaaaafaaaafaaaafaaaafaaaafaaaafaaaafaaaafaaaafaaaafaaaafaaaafaaaafaaaafaaaafaaaafaaaafaaaafaaaafaaaafaaaafaaaafaaaafaaaafaaaafaaaafaaaafaaaafaaaafaaaafaaaafaaaafaaaafaaaafaaaafaaaafaaaafaaaafaaaafaaaafaaaafaaaafaaaafaaaafaaaafaaaafaaaafaaaafaaaafaaaafaaaafaaaafaaaafaaaafaaaafaaaafaaaafaaaafaaaafaaaafaaaafaaaafaaaafaaaafaaaafaaaafaaaafaaaafaaaafaaaafaaaafaaaafaaaafaaaafaaaafaaaafaaaafaaaafaaaafaaaafaaaafaaaafaaaafaaaafaaaafaaaafaaaafaaaafaaaafaaaafaaaafaaaafaaaafaaaafaaaafaaaafaaaafaaaafaaaafaaaafaaaafaaaafaaaafaaaafaaaafaaaafaaaafaaaafaaaafaaaafaaaafaaaafaaaafaaaafaaaafaaaafaaaafaaaafaaaafaaaafaaaafaaaafaaaafaaaafaaaafaaaafaaaafaaaafaaaafaaaafaaaafaaaafaaaafaaaafaaaafaaaafaaaafaaaafaaaafaaaafaaaafaaaafaaaafaaaafaaaafaaaafaaaafaaaafaaaafaaaafaaaafaaaafaaaafaaaafaaaafaaaafaaaafaaaafaaaafaaaafaaaafaaaafaaaafaaaafaaaafaaaafaaaafaaaafaaaafaaaafaaaafaaaafaaaafaaaafaaaafaaaafaaaafaaaafaaaafaaaafaaaafaaaafaaaafaaaafaaaafaaaafaaaafaaaafaaaafaaaafaaaafaaaafaaaafaaaafaaaafaaaafaaaafaaaafaaaafaaaafaaaafaaaafaaaafaaaafaaaafaaaafaaaafaaaafaaaafaaaafaaaafaaaafaaaafaaaafaaaafaaaafaaaafaaaafaaaafaaaafaaaafaaaafaaaafaaaafaaaafaaaafaaaafaaaafaaaafaaaafaaaafaaaafaaaafaaaafaaaafaaaafaaaafaaaafaaaafaaaafaaaafaaaafaaaafaaaafaaaafaaaafaaaafaaaafaaaafaaaafaaaafaaaafaaaafaaaafaaaafaaaafaaaafaaaafaaaafaaaafaaaafaaaafaaaafaaaafaaaafaaaafaaaafaaaafaaaafaaaafaaaafaaaafaaaafaaaafaaaafaaaafaaaafaaaafaaaafaaaafaaaafaaaafaaaafaaaafaaaafaaaafaaaafaaaafaaaafaaaafaaaafaaaafaaaafaaaafaaaafaaaafaaaafaaaafaaaafaaaafaaaafaaaafaaaafaaaafaaaafaaaafaaaafaaaafaaaafaaaafaaaafaaaafaaaafaaaafaaaafaaaafaaaafaaaafaaaafaaaafaaaafaaaafaaaafaaaafaaaafaaaafaaaafaaaafaaaafaaaafaaaafaaaafaaaafaaaafaaaafaaaafaaaafaaaafaaaafaaaafaaaafaaaafaaaafaaaafaaaafaaaafaaaafaaaafaaaafaaaafaaaafaaaafaaaafaaaafaaaafaaaafaaaafaaaafaaaafaaaafaaaafaaaafaaaafaaaafaaaafaaaafaaaafaaaafaaaafaaaafaaaafaaaafaaaafaaaafaaaafaaaafaaaafaaaafaaaafaaaafaaaafaaaafaaaafaaaafaaaafaaaafaaaafaaaafaaaafaaaafaaaafaaaafaaaafaaaafaaaafaaaafaaaafaaaafaaaafaaaafaaaafaaaafaaaafaaaafaaaafaaaafaaaafaaaafaaaafaaaafaaaafaaaafaaaafaaaafaaaafaaaafaaaafaaaafaaaafaaaafaaaafaaaafaaaafaaaafaaaafaaaafaaaafaaaafaaaafaaaafaaaafaaaafaaaafaaaafaaaafaaaafaaaafaaaafaaaafaaaafaaaafaaaafaaaafaaaafaaaafaaaafaaaafaaaafaaaafaaaafaaaafaaaafaaaafaaaafaaaafaaaafaaaafaaaafaaaafaaaafaaaafaaaafaaaafaaaafaaaafaaaafaaaafaaaafaaaafaaaafaaaafaaaafaaaafaaaafaaaafaaaafaaaafaaaafaaaafaaaafaaaafaaaafaaaafaaaafaaaafaaaafaaaafaaaafaaaafaaaafaaaafaaaafaaaafaaaafaaaafaaaafaaaafaaaafaaaafaaaafaaaafaaaafaaaafaaaafaaaafaaaafaaaafaaaafaaaafaaaafaaaafaaaafaaaafaaaafaaaafaaaafaaaafaaaafaaaafaaaafaaaafaaaafaaaafaaaafaaaafaaaafaaaafaaaafaaaafaaaafaaaafaaaafaaaafaaaafaaaafaaaafaaaafaaaafaaaafaaaafaaaafaaaafaaaafaaaafaaaafaaaafaaaafaaaafaaaafaaaafaaaafaaaafaaaafaaaafaaaafaaaafaaaafaaaafaaaafaaaafaaaafaaaafaaaafaaaafaaaafaaaafaaaafaaaafaaaafaaaafaaaafaaaafaaaafaaaafaaaafaaaafaaaafaaaafaaaafaaaafaaaafaaaafaaaafaaaafaaaafaaaafaaaafaaaafaaaafaaaafaaaafaaaafaaaafaaaafaaaafaaaafaaaafaaaafaaaafaaaafaaaafaaaafaaaafaaaafaaaafaaaafaaaafaaaafaaaafaaaafaaaafaaaafaaaafaaaafaaaafaaaafaaaafaaaafaaaafaaaafaaaafaaaafaaaafaaaafaaaafaaaafaaaafaaaafaaaafaaaafaaaafaaaafaaaafaaaafaaaafaaaafaaaafaaaafaaaafaaaafaaaafaaaafaaaafaaaafaaaafaaaafaaaafaaaafaaaafaaaafaaaafaaaafaaaafaaaafaaaafaaaafaaaafaaaafaaaafaaaafaaaafaaaafaaaafaaaafaaaafaaaafaaaafaaaafaaaafaaaafaaaafaaaafaaaafaaaafaaaafaaaafaaaafaaaafaaaafaaaafaaaafaaaafaaaafaaaafaaaafaaaafaaaafaaaafaaaafaaaafaaaafaaaafaaaafaaaafaaaafaaaafaaaafaaaafaaaafaaaafaaaafaaaafaaaafaaaafaaaafaaaafaaaafaaaafaaaafaaaafaaaafaaaafaaaafaaaafaaaafaaaafaaaafaaaafaaaafaaaafaaaafaaaafaaaafaaaafaaaafaaaafaaaafaaaafaaaafaaaafaaaafaaaafaaaafaaaafaaaafaaaafaaaafaaaafaaaafaaaafaaaafaaaafaaaafaaaafaaaafaaaafaaaafaaaafaaaafaaaafaaaafaaaafaaaafaaaafaaaafaaaafaaaafaaaafaaaafaaaafaaaafaaaafaaaafaaaafaaaafaaaafaaaafaaaafaaaafaaaafaaaafaaaafaaaafaaaafaaaafaaaafaaaafaaaafaaaafaaaafaaaafaaaafaaaafaaaafaaaafaaaafaaaafaaaafaaaafaaaafaaaafaaaafaaaafaaaafaaaafaaaafaaaafaaaafaaaafaaaafaaaafaaaafaaaafaaaafaaaafaaaafaaaafaaaafaaaafaaaafaaaafaaaafaaaafaaaafaaaafaaaafaaaafaaaafaaaafaaaafaaaafaaaafaaaafaaaafaaaafaaaafaaaafaaaafaaaafaaaafaaaafaaaafaaaafaaaafaaaafaaaafaaaafaaaafaaaafaaaafaaaafaaaafaaaafaaaafaaaafaaaafaaaafaaaafaaaafaaaafaaaafaaaafaaaafaaaafaaaafaaaafaaaafaaaafaaaafaaaafaaaafaaaafaaaafaaaafaaaafaaaafaaaafaaaafaaaafaaaafaaaafaaaafaaaafaaaafaaaafaaaafaaaafaaaafaaaafaaaafaaaafaaaafaaaafaaaafaaaafaaaafaaaafaaaafaaaafaaaafaaaafaaaafaaaafaaaafaaaafaaaafaaaafaaaafaaaafaaaafaaaafaaaafaaaafaaaafaaaafaaaafaaaafaaaafaaaafaaaafaaaafaaaafaaaafaaaafaaaafaaaafaaaafaaaafaaaafaaaafaaaafaaaafaaaafaaaafaaaafaaaafaaaafaaaafaaaafaaaafaaaafaaaafaaaafaaaafaaaafaaaafaaaafaaaafaaaafaaaafaaaafaaaafaaaafaaaafaaaafaaaafaaaafaaaafaaaafaaaafaaaafaaaafaaaafaaaafaaaafaaaafaaaafaaaafaaaafaaaafaaaafaaaafaaaafaaaafaaaafaaaafaaaafaaaafaaaafaaaafaaaafaaaafaaaafaaaafaaaafaaaafaaaafaaaafaaaafaaaafaaaafaaaafaaaafaaaafaaaafaaaafaaaafaaaafaaaafaaaafaaaafaaaafaaaafaaaafaaaafaaaafaaaafaaaafaaaafaaaafaaaafaaaafaaaafaaaafaaaafaaaafaaaafaaaafaaaafaaaafaaaafaaaafaaaafaaaafaaaafaaaafaaaafaaaafaaaafaaaafaaaafaaaafaaaafaaaafaaaafaaaafaaaafaaaafaaaafaaaafaaaafaaaafaaaafaaaafaaaafaaaafaaaafaaaafaaaafaaaafaaaafaaaafaaaafaaaafaaaafaaaafaaaafaaaafaaaafaaaafaaaafaaaafaaaafaaaafaaaafaaaafaaaafaaaafaaaafaaaafaaaafaaaafaaaafaaaafaaaafaaaafaaaafaaaafaaaafaaaafaaaafaaaafaaaafaaaafaaaafaaaafaaaafaaaafaaaafaaaafaaaafaaaafaaaafaaaafaaaafaaaafaaaafaaaafaaaafaaaafaaaafaaaafaaaafaaaafaaaafaaaafaaaafaaaafaaaafaaaafaaaafaaaafaaaafaaaafaaaafaaaafaaaafaaaafaaaafaaaafaaaafaaaafaaaafaaaafaaaafaaaafaaaafaaaafaaaafaaaafaaaafaaaafaaaafaaaafaaaafaaaafaaaafaaaafaaaafaaaafaaaafaaaafaaaafaaaafaaaafaaaafaaaafaaaafaaaafaaaafaaaafaaaafaaaafaaaafaaaafaaaafaaaafaaaafaaaafaaaafaaaafaaaafaaaafaaaafaaaafaaaafaaaafaaaafaaaafaaaafaaaafaaaafaaaafaaaafaaaafaaaafaaaafaaaafaaaafaaaafaaaafaaaafaaaafaaaafaaaafaaaafaaaafaaaafaaaafaaaafaaaafaaaafaaaafaaaafaaaafaaaafaaaafaaaafaaaafaaaafaaaafaaaafaaaafaaaafaaaafaaaafaaaafaaaafaaaafaaaafaaaafaaaafaaaafaaaafaaaafaaaafaaaafaaaafaaaafaaaafaaaafaaaafaaaafaaaafaaaafaaaafaaaafaaaafaaaafaaaafaaaafaaaafaaaafaaaafaaaafaaaafaaaafaaaafaaaafaaaafaaaafaaaafaaaafaaaafaaaafaaaafaaaafaaaafaaaafaaaafaaaafaaaafaaaafaaaafaaaafaaaafaaaafaaaafaaaafaaaafaaaafaaaafaaaafaaaafaaaafaaaafaaaafaaaafaaaafaaaafaaaafaaaafaaaafaaaafaaaafaaaafaaaafaaaafaaaafaaaafaaaafaaaafaaaafaaaafaaaafaaaafaaaafaaaafaaaafaaaafaaaafaaaafaaaafaaaafaaaafaaaafaaaafaaaafaaaafaaaafaaaafaaaafaaaafaaaafaaaafaaaafaaaafaaaafaaaafaaaafaaaafaaaafaaaafaaaafaaaafaaaafaaaafaaaafaaaafaaaafaaaafaaaafaaaafaaaafaaaafaaaafaaaafaaaafaaaafaaaafaaaafaaaafaaaafaaaafaaaafaaaafaaaafaaaafaaaafaaaafaaaafaaaafaaaafaaaafaaaafaaaafaaaafaaaafaaaafaaaafaaaafaaaafaaaafaaaafaaaafaaaafaaaafaaaafaaaafaaaafaaaafaaaafaaaafaaaafaaaafaaaafaaaafaaaafaaaafaaaafaaaafaaaafaaaafaaaafaaaafaaaafaaaafaaaafaaaafaaaafaaaafaaaafaaaafaaaafaaaafaaaafaaaafaaaafaaaafaaaafaaaafaaaafaaaafaaaafaaaafaaaafaaaafaaaafaaaafaaaafaaaafaaaafaaaafaaaafaaaafaaaafaaaafaaaafaaaafaaaafaaaafaaaafaaaafaaaafaaaafaaaafaaaafaaaafaaaafaaaafaaaafaaaafaaaafaaaafaaaafaaaafaaaafaaaafaaaafaaaafaaaafaaaafaaaafaaaafaaaafaaaafaaaafaaaafaaaafaaaafaaaafaaaafaaaafaaaafaaaafaaaafaaaafaaaafaaaafaaaafaaaafaaaafaaaafaaaafaaaafaaaafaaaafaaaafaaaafaaaafaaaafaaaafaaaafaaaafaaaafaaaafaaaafaaaafaaaafaaaafaaaafaaaafaaaafaaaafaaaafaaaafaaaafaaaafaaaafaaaafaaaafaaaafaaaafaaaafaaaafaaaafaaaafaaaafaaaafaaaafaaaafaaaafaaaafaaaafaaaafaaaafaaaafaaaafaaaafaaaafaaaafaaaafaaaafaaaafaaaafaaaafaaaafaaaafaaaafaaaafaaaafaaaafaaaafaaaafaaaafaaaafaaaafaaaafaaaafaaaafaaaafaaaafaaaafaaaafaaaafaaaafaaaafaaaafaaaafaaaafaaaafaaaafaaaafaaaafaaaafaaaafaaaafaaaafaaaafaaaafaaaafaaaafaaaafaaaafaaaafaaaafaaaafaaaafaaaafaaaafaaaafaaaafaaaafaaaafaaaafaaaafaaaafaaaafaaaafaaaafaaaafaaaafaaaafaaaafaaaafaaaafaaaafaaaafaaaafaaaafaaaafaaaafaaaafaaaafaaaafaaaafaaaafaaaafaaaafaaaafaaaafaaaafaaaafaaaafaaaafaaaafaaaafaaaafaaaafaaaafaaaafaaaafaaaafaaaafaaaafaaaafaaaafaaaafaaaafaaaafaaaafaaaafaaaafaaaafaaaafaaaafaaaafaaaafaaaafaaaafaaaafaaaafaaaafaaaafaaaafaaaafaaaafaaaafaaaafaaaafaaaafaaaafaaaafaaaafaaaafaaaafaaaafaaaafaaaafaaaafaaaafaaaafaaaafaaaafaaaafaaaafaaaafaaaafaaaafaaaafaaaafaaaafaaaafaaaafaaaafaaaafaaaafaaaafaaaafaaaafaaaafaaaafaaaafaaaafaaaafaaaafaaaafaaaafaaaafaaaafaaaafaaaafaaaafaaaafaaaafaaaafaaaafaaaafaaaafaaaafaaaafaaaafaaaafaaaafaaaafaaaafaaaafaaaafaaaafaaaafaaaafaaaafaaaafaaaafaaaafaaaafaaaafaaaafaaaafaaaafaaaafaaaafaaaafaaaafaaaafaaaafaaaafaaaafaaaafaaaafaaaafaaaafaaaafaaaafaaaafaaaafaaaafaaaafaaaafaaaafaaaafaaaafaaaafaaaafaaaafaaaafaaaafaaaafaaaafaaaafaaaafaaaafaaaafaaaafaaaafaaaafaaaafaaaafaaaafaaaafaaaafaaaafaaaafaaaafaaaafaaaafaaaafaaaafaaaafaaaafaaaafaaaafaaaafaaaafaaaafaaaafaaaafaaaafaaaafaaaafaaaafaaaafaaaafaaaafaaaafaaaafaaaafaaaafaaaafaaaafaaaafaaaafaaaafaaaafaaaafaaaafaaaafaaaafaaaafaaaafaaaafaaaafaaaafaaaafaaaafaaaafaaaafaaaafaaaafaaaafaaaafaaaafaaaafaaaafaaaafaaaafaaaafaaaafaaaafaaaafaaaafaaaafaaaafaaaafaaaafaaaafaaaafaaaafaaaafaaaafaaaafaaaafaaaafaaaafaaaafaaaafaaaafaaaafaaaafaaaafaaaafaaaafaaaafaaaafaaaafaaaafaaaafaaaafaaaafaaaafaaaafaaaafaaaafaaaafaaaafaaaafaaaafaaaafaaaafaaaafaaaafaaaafaaaafaaaafaaaafaaaafaaaafaaaafaaaafaaaafaaaafaaaafaaaafaaaafaaaafaaaafaaaafaaaafaaaafaaaafaaaafaaaafaaaafaaaafaaaafaaaafaaaafaaaafaaaafaaaafaaaafaaaafaaaafaaaafaaaafaaaafaaaafaaaafaaaafaaaafaaaafaaaafaaaafaaaafaaaafaaaafaaaafaaaafaaaafaaaafaaaafaaaafaaaafaaaafaaaafaaaafaaaafaaaafaaaafaaaafaaaafaaaafaaaafaaaafaaaafaaaafaaaafaaaafaaaafaaaafaaaafaaaafaaaafaaaafaaaafaaaafaaaafaaaafaaaafaaaafaaaafaaaafaaaafaaaafaaaafaaaafaaaafaaaafaaaafaaaafaaaafaaaafaaaafaaaafaaaafaaaafaaaafaaaafaaaafaaaafaaaafaaaafaaaafaaaafaaaafaaaafaaaafaaaafaaaafaaaafaaaafaaaafaaaafaaaafaaaafaaaafaaaafaaaafaaaafaaaafaaaafaaaafaaaafaaaafaaaafaaaafaaaafaaaafaaaafaaaafaaaafaaaafaaaafaaaafaaaafaaaafaaaafaaaafaaaafaaaafaaaafaaaafaaaafaaaafaaaafaaaafaaaafaaaafaaaafaaaafaaaafaaaafaaaafaaaafaaaafaaaafaaaafaaaafaaaafaaaafaaaafaaaafaaaafaaaafaaaafaaaafaaaafaaaafaaaafaaaafaaaafaaaafaaaafaaaafaaaafaaaafaaaafaaaafaaaafaaaafaaaafaaaafaaaafaaaafaaaafaaaafaaaafaaaafaaaafaaaafaaaafaaaafaaaafaaaafaaaafaaaafaaaafaaaafaaaafaaaafaaaafaaaafaaaafaaaafaaaafaaaafaaaafaaaafaaaafaaaafaaaafaaaafaaaafaaaafaaaafaaaafaaaafaaaafaaaafaaaafaaaafaaaafaaaafaaaafaaaafaaaafaaaafaaaafaaaafaaaafaaaafaaaafaaaafaaaafaaaafaaaafaaaafaaaafaaaafaaaafaaaafaaaafaaaafaaaafaaaafaaaafaaaafaaaafaaaafaaaafaaaafaaaafaaaafaaaafaaaafaaaafaaaafaaaafaaaafaaaafaaaafaaaafaaaafaaaafaaaafaaaafaaaafaaaafaaaafaaaafaaaafaaaafaaaafaaaafaaaafaaaafaaaafaaaafaaaafaaaafaaaafaaaafaaaafaaaafaaaafaaaafaaaafaaaafaaaafaaaafaaaafaaaafaaaafaaaafaaaafaaaafaaaafaaaafaaaafaaaafaaaafaaaafaaaafaaaafaaaafaaaafaaaafaaaafaaaafaaaafaaaafaaaafaaaafaaaafaaaafaaaafaaaafaaaafaaaafaaaafaaaafaaaafaaaafaaaafaaaafaaaafaaaafaaaafaaaafaaaafaaaafaaaafaaaafaaaafaaaafaaaafaaaafaaaafaaaafaaaafaaaafaaaafaaaafaaaafaaaafaaaafaaaafaaaafaaaafaaaafaaaafaaaafaaaafaaaafaaaafaaaafaaaafaaaafaaaafaaaafaaaafaaaafaaaafaaaafaaaafaaaafaaaafaaaafaaaafaaaafaaaafaaaafaaaafaaaafaaaafaaaafaaaafaaaafaaaafaaaafaaaafaaaafaaaafaaaafaaaafaaaafaaaafaaaafaaaafaaaafaaaafaaaafaaaafaaaafaaaafaaaafaaaafaaaafaaaafaaaafaaaafaaaafaaaafaaaafaaaafaaaafaaaafaaaafaaaafaaaafaaaafaaaafaaaafaaaafaaaafaaaafaaaafaaaafaaaafaaaafaaaafaaaafaaaafaaaafaaaafaaaafaaaafaaaafaaaafaaaafaaaafaaaafaaaafaaaafaaaafaaaafaaaafaaaafaaaafaaaafaaaafaaaafaaaafaaaafaaaafaaaafaaaafaaaafaaaafaaaafaaaafaaaafaaaafaaaafaaaafaaaafaaaafaaaafaaaafaaaafaaaafaaaafaaaafaaaafaaaafaaaafaaaafaaaafaaaafaaaafaaaafaaaafaaaafaaaafaaaafaaaafaaaafaaaafaaaafaaaafaaaafaaaafaaaafaaaafaaaafaaaafaaaafaaaafaaaafaaaafaaaafaaaafaaaafaaaafaaaafaaaafaaaafaaaafaaaafaaaafaaaafaaaafaaaafaaaafaaaafaaaafaaaafaaaafaaaafaaaafaaaafaaaafaaaafaaaafaaaafaaaafaaaafaaaafaaaafaaaafaaaafaaaafaaaafaaaafaaaafaaaafaaaafaaaafaaaafaaaafaaaafaaaafaaaafaaaafaaaafaaaafaaaafaaaafaaaafaaaafaaaafaaaafaaaafaaaafaaaafaaaafaaaafaaaafaaaafaaaafaaaafaaaafaaaafaaaafaaaafaaaafaaaafaaaafaaaafaaaafaaaafaaaafaaaafaaaafaaaafaaaafaaaafaaaafaaaafaaaafaaaafaaaafaaaafaaaafaaaafaaaafaaaafaaaafaaaafaaaafaaaafaaaafaaaafaaaafaaaafaaaafaaaafaaaafaaaafaaaafaaaafaaaafaaaafaaaafaaaafaaaafaaaafaaaafaaaafaaaafaaaafaaaafaaaafaaaafaaaafaaaafaaaafaaaafaaaafaaaafaaaafaaaafaaaafaaaafaaaafaaaafaaaafaaaafaaaafaaaafaaaafaaaafaaaafaaaafaaaafaaaafaaaafaaaafaaaafaaaafaaaafaaaafaaaafaaaafaaaafaaaafaaaafaaaafaaaafaaaafaaaafaaaafaaaafaaaafaaaafaaaafaaaafaaaafaaaafaaaafaaaafaaaafaaaafaaaafaaaafaaaafaaaafaaaafaaaafaaaafaaaafaaaafaaaafaaaafaaaafaaaafaaaafaaaafaaaafaaaafaaaafaaaafaaaafaaaafaaaafaaaafaaaafaaaafaaaafaaaafaaaafaaaafaaaafaaaafaaaafaaaafaaaafaaaafaaaafaaaafaaaafaaaafaaaafaaaafaaaafaaaafaaaafaaaafaaaafaaaafaaaafaaaafaaaafaaaafaaaafaaaafaaaafaaaafaaaafaaaafaaaafaaaafaaaafaaaafaaaafaaaafaaaafaaaafaaaafaaaafaaaafaaaafaaaafaaaafaaaafaaaafaaaafaaaafaaaafaaaafaaaafaaaafaaaafaaaafaaaafaaaafaaaafaaaafaaaafaaaafaaaafaaaafaaaafaaaafaaaafaaaafaaaafaaaafaaaafaaaafaaaafaaaafaaaafaaaafaaaafaaaafaaaafaaaafaaaafaaaafaaaafaaaafaaaafaaaafaaaafaaaafaaaafaaaafaaaafaaaafaaaafaaaafaaaafaaaafaaaafaaaafaaaafaaaafaaaafaaaafaaaafaaaafaaaafaaaafaaaafaaaafaaaafaaaafaaaafaaaafaaaafaaaafaaaafaaaafaaaafaaaafaaaafaaaafaaaafaaaafaaaafaaaafaaaafaaaafaaaafaaaafaaaafaaaafaaaafaaaafaaaafaaaafaaaafaaaafaaaafaaaafaaaafaaaafaaaafaaaafaaaafaaaafaaaafaaaafaaaafaaaafaaaafaaaafaaaafaaaafaaaafaaaafaaaafaaaafaaaafaaaafaaaafaaaafaaaafaaaafaaaafaaaafaaaafaaaafaaaafaaaafaaaafaaaafaaaafaaaafaaaafaaaafaaaafaaaafaaaafaaaafaaaafaaaafaaaafaaaafaaaafaaaafaaaafaaaafaaaafaaaafaaaafaaaafaaaafaaaafaaaafaaaafaaaafaaaafaaaafaaaafaaaafaaaafaaaafaaaafaaaafaaaafaaaafaaaafaaaafaaaafaaaafaaaafaaaafaaaafaaaafaaaafaaaafaaaafaaaafaaaafaaaafaaaafaaaafaaaafaaaafaaaafaaaafaaaafaaaafaaaafaaaafaaaafaaaafaaaafaaaafaaaafaaaafaaaafaaaafaaaafaaaafaaaafaaaafaaaafaaaafaaaafaaaafaaaafaaaafaaaafaaaafaaaafaaaafaaaafaaaafaaaafaaaafaaaafaaaafaaaafaaaafaaaafaaaafaaaafaaaafaaaafaaaafaaaafaaaafaaaafaaaafaaaafaaaafaaaafaaaafaaaafaaaafaaaafaaaafaaaafaaaafaaaafaaaafaaaafaaaafaaaafaaaafaaaafaaaafaaaafaaaafaaaafaaaafaaaafaaaafaaaafaaaafaaaafaaaafaaaafaaaafaaaafaaaafaaaafaaaafaaaafaaaafaaaafaaaafaaaafaaaafaaaafaaaafaaaafaaaafaaaafaaaafaaaafaaaafaaaafaaaafaaaafaaaafaaaafaaaafaaaafaaaafaaaafaaaafaaaafaaaafaaaafaaaafaaaafaaaafaaaafaaaafaaaafaaaafaaaafaaaafaaaafaaaafaaaafaaaafaaaafaaaafaaaafaaaafaaaafaaaafaaaafaaaafaaaafaaaafaaaafaaaafaaaafaaaafaaaafaaaafaaaafaaaafaaaafaaaafaaaafaaaafaaaafaaaafaaaafaaaafaaaafaaaafaaaafaaaafaaaafaaaafaaaafaaaafaaaafaaaafaaaafaaaafaaaafaaaafaaaafaaaafaaaafaaaafaaaafaaaafaaaafaaaafaaaafaaaafaaaafaaaafaaaafaaaafaaaafaaaafaaaafaaaafaaaafaaaafaaaafaaaafaaaafaaaafaaaafaaaafaaaafaaaafaaaafaaaafaaaafaaaafaaaafaaaafaaaafaaaafaaaafaaaafaaaafaaaafaaaafaaaafaaaafaaaafaaaafaaaafaaaafaaaafaaaafaaaafaaaafaaaafaaaafaaaafaaaafaaaafaaaafaaaafaaaafaaaafaaaafaaaafaaaafaaaafaaaafaaaafaaaafaaaafaaaafaaaafaaaafaaaafaaaafaaaafaaaafaaaafaaaafaaaafaaaafaaaafaaaafaaaafaaaafaaaafaaaafaaaafaaaafaaaafaaaafaaaafaaaafaaaafaaaafaaaafaaaafaaaafaaaafaaaafaaaafaaaafaaaafaaaafaaaafaaaafaaaafaaaafaaaafaaaafaaaafaaaafaaaafaaaafaaaafaaaafaaaafaaaafaaaafaaaafaaaafaaaafaaaafaaaafaaaafaaaafaaaafaaaafaaaafaaaafaaaafaaaafaaaafaaaafaaaafaaaafaaaafaaaafaaaafaaaafaaaafaaaafaaaafaaaafaaaafaaaafaaaafaaaafaaaafaaaafaaaafaaaafaaaafaaaafaaaafaaaafaaaafaaaafaaaafaaaafaaaafaaaafaaaafaaaafaaaafaaaafaaaafaaaafaaaafaaaafaaaafaaaafaaaafaaaafaaaafaaaafaaaafaaaafaaaafaaaafaaaafaaaafaaaafaaaafaaaafaaaafaaaafaaaafaaaafaaaafaaaafaaaafaaaafaaaafaaaafaaaafaaaafaaaafaaaafaaaafaaaafaaaafaaaafaaaafaaaafaaaafaaaafaaaafaaaafaaaafaaaafaaaafaaaafaaaafaaaafaaaafaaaafaaaafaaaafaaaafaaaafaaaafaaaafaaaafaaaafaaaafaaaafaaaafaaaafaaaafaaaafaaaafaaaafaaaafaaaafaaaafaaaafaaaafaaaafaaaafaaaafaaaafaaaafaaaafaaaafaaaafaaaafaaaafaaaafaaaafaaaafaaaafaaaafaaaafaaaafaaaafaaaafaaaafaaaafaaaafaaaafaaaafaaaafaaaafaaaafaaaafaaaafaaaafaaaafaaaafaaaafaaaafaaaafaaaafaaaafaaaafaaaafaaaafaaaafaaaafaaaafaaaafaaaafaaaafaaaafaaaafaaaafaaaafaaaafaaaafaaaafaaaafaaaafaaaafaaaafaaaafaaaafaaaafaaaafaaaafaaaafaaaafaaaafaaaafaaaafaaaafaaaafaaaafaaaafaaaafaaaafaaaafaaaafaaaafaaaafaaaafaaaafaaaafaaaafaaaafaaaafaaaafaaaafaaaafaaaafaaaafaaaafaaaafaaaafaaaafaaaafaaaafaaaafaaaafaaaafaaaafaaaafaaaafaaaafaaaafaaaafaaaafaaaafaaaafaaaafaaaafaaaafaaaafaaaafaaaafaaaafaaaafaaaafaaaafaaaafaaaafaaaafaaaafaaaafaaaafaaaafaaaafaaaafaaaafaaaafaaaafaaaafaaaafaaaafaaaafaaaafaaaafaaaafaaaafaaaafaaaafaaaafaaaafaaaafaaaafaaaafaaaafaaaafaaaafaaaafaaaafaaaafaaaafaaaafaaaafaaaafaaaafaaaafaaaafaaaafaaaafaaaafaaaafaaaafaaaafaaaafaaaafaaaafaaaafaaaafaaaafaaaafaaaafaaaafaaaafaaaafaaaafaaaafaaaafaaaafaaaafaaaafaaaafaaaafaaaafaaaafaaaafaaaafaaaafaaaafaaaafaaaafaaaafaaaafaaaafaaaafaaaafaaaafaaaafaaaafaaaafaaaafaaaafaaaafaaaafaaaafaaaafaaaafaaaafaaaafaaaafaaaafaaaafaaaafaaaafaaaafaaaafaaaafaaaafaaaafaaaafaaaafaaaafaaaafaaaafaaaafaaaafaaaafaaaafaaaafaaaafaaaafaaaafaaaafaaaafaaaafaaaafaaaafaaaafaaaafaaaafaaaafaaaafaaaafaaaafaaaafaaaafaaaafaaaafaaaafaaaafaaaafaaaafaaaafaaaafaaaafaaaafaaaafaaaafaaaafaaaafaaaafaaaafaaaafaaaafaaaafaaaafaaaafaaaafaaaafaaaafaaaafaaaafaaaafaaaafaaaafaaaafaaaafaaaafaaaafaaaafaaaafaaaafaaaafaaaafaaaafaaaafaaaafaaaafaaaafaaaafaaaafaaaafaaaafaaaafaaaafaaaafaaaafaaaafaaaafaaaafaaaafaaaafaaaafaaaafaaaafaaaafaaaafaaaafaaaafaaaafaaaafaaaafaaaafaaaafaaaafaaaafaaaafaaaafaaaafaaaafaaaafaaaafaaaafaaaafaaaafaaaafaaaafaaaafaaaafaaaafaaaafaaaafaaaafaaaafaaaafaaaafaaaafaaaafaaaafaaaafaaaafaaaafaaaafaaaafaaaafaaaafaaaafaaaafaaaafaaaafaaaafaaaafaaaafaaaafaaaafaaaafaaaafaaaafaaaafaaaafaaaafaaaafaaaafaaaafaaaafaaaafaaaafaaaafaaaafaaaafaaaafaaaafaaaafaaaafaaaafaaaafaaaafaaaafaaaafaaaafaaaafaaaafaaaafaaaafaaaafaaaafaaaafaaaafaaaafaaaafaaaafaaaafaaaafaaaafaaaafaaaafaaaafaaaafaaaafaaaafaaaafaaaafaaaafaaaafaaaafaaaafaaaafaaaafaaaafaaaafaaaafaaaafaaaafaaaafaaaafaaaafaaaafaaaafaaaafaaaafaaaafaaaafaaaafaaaafaaaafaaaafaaaafaaaafaaaafaaaafaaaafaaaafaaaafaaaafaaaafaaaafaaaafaaaafaaaafaaaafaaaafaaaafaaaafaaaafaaaafaaaafaaaafaaaafaaaafaaaafaaaafaaaafaaaafaaaafaaaafaaaafaaaafaaaafaaaafaaaafaaaafaaaafaaaafaaaafaaaafaaaafaaaafaaaafaaaafaaaafaaaafaaaafaaaafaaaafaaaafaaaafaaaafaaaafaaaafaaaafaaaafaaaafaaaafaaaafaaaafaaaafaaaafaaaafaaaafaaaafaaaafaaaafaaaafaaaafaaaafaaaafaaaafaaaafaaaafaaaafaaaafaaaafaaaafaaaafaaaafaaaafaaaafaaaafaaaafaaaafaaaafaaaafaaaafaaaafaaaafaaaafaaaafaaaafaaaafaaaafaaaafaaaafaaaafaaaafaaaafaaaafaaaafaaaafaaaafaaaafaaaafaaaafaaaafaaaafaaaafaaaafaaaafaaaafaaaafaaaafaaaafaaaafaaaafaaaafaaaafaaaafaaaafaaaafaaaafaaaafaaaafaaaafaaaafaaaafaaaafaaaafaaaafaaaafaaaafaaaafaaaafaaaafaaaafaaaafaaaafaaaafaaaafaaaafaaaafaaaafaaaafaaaafaaaafaaaafaaaafaaaafaaaafaaaafaaaafaaaafaaaafaaaafaaaafaaaafaaaafaaaafaaaafaaaafaaaafaaaafaaaafaaaafaaaafaaaafaaaafaaaafaaaafaaaafaaaafaaaafaaaafaaaafaaaafaaaafaaaafaaaafaaaafaaaafaaaafaaaafaaaafaaaafaaaafaaaafaaaafaaaafaaaafaaaafaaaafaaaafaaaafaaaafaaaafaaaafaaaafaaaafaaaafaaaafaaaafaaaafaaaafaaaafaaaafaaaafaaaafaaaafaaaafaaaafaaaafaaaafaaaafaaaafaaaafaaaafaaaafaaaafaaaafaaaafaaaafaaaafaaaafaaaafaaaafaaaafaaaafaaaafaaaafaaaafaaaafaaaafaaaafaaaafaaaafaaaafaaaafaaaafaaaafaaaafaaaafaaaafaaaafaaaafaaaafaaaafaaaafaaaafaaaafaaaafaaaafaaaafaaaafaaaafaaaafaaaafaaaafaaaafaaaafaaaafaaaafaaaafaaaafaaaafaaaafaaaafaaaafaaaafaaaafaaaafaaaafaaaafaaaafaaaafaaaafaaaafaaaafaaaafaaaafaaaafaaaafaaaafaaaafaaaafaaaafaaaafaaaafaaaafaaaafaaaafaaaafaaaafaaaafaaaafaaaafaaaafaaaafaaaafaaaafaaaafaaaafaaaafaaaafaaaafaaaafaaaafaaaafaaaafaaaafaaaafaaaafaaaafaaaafaaaafaaaafaaaafaaaafaaaafaaaafaaaafaaaafaaaafaaaafaaaafaaaafaaaafaaaafaaaafaaaafaaaafaaaafaaaafaaaafaaaafaaaafaaaafaaaafaaaafaaaafaaaafaaaafaaaafaaaafaaaafaaaafaaaafaaaafaaaafaaaafaaaafaaaafaaaafaaaafaaaafaaaafaaaafaaaafaaaafaaaafaaaafaaaafaaaafaaaafaaaafaaaafaaaafaaaafaaaafaaaafaaaafaaaafaaaafaaaafaaaafaaaafaaaafaaaafaaaafaaaafaaaafaaaafaaaafaaaafaaaafaaaafaaaafaaaafaaaafaaaafaaaafaaaafaaaafaaaafaaaafaaaafaaaafaaaafaaaafaaaafaaaafaaaafaaaafaaaafaaaafaaaafaaaafaaaafaaaafaaaafaaaafaaaafaaaafaaaafaaaafaaaafaaaafaaaafaaaafaaaafaaaafaaaafaaaafaaaafaaaafaaaafaaaafaaaafaaaafaaaafaaaafaaaafaaaafaaaafaaaafaaaafaaaafaaaafaaaafaaaafaaaafaaaafaaaafaaaafaaaafaaaafaaaafaaaafaaaafaaaafaaaafaaaafaaaafaaaafaaaafaaaafaaaafaaaafaaaafaaaafaaaafaaaafaaaafaaaafaaaafaaaafaaaafaaaafaaaafaaaafaaaafaaaafaaaafaaaafaaaafaaaafaaaafaaaafaaaafaaaafaaaafaaaafaaaafaaaafaaaafaaaafaaaafaaaafaaaafaaaafaaaafaaaafaaaafaaaafaaaafaaaafaaaafaaaafaaaafaaaafaaaafaaaafaaaafaaaafaaaafaaaafaaaafaaaafaaaafaaaafaaaafaaaafaaaafaaaafaaaafaaaafaaaafaaaafaaaafaaaafaaaafaaaafaaaafaaaafaaaafaaaafaaaafaaaafaaaafaaaafaaaafaaaafaaaafaaaafaaaafaaaafaaaafaaaafaaaafaaaafaaaafaaaafaaaafaaaafaaaafaaaafaaaafaaaafaaaafaaaafaaaafaaaafaaaafaaaafaaaafaaaafaaaafaaaafaaaafaaaafaaaafaaaafaaaafaaaafaaaafaaaafaaaafaaaafaaaafaaaafaaaafaaaafaaaafaaaafaaaafaaaafaaaafaaaafaaaafaaaafaaaafaaaafaaaafaaaafaaaafaaaafaaaafaaaafaaaafaaaafaaaafaaaafaaaafaaaafaaaafaaaafaaaafaaaafaaaafaaaafaaaafaaaafaaaafaaaafaaaafaaaafaaaafaaaafaaaafaaaafaaaafaaaafaaaafaaaafaaaafaaaafaaaafaaaafaaaafaaaafaaaafaaaafaaaafaaaafaaaafaaaafaaaafaaaafaaaafaaaafaaaafaaaafaaaafaaaafaaaafaaaafaaaafaaaafaaaafaaaafaaaafaaaafaaaafaaaafaaaafaaaafaaaafaaaafaaaafaaaafaaaafaaaafaaaafaaaafaaaafaaaafaaaafaaaafaaaafaaaafaaaafaaaafaaaafaaaafaaaafaaaafaaaafaaaafaaaafaaaafaaaafaaaafaaaafaaaafaaaafaaaafaaaafaaaafaaaafaaaafaaaafaaaafaaaafaaaafaaaafaaaafaaaafaaaafaaaafaaaafaaaafaaaafaaaafaaaafaaaafaaaafaaaafaaaafaaaafaaaafaaaafaaaafaaaafaaaafaaaafaaaafaaaafaaaafaaaafaaaafaaaafaaaafaaaafaaaafaaaafaaaafaaaafaaaafaaaafaaaafaaaafaaaafaaaafaaaafaaaafaaaafaaaafaaaafaaaafaaaafaaaafaaaafaaaafaaaafaaaafaaaafaaaafaaaafaaaafaaaafaaaafaaaafaaaafaaaafaaaafaaaafaaaafaaaafaaaafaaaafaaaafaaaafaaaafaaaafaaaafaaaafaaaafaaaafaaaafaaaafaaaafaaaafaaaafaaaafaaaafaaaafaaaafaaaafaaaafaaaafaaaafaaaafaaaafaaaafaaaafaaaafaaaafaaaafaaaafaaaafaaaafaaaafaaaafaaaafaaaafaaaafaaaafaaaafaaaafaaaafaaaafaaaafaaaafaaaafaaaafaaaafaaaafaaaafaaaafaaaafaaaafaaaafaaaafaaaafaaaafaaaafaaaafaaaafaaaafaaaafaaaafaaaafaaaafaaaafaaaafaaaafaaaafaaaafaaaafaaaafaaaafaaaafaaaafaaaafaaaafaaaafaaaafaaaafaaaafaaaafaaaafaaaafaaaafaaaafaaaafaaaafaaaafaaaafaaaafaaaafaaaafaaaafaaaafaaaafaaaafaaaafaaaafaaaafaaaafaaaafaaaafaaaafaaaafaaaafaaaafaaaafaaaafaaaafaaaafaaaafaaaafaaaafaaaafaaaafaaaafaaaafaaaafaaaafaaaafaaaafaaaafaaaafaaaafaaaafaaaafaaaafaaaafaaaafaaaafaaaafaaaafaaaafaaaafaaaafaaaafaaaafaaaafaaaafaaaafaaaafaaaafaaaafaaaafaaaafaaaafaaaafaaaafaaaafaaaafaaaafaaaafaaaafaaaafaaaafaaaafaaaafaaaafaaaafaaaafaaaafaaaafaaaafaaaafaaaafaaaafaaaafaaaafaaaafaaaafaaaafaaaafaaaafaaaafaaaafaaaafaaaafaaaafaaaafaaaafaaaafaaaafaaaafaaaafaaaafaaaafaaaafaaaafaaaafaaaafaaaafaaaafaaaafaaaafaaaafaaaafaaaafaaaafaaaafaaaafaaaafaaaafaaaafaaaafaaaafaaaafaaaafaaaafaaaafaaaafaaaafaaaafaaaafaaaafaaaafaaaafaaaafaaaafaaaafaaaafaaaafaaaafaaaafaaaafaaaafaaaafaaaafaaaafaaaafaaaafaaaafaaaafaaaafaaaafaaaafaaaafaaaafaaaafaaaafaaaafaaaafaaaafaaaafaaaafaaaafaaaafaaaafaaaafaaaafaaaafaaaafaaaafaaaafaaaafaaaafaaaafaaaafaaaafaaaafaaaafaaaafaaaafaaaafaaaafaaaafaaaafaaaafaaaafaaaafaaaafaaaafaaaafaaaafaaaafaaaafaaaafaaaafaaaafaaaafaaaafaaaafaaaafaaaafaaaafaaaafaaaafaaaafaaaafaaaafaaaafaaaafaaaafaaaafaaaafaaaafaaaafaaaafaaaafaaaafaaaafaaaafaaaafaaaafaaaafaaaafaaaafaaaafaaaafaaaafaaaafaaaafaaaafaaaafaaaafaaaafaaaafaaaafaaaafaaaafaaaafaaaafaaaafaaaafaaaafaaaafaaaafaaaafaaaafaaaafaaaafaaaafaaaafaaaafaaaafaaaafaaaafaaaafaaaafaaaafaaaafaaaafaaaafaaaafaaaafaaaafaaaafaaaafaaaafaaaafaaaafaaaafaaaafaaaafaaaafaaaafaaaafaaaafaaaafaaaafaaaafaaaafaaaafaaaafaaaafaaaafaaaafaaaafaaaafaaaafaaaafaaaafaaaafaaaafaaaafaaaafaaaafaaaafaaaafaaaafaaaafaaaafaaaafaaaafaaaafaaaafaaaafaaaafaaaafaaaafaaaafaaaafaaaafaaaafaaaafaaaafaaaafaaaafaaaafaaaafaaaafaaaafaaaafaaaafaaaafaaaafaaaafaaaafaaaafaaaafaaaafaaaafaaaafaaaafaaaafaaaafaaaafaaaafaaaafaaaafaaaafaaaafaaaafaaaafaaaafaaaafaaaafaaaafaaaafaaaafaaaafaaaafaaaafaaaafaaaafaaaafaaaafaaaafaaaafaaaafaaaafaaaafaaaafaaaafaaaafaaaafaaaafaaaafaaaafaaaafaaaafaaaafaaaafaaaafaaaafaaaafaaaafaaaafaaaafaaaafaaaafaaaafaaaafaaaafaaaafaaaafaaaafaaaafaaaafaaaafaaaafaaaafaaaafaaaafaaaafaaaafaaaafaaaafaaaafaaaafaaaafaaaafaaaafaaaafaaaafaaaafaaaafaaaafaaaafaaaafaaaafaaaafaaaafaaaafaaaafaaaafaaaafaaaafaaaafaaaafaaaafaaaafaaaafaaaafaaaafaaaafaaaafaaaafaaaafaaaafaaaafaaaafaaaafaaaafaaaafaaaafaaaafaaaafaaaafaaaafaaaafaaaafaaaafaaaafaaaafaaaafaaaafaaaafaaaafaaaafaaaafaaaafaaaafaaaafaaaafaaaafaaaafaaaafaaaafaaaafaaaafaaaafaaaafaaaafaaaafaaaafaaaafaaaafaaaafaaaafaaaafaaaafaaaafaaaafaaaafaaaafaaaafaaaafaaaafaaaafaaaafaaaafaaaafaaaafaaaafaaaafaaaafaaaafaaaafaaaafaaaafaaaafaaaafaaaafaaaafaaaafaaaafaaaafaaaafaaaafaaaafaaaafaaaafaaaafaaaafaaaafaaaafaaaafaaaafaaaafaaaafaaaafaaaafaaaafaaaafaaaafaaaafaaaafaaaafaaaafaaaafaaaafaaaafaaaafaaaafaaaafaaaafaaaafaaaafaaaafaaaafaaaafaaaafaaaafaaaafaaaafaaaafaaaafaaaafaaaafaaaafaaaafaaaafaaaafaaaafaaaafaaaafaaaafaaaafaaaafaaaafaaaafaaaafaaaafaaaafaaaafaaaafaaaafaaaafaaaafaaaafaaaafaaaafaaaafaaaafaaaafaaaafaaaafaaaafaaaafaaaafaaaafaaaafaaaafaaaafaaaafaaaafaaaafaaaafaaaafaaaafaaaafaaaafaaaafaaaafaaaafaaaafaaaafaaaafaaaafaaaafaaaafaaaafaaaafaaaafaaaafaaaafaaaafaaaafaaaafaaaafaaaafaaaafaaaafaaaafaaaafaaaafaaaafaaaafaaaafaaaafaaaafaaaafaaaafaaaafaaaafaaaafaaaafaaaafaaaafaaaafaaaafaaaafaaaafaaaafaaaafaaaafaaaafaaaafaaaafaaaafaaaafaaaafaaaafaaaafaaaafaaaafaaaafaaaafaaaafaaaafaaaafaaaafaaaafaaaafaaaafaaaafaaaafaaaafaaaafaaaafaaaafaaaafaaaafaaaafaaaafaaaafaaaafaaaafaaaafaaaafaaaafaaaafaaaafaaaafaaaafaaaafaaaafaaaafaaaafaaaafaaaafaaaafaaaafaaaafaaaafaaaafaaaafaaaafaaaafaaaafaaaafaaaafaaaafaaaafaaaafaaaafaaaafaaaafaaaafaaaafaaaafaaaafaaaafaaaafaaaafaaaafaaaafaaaafaaaafaaaafaaaafaaaafaaaafaaaafaaaafaaaafaaaafaaaafaaaafaaaafaaaafaaaafaaaafaaaafaaaafaaaafaaaafaaaafaaaafaaaafaaaafaaaafaaaafaaaafaaaafaaaafaaaafaaaafaaaafaaaafaaaafaaaafaaaafaaaafaaaafaaaafaaaafaaaafaaaafaaaafaaaafaaaafaaaafaaaafaaaafaaaafaaaafaaaafaaaafaaaafaaaafaaaafaaaafaaaafaaaafaaaafaaaafaaaafaaaafaaaafaaaafaaaafaaaafaaaafaaaafaaaafaaaafaaaafaaaafaaaafaaaafaaaafaaaafaaaafaaaafaaaafaaaafaaaafaaaafaaaafaaaafaaaafaaaafaaaafaaaafaaaafaaaafaaaafaaaafaaaafaaaafaaaafaaaafaaaafaaaafaaaafaaaafaaaafaaaafaaaafaaaafaaaafaaaafaaaafaaaafaaaafaaaafaaaafaaaafaaaafaaaafaaaafaaaafaaaafaaaafaaaafaaaafaaaafaaaafaaaafaaaafaaaafaaaafaaaafaaaafaaaafaaaafaaaafaaaafaaaafaaaafaaaafaaaafaaaafaaaafaaaafaaaafaaaafaaaafaaaafaaaafaaaafaaaafaaaafaaaafaaaafaaaafaaaafaaaafaaaafaaaafaaaafaaaafaaaafaaaafaaaafaaaafaaaafaaaafaaaafaaaafaaaafaaaafaaaafaaaafaaaafaaaafaaaafaaaafaaaafaaaafaaaafaaaafaaaafaaaafaaaafaaaafaaaafaaaafaaaafaaaafaaaafaaaafaaaafaaaafaaaafaaaafaaaafaaaafaaaafaaaafaaaafaaaafaaaafaaaafaaaafaaaafaaaafaaaafaaaafaaaafaaaafaaaafaaaafaaaafaaaafaaaafaaaafaaaafaaaafaaaafaaaafaaaafaaaafaaaafaaaafaaaafaaaafaaaafaaaafaaaafaaaafaaaafaaaafaaaafaaaafaaaafaaaafaaaafaaaafaaaafaaaafaaaafaaaafaaaafaaaafaaaafaaaafaaaafaaaafaaaafaaaafaaaafaaaafaaaafaaaafaaaafaaaafaaaafaaaafaaaafaaaafaaaafaaaafaaaafaaaafaaaafaaaafaaaafaaaafaaaafaaaafaaaafaaaafaaaafaaaafaaaafaaaafaaaafaaaafaaaafaaaafaaaafaaaafaaaafaaaafaaaafaaaafaaaafaaaafaaaafaaaafaaaafaaaafaaaafaaaafaaaafaaaafaaaafaaaafaaaafaaaafaaaafaaaafaaaafaaaafaaaafaaaafaaaafaaaafaaaafaaaafaaaafaaaafaaaafaaaafaaaafaaaafaaaafaaaafaaaafaaaafaaaafaaaafaaaafaaaafaaaafaaaafaaaafaaaafaaaafaaaafaaaafaaaafaaaafaaaafaaaafaaaafaaaafaaaafaaaafaaaafaaaafaaaafaaaafaaaafaaaafaaaafaaaafaaaafaaaafaaaafaaaafaaaafaaaafaaaafaaaafaaaafaaaafaaaafaaaafaaaafaaaafaaaafaaaafaaaafaaaafaaaafaaaafaaaafaaaafaaaafaaaafaaaafaaaafaaaafaaaafaaaafaaaafaaaafaaaafaaaafaaaafaaaafaaaafaaaafaaaafaaaafaaaafaaaafaaaafaaaafaaaafaaaafaaaafaaaafaaaafaaaafaaaafaaaafaaaafaaaafaaaafaaaafaaaafaaaafaaaafaaaafaaaafaaaafaaaafaaaafaaaafaaaafaaaafaaaafaaaafaaaafaaaafaaaafaaaafaaaafaaaafaaaafaaaafaaaafaaaafaaaafaaaafaaaafaaaafaaaafaaaafaaaafaaaafaaaafaaaafaaaafaaaafaaaafaaaafaaaafaaaafaaaafaaaafaaaafaaaafaaaafaaaafaaaafaaaafaaaafaaaafaaaafaaaafaaaafaaaafaaaafaaaafaaaafaaaafaaaafaaaafaaaafaaaafaaaafaaaafaaaafaaaafaaaafaaaafaaaafaaaafaaaafaaaafaaaafaaaafaaaafaaaafaaaafaaaafaaaafaaaafaaaafaaaafaaaafaaaafaaaafaaaafaaaafaaaafaaaafaaaafaaaafaaaafaaaafaaaafaaaafaaaafaaaafaaaafaaaafaaaafaaaafaaaafaaaafaaaafaaaafaaaafaaaafaaaafaaaafaaaafaaaafaaaafaaaafaaaafaaaafaaaafaaaafaaaafaaaafaaaafaaaafaaaafaaaafaaaafaaaafaaaafaaaafaaaafaaaafaaaafaaaafaaaafaaaafaaaafaaaafaaaafaaaafaaaafaaaafaaaafaaaafaaaafaaaafaaaafaaaafaaaafaaaafaaaafaaaafaaaafaaaafaaaafaaaafaaaafaaaafaaaafaaaafaaaafaaaafaaaafaaaafaaaafaaaafaaaafaaaafaaaafaaaafaaaafaaaafaaaafaaaafaaaafaaaafaaaafaaaafaaaafaaaafaaaafaaaafaaaafaaaafaaaafaaaafaaaafaaaafaaaafaaaafaaaafaaaafaaaafaaaafaaaafaaaafaaaafaaaafaaaafaaaafaaaafaaaafaaaafaaaafaaaafaaaafaaaafaaaafaaaafaaaafaaaafaaaafaaaafaaaafaaaafaaaafaaaafaaaafaaaafaaaafaaaafaaaafaaaafaaaafaaaafaaaafaaaafaaaafaaaafaaaafaaaafaaaafaaaafaaaafaaaafaaaafaaaafaaaafaaaafaaaafaaaafaaaafaaaafaaaafaaaafaaaafaaaafaaaafaaaafaaaafaaaafaaaafaaaafaaaafaaaafaaaafaaaafaaaafaaaafaaaafaaaafaaaafaaaafaaaafaaaafaaaafaaaafaaaafaaaafaaaafaaaafaaaafaaaafaaaafaaaafaaaafaaaafaaaafaaaafaaaafaaaafaaaafaaaafaaaafaaaafaaaafaaaafaaaafaaaafaaaafaaaafaaaafaaaafaaaafaaaafaaaafaaaafaaaafaaaafaaaafaaaafaaaafaaaafaaaafaaaafaaaafaaaafaaaafaaaafaaaafaaaafaaaafaaaafaaaafaaaafaaaafaaaafaaaafaaaafaaaafaaaafaaaafaaaafaaaafaaaafaaaafaaaafaaaafaaaafaaaafaaaafaaaafaaaafaaaafaaaafaaaafaaaafaaaafaaaafaaaafaaaafaaaafaaaafaaaafaaaafaaaafaaaafaaaafaaaafaaaafaaaafaaaafaaaafaaaafaaaafaaaafaaaafaaaafaaaafaaaafaaaafaaaafaaaafaaaafaaaafaaaafaaaafaaaafaaaafaaaafaaaafaaaafaaaafaaaafaaaafaaaafaaaafaaaafaaaafaaaafaaaafaaaafaaaafaaaafaaaafaaaafaaaafaaaafaaaafaaaafaaaafaaaafaaaafaaaafaaaafaaaafaaaafaaaafaaaafaaaafaaaafaaaafaaaafaaaafaaaafaaaafaaaafaaaafaaaafaaaafaaaafaaaafaaaafaaaafaaaafaaaafaaaafaaaafaaaafaaaafaaaafaaaafaaaafaaaafaaaafaaaafaaaafaaaafaaaafaaaafaaaafaaaafaaaafaaaafaaaafaaaafaaaafaaaafaaaafaaaafaaaafaaaafaaaafaaaafaaaafaaaafaaaafaaaafaaaafaaaafaaaafaaaafaaaafaaaafaaaafaaaafaaaafaaaafaaaafaaaafaaaafaaaafaaaafaaaafaaaafaaaafaaaafaaaafaaaafaaaafaaaafaaaafaaaafaaaafaaaafaaaafaaaafaaaafaaaafaaaafaaaafaaaafaaaafaaaafaaaafaaaafaaaafaaaafaaaafaaaafaaaafaaaafaaaafaaaafaaaafaaaafaaaafaaaafaaaafaaaafaaaafaaaafaaaafaaaafaaaafaaaafaaaafaaaafaaaafaaaafaaaafaaaafaaaafaaaafaaaafaaaafaaaafaaaafaaaafaaaafaaaafaaaafaaaafaaaafaaaafaaaafaaaafaaaafaaaafaaaafaaaafaaaafaaaafaaaafaaaafaaaafaaaafaaaafaaaafaaaafaaaafaaaafaaaafaaaafaaaafaaaafaaaafaaaafaaaafaaaafaaaafaaaafaaaafaaaafaaaafaaaafaaaafaaaafaaaafaaaafaaaafaaaafaaaafaaaafaaaafaaaafaaaafaaaafaaaafaaaafaaaafaaaafaaaafaaaafaaaafaaaafaaaafaaaafaaaafaaaafaaaafaaaafaaaafaaaafaaaafaaaafaaaafaaaafaaaafaaaafaaaafaaaafaaaafaaaafaaaafaaaafaaaafaaaafaaaafaaaafaaaafaaaafaaaafaaaafaaaafaaaafaaaafaaaafaaaafaaaafaaaafaaaafaaaafaaaafaaaafaaaafaaaafaaaafaaaafaaaafaaaafaaaafaaaafaaaafaaaafaaaafaaaafaaaafaaaafaaaafaaaafaaaafaaaafaaaafaaaafaaaafaaaafaaaafaaaafaaaafaaaafaaaafaaaafaaaafaaaafaaaafaaaafaaaafaaaafaaaafaaaafaaaafaaaafaaaafaaaafaaaafaaaafaaaafaaaafaaaafaaaafaaaafaaaafaaaafaaaafaaaafaaaafaaaafaaaafaaaafaaaafaaaafaaaafaaaafaaaafaaaafaaaafaaaafaaaafaaaafaaaafaaaafaaaafaaaafaaaafaaaafaaaafaaaafaaaafaaaafaaaafaaaafaaaafaaaafaaaafaaaafaaaafaaaafaaaafaaaafaaaafaaaafaaaafaaaafaaaafaaaafaaaafaaaafaaaafaaaafaaaafaaaafaaaafaaaafaaaafaaaafaaaafaaaafaaaafaaaafaaaafaaaafaaaafaaaafaaaafaaaafaaaafaaaafaaaafaaaafaaaafaaaafaaaafaaaafaaaafaaaafaaaafaaaafaaaafaaaafaaaafaaaafaaaafaaaafaaaafaaaafaaaafaaaafaaaafaaaafaaaafaaaafaaaafaaaafaaaafaaaafaaaafaaaafaaaafaaaafaaaafaaaafaaaafaaaafaaaafaaaafaaaafaaaafaaaafaaaafaaaafaaaafaaaafaaaafaaaafaaaafaaaafaaaafaaaafaaaafaaaafaaaafaaaafaaaafaaaafaaaafaaaafaaaafaaaafaaaafaaaafaaaafaaaafaaaafaaaafaaaafaaaafaaaafaaaafaaaafaaaafaaaafaaaafaaaafaaaafaaaafaaaafaaaafaaaafaaaafaaaafaaaafaaaafaaaafaaaafaaaafaaaafaaaafaaaafaaaafaaaafaaaafaaaafaaaafaaaafaaaafaaaafaaaafaaaafaaaafaaaafaaaafaaaafaaaafaaaafaaaafaaaafaaaafaaaafaaaafaaaafaaaafaaaafaaaafaaaafaaaafaaaafaaaafaaaafaaaafaaaafaaaafaaaafaaaafaaaafaaaafaaaafaaaafaaaafaaaafaaaafaaaafaaaafaaaafaaaafaaaafaaaafaaaafaaaafaaaafaaaafaaaafaaaafaaaafaaaafaaaafaaaafaaaafaaaafaaaafaaaafaaaafaaaafaaaafaaaafaaaafaaaafaaaafaaaafaaaafaaaafaaaafaaaafaaaafaaaafaaaafaaaafaaaafaaaafaaaafaaaafaaaafaaaafaaaafaaaafaaaafaaaafaaaafaaaafaaaafaaaafaaaafaaaafaaaafaaaafaaaafaaaafaaaafaaaafaaaafaaaafaaaafaaaafaaaafaaaafaaaafaaaafaaaafaaaafaaaafaaaafaaaafaaaafaaaafaaaafaaaafaaaafaaaafaaaafaaaafaaaafaaaafaaaafaaaafaaaafaaaafaaaafaaaafaaaafaaaafaaaafaaaafaaaafaaaafaaaafaaaafaaaafaaaafaaaafaaaafaaaafaaaafaaaafaaaafaaaafaaaafaaaafaaaafaaaafaaaafaaaafaaaafaaaafaaaafaaaafaaaafaaaafaaaafaaaafaaaafaaaafaaaafaaaafaaaafaaaafaaaafaaaafaaaafaaaafaaaafaaaafaaaafaaaafaaaafaaaafaaaafaaaafaaaafaaaafaaaafaaaafaaaafaaaafaaaafaaaafaaaafaaaafaaaafaaaafaaaafaaaafaaaafaaaafaaaafaaaafaaaafaaaafaaaafaaaafaaaafaaaafaaaafaaaafaaaafaaaafaaaafaaaafaaaafaaaafaaaafaaaafaaaafaaaafaaaafaaaafaaaafaaaafaaaafaaaafaaaafaaaafaaaafaaaafaaaafaaaafaaaafaaaafaaaafaaaafaaaafaaaafaaaafaaaafaaaafaaaafaaaafaaaafaaaafaaaafaaaafaaaafaaaafaaaafaaaafaaaafaaaafaaaafaaaafaaaafaaaafaaaafaaaafaaaafaaaafaaaafaaaafaaaafaaaafaaaafaaaafaaaafaaaafaaaafaaaafaaaafaaaafaaaafaaaafaaaafaaaafaaaafaaaafaaaafaaaafaaaafaaaafaaaafaaaafaaaafaaaafaaaafaaaafaaaafaaaafaaaafaaaafaaaafaaaafaaaafaaaafaaaafaaaafaaaafaaaafaaaafaaaafaaaafaaaafaaaafaaaafaaaafaaaafaaaafaaaafaaaafaaaafaaaafaaaafaaaafaaaafaaaafaaaafaaaafaaaafaaaafaaaafaaaafaaaafaaaafaaaafaaaafaaaafaaaafaaaafaaaafaaaafaaaafaaaafaaaafaaaafaaaafaaaafaaaafaaaafaaaafaaaafaaaafaaaafaaaafaaaafaaaafaaaafaaaafaaaafaaaafaaaafaaaafaaaafaaaafaaaafaaaafaaaafaaaafaaaafaaaafaaaafaaaafaaaafaaaafaaaafaaaafaaaafaaaafaaaafaaaafaaaafaaaafaaaafaaaafaaaafaaaafaaaafaaaafaaaafaaaafaaaafaaaafaaaafaaaafaaaafaaaafaaaafaaaafaaaafaaaafaaaafaaaafaaaafaaaafaaaafaaaafaaaafaaaafaaaafaaaafaaaafaaaafaaaafaaaafaaaafaaaafaaaafaaaafaaaafaaaafaaaafaaaafaaaafaaaafaaaafaaaafaaaafaaaafaaaafaaaafaaaafaaaafaaaafaaaafaaaafaaaafaaaafaaaafaaaafaaaafaaaafaaaafaaaafaaaafaaaafaaaafaaaafaaaafaaaafaaaafaaaafaaaafaaaafaaaafaaaafaaaafaaaafaaaafaaaafaaaafaaaafaaaafaaaafaaaafaaaafaaaafaaaafaaaafaaaafaaaafaaaafaaaafaaaafaaaafaaaafaaaafaaaafaaaafaaaafaaaafaaaafaaaafaaaafaaaafaaaafaaaafaaaafaaaafaaaafaaaafaaaafaaaafaaaafaaaafaaaafaaaafaaaafaaaafaaaafaaaafaaaafaaaafaaaafaaaafaaaafaaaafaaaafaaaafaaaafaaaafaaaafaaaafaaaafaaaafaaaafaaaafaaaafaaaafaaaafaaaafaaaafaaaafaaaafaaaafaaaafaaaafaaaafaaaafaaaafaaaafaaaafaaaafaaaafaaaafaaaafaaaafaaaafaaaafaaaafaaaafaaaafaaaafaaaafaaaafaaaafaaaafaaaafaaaafaaaafaaaafaaaafaaaafaaaafaaaafaaaafaaaafaaaafaaaafaaaafaaaafaaaafaaaafaaaafaaaafaaaafaaaafaaaafaaaafaaaafaaaafaaaafaaaafaaaafaaaafaaaafaaaafaaaafaaaafaaaafaaaafaaaafaaaafaaaafaaaafaaaafaaaafaaaafaaaafaaaafaaaafaaaafaaaafaaaafaaaafaaaafaaaafaaaafaaaafaaaafaaaafaaaafaaaafaaaafaaaafaaaafaaaafaaaafaaaafaaaafaaaafaaaafaaaafaaaafaaaafaaaafaaaafaaaafaaaafaaaafaaaafaaaafaaaafaaaafaaaafaaaafaaaafaaaafaaaafaaaafaaaafaaaafaaaafaaaafaaaafaaaafaaaafaaaafaaaafaaaafaaaafaaaafaaaafaaaafaaaafaaaafaaaafaaaafaaaafaaaafaaaafaaaafaaaafaaaafaaaafaaaafaaaafaaaafaaaafaaaafaaaafaaaafaaaafaaaafaaaafaaaafaaaafaaaafaaaafaaaafaaaafaaaafaaaafaaaafaaaafaaaafaaaafaaaafaaaafaaaafaaaafaaaafaaaafaaaafaaaafaaaafaaaafaaaafaaaafaaaafaaaafaaaafaaaafaaaafaaaafaaaafaaaafaaaafaaaafaaaafaaaafaaaafaaaafaaaafaaaafaaaafaaaafaaaafaaaafaaaafaaaafaaaafaaaafaaaafaaaafaaaafaaaafaaaafaaaafaaaafaaaafaaaafaaaafaaaafaaaafaaaafaaaafaaaafaaaafaaaafaaaafaaaafaaaafaaaafaaaafaaaafaaaafaaaafaaaafaaaafaaaafaaaafaaaafaaaafaaaafaaaafaaaafaaaafaaaafaaaafaaaafaaaafaaaafaaaafaaaafaaaafaaaafaaaafaaaafaaaafaaaafaaaafaaaafaaaafaaaafaaaafaaaafaaaafaaaafaaaafaaaafaaaafaaaafaaaafaaaafaaaafaaaafaaaafaaaafaaaafaaaafaaaafaaaafaaaafaaaafaaaafaaaafaaaafaaaafaaaafaaaafaaaafaaaafaaaafaaaafaaaafaaaafaaaafaaaafaaaafaaaafaaaafaaaafaaaafaaaafaaaafaaaafaaaafaaaafaaaafaaaafaaaafaaaafaaaafaaaafaaaafaaaafaaaafaaaafaaaafaaaafaaaafaaaafaaaafaaaafaaaafaaaafaaaafaaaafaaaafaaaafaaaafaaaafaaaafaaaafaaaafaaaafaaaafaaaafaaaafaaaafaaaafaaaafaaaafaaaafaaaafaaaafaaaafaaaafaaaafaaaafaaaafaaaafaaaafaaaafaaaafaaaafaaaafaaaafaaaafaaaafaaaafaaaafaaaafaaaafaaaafaaaafaaaafaaaafaaaafaaaafaaaafaaaafaaaafaaaafaaaafaaaafaaaafaaaafaaaafaaaafaaaafaaaafaaaafaaaafaaaafaaaafaaaafaaaafaaaafaaaafaaaafaaaafaaaafaaaafaaaafaaaafaaaafaaaafaaaafaaaafaaaafaaaafaaaafaaaafaaaafaaaafaaaafaaaafaaaafaaaafaaaafaaaafaaaafaaaafaaaafaaaafaaaafaaaafaaaafaaaafaaaafaaaafaaaafaaaafaaaafaaaafaaaafaaaafaaaafaaaafaaaafaaaafaaaafaaaafaaaafaaaafaaaafaaaafaaaafaaaafaaaafaaaafaaaafaaaafaaaafaaaafaaaafaaaafaaaafaaaafaaaafaaaafaaaafaaaafaaaafaaaafaaaafaaaafaaaafaaaafaaaafaaaafaaaafaaaafaaaafaaaafaaaafaaaafaaaafaaaafaaaafaaaafaaaafaaaafaaaafaaaafaaaafaaaafaaaafaaaafaaaafaaaafaaaafaaaafaaaafaaaafaaaafaaaafaaaafaaaafaaaafaaaafaaaafaaaafaaaafaaaafaaaafaaaafaaaafaaaafaaaafaaaafaaaafaaaafaaaafaaaafaaaafaaaafaaaafaaaafaaaafaaaafaaaafaaaafaaaafaaaafaaaafaaaafaaaafaaaafaaaafaaaafaaaafaaaafaaaafaaaafaaaafaaaafaaaafaaaafaaaafaaaafaaaafaaaafaaaafaaaafaaaafaaaafaaaafaaaafaaaafaaaafaaaafaaaafaaaafaaaafaaaafaaaafaaaafaaaafaaaafaaaafaaaafaaaafaaaafaaaafaaaafaaaafaaaafaaaafaaaafaaaafaaaafaaaafaaaafaaaafaaaafaaaafaaaafaaaafaaaafaaaafaaaafaaaafaaaafaaaafaaaafaaaafaaaafaaaafaaaafaaaafaaaafaaaafaaaafaaaafaaaafaaaafaaaafaaaafaaaafaaaafaaaafaaaafaaaafaaaafaaaafaaaafaaaafaaaafaaaafaaaafaaaafaaaafaaaafaaaafaaaafaaaafaaaafaaaafaaaafaaaafaaaafaaaafaaaafaaaafaaaafaaaafaaaafaaaafaaaafaaaafaaaafaaaafaaaafaaaafaaaafaaaafaaaafaaaafaaaafaaaafaaaafaaaafaaaafaaaafaaaafaaaafaaaafaaaafaaaafaaaafaaaafaaaafaaaafaaaafaaaafaaaafaaaafaaaafaaaafaaaafaaaafaaaafaaaafaaaafaaaafaaaafaaaafaaaafaaaafaaaafaaaafaaaafaaaafaaaafaaaafaaaafaaaafaaaafaaaafaaaafaaaafaaaafaaaafaaaafaaaafaaaafaaaafaaaafaaaafaaaafaaaafaaaafaaaafaaaafaaaafaaaafaaaafaaaafaaaafaaaafaaaafaaaafaaaafaaaafaaaafaaaafaaaafaaaafaaaafaaaafaaaafaaaafaaaafaaaafaaaafaaaafaaaafaaaafaaaafaaaafaaaafaaaafaaaafaaaafaaaafaaaafaaaafaaaafaaaafaaaafaaaafaaaafaaaafaaaafaaaafaaaafaaaafaaaafaaaafaaaafaaaafaaaafaaaafaaaafaaaafaaaafaaaafaaaafaaaafaaaafaaaafaaaafaaaafaaaafaaaafaaaafaaaafaaaafaaaafaaaafaaaafaaaafaaaafaaaafaaaafaaaafaaaafaaaafaaaafaaaafaaaafaaaafaaaafaaaafaaaafaaaafaaaafaaaafaaaafaaaafaaaafaaaafaaaafaaaafaaaafaaaafaaaafaaaafaaaafaaaafaaaafaaaafaaaafaaaafaaaafaaaafaaaafaaaafaaaafaaaafaaaafaaaafaaaafaaaafaaaafaaaafaaaafaaaafaaaafaaaafaaaafaaaafaaaafaaaafaaaafaaaafaaaafaaaafaaaafaaaafaaaafaaaafaaaafaaaafaaaafaaaafaaaafaaaafaaaafaaaafaaaafaaaafaaaafaaaafaaaafaaaafaaaafaaaafaaaafaaaafaaaafaaaafaaaafaaaafaaaafaaaafaaaafaaaafaaaafaaaafaaaafaaaafaaaafaaaafaaaafaaaafaaaafaaaafaaaafaaaafaaaafaaaafaaaafaaaafaaaafaaaafaaaafaaaafaaaafaaaafaaaafaaaafaaaafaaaafaaaafaaaafaaaafaaaafaaaafaaaafaaaafaaaafaaaafaaaafaaaafaaaafaaaafaaaafaaaafaaaafaaaafaaaafaaaafaaaafaaaafaaaafaaaafaaaafaaaafaaaafaaaafaaaafaaaafaaaafaaaafaaaafaaaafaaaafaaaafaaaafaaaafaaaafaaaafaaaafaaaafaaaafaaaafaaaafaaaafaaaafaaaafaaaafaaaafaaaafaaaafaaaafaaaafaaaafaaaafaaaafaaaafaaaafaaaafaaaafaaaafaaaafaaaafaaaafaaaafaaaafaaaafaaaafaaaafaaaafaaaafaaaafaaaafaaaafaaaafaaaafaaaafaaaafaaaafaaaafaaaafaaaafaaaafaaaafaaaafaaaafaaaafaaaafaaaafaaaafaaaafaaaafaaaafaaaafaaaafaaaafaaaafaaaafaaaafaaaafaaaafaaaafaaaafaaaafaaaafaaaafaaaafaaaafaaaafaaaafaaaafaaaafaaaafaaaafaaaafaaaafaaaafaaaafaaaafaaaafaaaafaaaafaaaafaaaafaaaafaaaafaaaafaaaafaaaafaaaafaaaafaaaafaaaafaaaafaaaafaaaafaaaafaaaafaaaafaaaafaaaafaaaafaaaafaaaafaaaafaaaafaaaafaaaafaaaafaaaafaaaafaaaafaaaafaaaafaaaafaaaafaaaafaaaafaaaafaaaafaaaafaaaafaaaafaaaafaaaafaaaafaaaafaaaafaaaafaaaafaaaafaaaafaaaafaaaafaaaafaaaafaaaafaaaafaaaafaaaafaaaafaaaafaaaafaaaafaaaafaaaafaaaafaaaafaaaafaaaafaaaafaaaafaaaafaaaafaaaafaaaafaaaafaaaafaaaafaaaafaaaafaaaafaaaafaaaafaaaafaaaafaaaafaaaafaaaafaaaafaaaafaaaafaaaafaaaafaaaafaaaafaaaafaaaafaaaafaaaafaaaafaaaafaaaafaaaafaaaafaaaafaaaafaaaafaaaafaaaafaaaafaaaafaaaafaaaafaaaafaaaafaaaafaaaafaaaafaaaafaaaafaaaafaaaafaaaafaaaafaaaafaaaafaaaafaaaafaaaafaaaafaaaafaaaafaaaafaaaafaaaafaaaafaaaafaaaafaaaafaaaafaaaafaaaafaaaafaaaafaaaafaaaafaaaafaaaafaaaafaaaafaaaafaaaafaaaafaaaafaaaafaaaafaaaafaaaafaaaafaaaafaaaafaaaafaaaafaaaafaaaafaaaafaaaafaaaafaaaafaaaafaaaafaaaafaaaafaaaafaaaafaaaafaaaafaaaafaaaafaaaafaaaafaaaafaaaafaaaafaaaafaaaafaaaafaaaafaaaafaaaafaaaafaaaafaaaafaaaafaaaafaaaafaaaafaaaafaaaafaaaafaaaafaaaafaaaafaaaafaaaafaaaafaaaafaaaafaaaafaaaafaaaafaaaafaaaafaaaafaaaafaaaafaaaafaaaafaaaafaaaafaaaafaaaafaaaafaaaafaaaafaaaafaaaafaaaafaaaafaaaafaaaafaaaafaaaafaaaafaaaafaaaafaaaafaaaafaaaafaaaafaaaafaaaafaaaafaaaafaaaafaaaafaaaafaaaafaaaafaaaafaaaafaaaafaaaafaaaafaaaafaaaafaaaafaaaafaaaafaaaafaaaafaaaafaaaafaaaafaaaafaaaafaaaafaaaafaaaafaaaafaaaafaaaafaaaafaaaafaaaafaaaafaaaafaaaafaaaafaaaafaaaafaaaafaaaafaaaafaaaafaaaafaaaafaaaafaaaafaaaafaaaafaaaafaaaafaaaafaaaafaaaafaaaafaaaafaaaafaaaafaaaafaaaafaaaafaaaafaaaafaaaafaaaafaaaafaaaafaaaafaaaafaaaafaaaafaaaafaaaafaaaafaaaafaaaafaaaafaaaafaaaafaaaafaaaafaaaafaaaafaaaafaaaafaaaafaaaafaaaafaaaafaaaafaaaafaaaafaaaafaaaafaaaafaaaafaaaafaaaafaaaafaaaafaaaafaaaafaaaafaaaafaaaafaaaafaaaafaaaafaaaafaaaafaaaafaaaafaaaafaaaafaaaafaaaafaaaafaaaafaaaafaaaafaaaafaaaafaaaafaaaafaaaafaaaafaaaafaaaafaaaafaaaafaaaafaaaafaaaafaaaafaaaafaaaafaaaafaaaafaaaafaaaafaaaafaaaafaaaafaaaafaaaafaaaafaaaafaaaafaaaafaaaafaaaafaaaafaaaafaaaafaaaafaaaafaaaafaaaafaaaafaaaafaaaafaaaafaaaafaaaafaaaafaaaafaaaafaaaafaaaafaaaafaaaafaaaafaaaafaaaafaaaafaaaafaaaafaaaafaaaafaaaafaaaafaaaafaaaafaaaafaaaafaaaafaaaafaaaafaaaafaaaafaaaafaaaafaaaafaaaafaaaafaaaafaaaafaaaafaaaafaaaafaaaafaaaafaaaafaaaafaaaafaaaafaaaafaaaafaaaafaaaafaaaafaaaafaaaafaaaafaaaafaaaafaaaafaaaafaaaafaaaafaaaafaaaafaaaafaaaafaaaafaaaafaaaafaaaafaaaafaaaafaaaafaaaafaaaafaaaafaaaafaaaafaaaafaaaafaaaafaaaafaaaafaaaafaaaafaaaafaaaafaaaafaaaafaaaafaaaafaaaafaaaafaaaafaaaafaaaafaaaafaaaafaaaafaaaafaaaafaaaafaaaafaaaafaaaafaaaafaaaafaaaafaaaafaaaafaaaafaaaafaaaafaaaafaaaafaaaafaaaafaaaafaaaafaaaafaaaafaaaafaaaafaaaafaaaafaaaafaaaafaaaafaaaafaaaafaaaafaaaafaaaafaaaafaaaafaaaafaaaafaaaafaaaafaaaafaaaafaaaafaaaafaaaafaaaafaaaafaaaafaaaafaaaafaaaafaaaafaaaafaaaafaaaafaaaafaaaafaaaafaaaafaaaafaaaafaaaafaaaafaaaafaaaafaaaafaaaafaaaafaaaafaaaafaaaafaaaafaaaafaaaafaaaafaaaafaaaafaaaafaaaafaaaafaaaafaaaafaaaafaaaafaaaafaaaafaaaafaaaafaaaafaaaafaaaafaaaafaaaafaaaafaaaafaaaafaaaafaaaafaaaafaaaafaaaafaaaafaaaafaaaafaaaafaaaafaaaafaaaafaaaafaaaafaaaafaaaafaaaafaaaafaaaafaaaafaaaafaaaafaaaafaaaafaaaafaaaafaaaafaaaafaaaafaaaafaaaafaaaafaaaafaaaafaaaafaaaafaaaafaaaafaaaafaaaafaaaafaaaafaaaafaaaafaaaafaaaafaaaafaaaafaaaafaaaafaaaafaaaafaaaafaaaafaaaafaaaafaaaafaaaafaaaafaaaafaaaafaaaafaaaafaaaafaaaafaaaafaaaafaaaafaaaafaaaafaaaafaaaafaaaafaaaafaaaafaaaafaaaafaaaafaaaafaaaafaaaafaaaafaaaafaaaafaaaafaaaafaaaafaaaafaaaafaaaafaaaafaaaafaaaafaaaafaaaafaaaafaaaafaaaafaaaafaaaafaaaafaaaafaaaafaaaafaaaafaaaafaaaafaaaafaaaafaaaafaaaafaaaafaaaafaaaafaaaafaaaafaaaafaaaafaaaafaaaafaaaafaaaafaaaafaaaafaaaafaaaafaaaafaaaafaaaafaaaafaaaafaaaafaaaafaaaafaaaafaaaafaaaafaaaafaaaafaaaafaaaafaaaafaaaafaaaafaaaafaaaafaaaafaaaafaaaafaaaafaaaafaaaafaaaafaaaafaaaafaaaafaaaafaaaafaaaafaaaafaaaafaaaafaaaafaaaafaaaafaaaafaaaafaaaafaaaafaaaafaaaafaaaafaaaafaaaafaaaafaaaafaaaafaaaafaaaafaaaafaaaafaaaafaaaafaaaafaaaafaaaafaaaafaaaafaaaafaaaafaaaafaaaafaaaafaaaafaaaafaaaafaaaafaaaafaaaafaaaafaaaafaaaafaaaafaaaafaaaafaaaafaaaafaaaafaaaafaaaafaaaafaaaafaaaafaaaafaaaafaaaafaaaafaaaafaaaafaaaafaaaafaaaafaaaafaaaafaaaafaaaafaaaafaaaafaaaafaaaafaaaafaaaafaaaafaaaafaaaafaaaafaaaafaaaafaaaafaaaafaaaafaaaafaaaafaaaafaaaafaaaafaaaafaaaafaaaafaaaafaaaafaaaafaaaafaaaafaaaafaaaafaaaafaaaafaaaafaaaafaaaafaaaafaaaafaaaafaaaafaaaafaaaafaaaafaaaafaaaafaaaafaaaafaaaafaaaafaaaafaaaafaaaafaaaafaaaafaaaafaaaafaaaafaaaafaaaafaaaafaaaafaaaafaaaafaaaafaaaafaaaafaaaafaaaafaaaafaaaafaaaafaaaafaaaafaaaafaaaafaaaafaaaafaaaafaaaafaaaafaaaafaaaafaaaafaaaafaaaafaaaafaaaafaaaafaaaafaaaafaaaafaaaafaaaafaaaafaaaafaaaafaaaafaaaafaaaafaaaafaaaafaaaafaaaafaaaafaaaafaaaafaaaafaaaafaaaafaaaafaaaafaaaafaaaafaaaafaaaafaaaafaaaafaaaafaaaafaaaafaaaafaaaafaaaafaaaafaaaafaaaafaaaafaaaafaaaafaaaafaaaafaaaafaaaafaaaafaaaafaaaafaaaafaaaafaaaafaaaafaaaafaaaafaaaafaaaafaaaafaaaafaaaafaaaafaaaafaaaafaaaafaaaafaaaafaaaafaaaafaaaafaaaafaaaafaaaafaaaafaaaafaaaafaaaafaaaafaaaafaaaafaaaafaaaafaaaafaaaafaaaafaaaafaaaafaaaafaaaafaaaafaaaafaaaafaaaafaaaafaaaafaaaafaaaafaaaafaaaafaaaafaaaafaaaafaaaafaaaafaaaafaaaafaaaafaaaafaaaafaaaafaaaafaaaafaaaafaaaafaaaafaaaafaaaafaaaafaaaafaaaafaaaafaaaafaaaafaaaafaaaafaaaafaaaafaaaafaaaafaaaafaaaafaaaafaaaafaaaafaaaafaaaafaaaafaaaafaaaafaaaafaaaafaaaafaaaafaaaafaaaafaaaafaaaafaaaafaaaafaaaafaaaafaaaafaaaafaaaafaaaafaaaafaaaafaaaafaaaafaaaafaaaafaaaafaaaafaaaafaaaafaaaafaaaafaaaafaaaafaaaafaaaafaaaafaaaafaaaafaaaafaaaafaaaafaaaafaaaafaaaafaaaafaaaafaaaafaaaafaaaafaaaafaaaafaaaafaaaafaaaafaaaafaaaafaaaafaaaafaaaafaaaafaaaafaaaafaaaafaaaafaaaafaaaafaaaafaaaafaaaafaaaafaaaafaaaafaaaafaaaafaaaafaaaafaaaafaaaafaaaafaaaafaaaafaaaafaaaafaaaafaaaafaaaafaaaafaaaafaaaafaaaafaaaafaaaafaaaafaaaafaaaafaaaafaaaafaaaafaaaafaaaafaaaafaaaafaaaafaaaafaaaafaaaafaaaafaaaafaaaafaaaafaaaafaaaafaaaafaaaafaaaafaaaafaaaafaaaafaaaafaaaafaaaafaaaafaaaafaaaafaaaafaaaafaaaafaaaafaaaafaaaafaaaafaaaafaaaafaaaafaaaafaaaafaaaafaaaafaaaafaaaafaaaafaaaafaaaafaaaafaaaafaaaafaaaafaaaafaaaafaaaafaaaafaaaafaaaafaaaafaaaafaaaafaaaafaaaafaaaafaaaafaaaafaaaafaaaafaaaafaaaafaaaafaaaafaaaafaaaafaaaafaaaafaaaafaaaafaaaafaaaafaaaafaaaafaaaafaaaafaaaafaaaafaaaafaaaafaaaafaaaafaaaafaaaafaaaafaaaafaaaafaaaafaaaafaaaafaaaafaaaafaaaafaaaafaaaafaaaafaaaafaaaafaaaafaaaafaaaafaaaafaaaafaaaafaaaafaaaafaaaafaaaafaaaafaaaafaaaafaaaafaaaafaaaafaaaafaaaafaaaafaaaafaaaafaaaafaaaafaaaafaaaafaaaafaaaafaaaafaaaafaaaafaaaafaaaafaaaafaaaafaaaafaaaafaaaafaaaafaaaafaaaafaaaafaaaafaaaafaaaafaaaafaaaafaaaafaaaafaaaafaaaafaaaafaaaafaaaafaaaafaaaafaaaafaaaafaaaafaaaafaaaafaaaafaaaafaaaafaaaafaaaafaaaafaaaafaaaafaaaafaaaafaaaafaaaafaaaafaaaafaaaafaaaafaaaafaaaafaaaafaaaafaaaafaaaafaaaafaaaafaaaafaaaafaaaafaaaafaaaafaaaafaaaafaaaafaaaafaaaafaaaafaaaafaaaafaaaafaaaafaaaafaaaafaaaafaaaafaaaafaaaafaaaafaaaafaaaafaaaafaaaafaaaafaaaafaaaafaaaafaaaafaaaafaaaafaaaafaaaafaaaafaaaafaaaafaaaafaaaafaaaafaaaafaaaafaaaafaaaafaaaafaaaafaaaafaaaafaaaafaaaafaaaafaaaafaaaafaaaafaaaafaaaafaaaafaaaafaaaafaaaafaaaafaaaafaaaafaaaafaaaafaaaafaaaafaaaafaaaafaaaafaaaafaaaafaaaafaaaafaaaafaaaafaaaafaaaafaaaafaaaafaaaafaaaafaaaafaaaafaaaafaaaafaaaafaaaafaaaafaaaafaaaafaaaafaaaafaaaafaaaafaaaafaaaafaaaafaaaafaaaafaaaafaaaafaaaafaaaafaaaafaaaafaaaafaaaafaaaafaaaafaaaafaaaafaaaafaaaafaaaafaaaafaaaafaaaafaaaafaaaafaaaafaaaafaaaafaaaafaaaafaaaafaaaafaaaafaaaafaaaafaaaafaaaafaaaafaaaafaaaafaaaafaaaafaaaafaaaafaaaafaaaafaaaafaaaafaaaafaaaafaaaafaaaafaaaafaaaafaaaafaaaafaaaafaaaafaaaafaaaafaaaafaaaafaaaafaaaafaaaafaaaafaaaafaaaafaaaafaaaafaaaafaaaafaaaafaaaafaaaafaaaafaaaafaaaafaaaafaaaafaaaafaaaafaaaafaaaafaaaafaaaafaaaafaaaafaaaafaaaafaaaafaaaafaaaafaaaafaaaafaaaafaaaafaaaafaaaafaaaafaaaafaaaafaaaafaaaafaaaafaaaafaaaafaaaafaaaafaaaafaaaafaaaafaaaafaaaafaaaafaaaafaaaafaaaafaaaafaaaafaaaafaaaafaaaafaaaafaaaafaaaafaaaafaaaafaaaafaaaafaaaafaaaafaaaafaaaafaaaafaaaafaaaafaaaafaaaafaaaafaaaafaaaafaaaafaaaafaaaafaaaafaaaafaaaafaaaafaaaafaaaafaaaafaaaafaaaafaaaafaaaafaaaafaaaafaaaafaaaafaaaafaaaafaaaafaaaafaaaafaaaafaaaafaaaafaaaafaaaafaaaafaaaafaaaafaaaafaaaafaaaafaaaafaaaafaaaafaaaafaaaafaaaafaaaafaaaafaaaafaaaafaaaafaaaafaaaafaaaafaaaafaaaafaaaafaaaafaaaafaaaafaaaafaaaafaaaafaaaafaaaafaaaafaaaafaaaafaaaafaaaafaaaafaaaafaaaafaaaafaaaafaaaafaaaafaaaafaaaafaaaafaaaafaaaafaaaafaaaafaaaafaaaafaaaafaaaafaaaafaaaafaaaafaaaafaaaafaaaafaaaafaaaafaaaafaaaafaaaafaaaafaaaafaaaafaaaafaaaafaaaafaaaafaaaafaaaafaaaafaaaafaaaafaaaafaaaafaaaafaaaafaaaafaaaafaaaafaaaafaaaafaaaafaaaafaaaafaaaafaaaafaaaafaaaafaaaafaaaafaaaafaaaafaaaafaaaafaaaafaaaafaaaafaaaafaaaafaaaafaaaafaaaafaaaafaaaafaaaafaaaafaaaafaaaafaaaafaaaafaaaafaaaafaaaafaaaafaaaafaaaafaaaafaaaafaaaafaaaafaaaafaaaafaaaafaaaafaaaafaaaafaaaafaaaafaaaafaaaafaaaafaaaafaaaafaaaafaaaafaaaafaaaafaaaafaaaafaaaafaaaafaaaafaaaafaaaafaaaafaaaafaaaafaaaafaaaafaaaafaaaafaaaafaaaafaaaafaaaafaaaafaaaafaaaafaaaafaaaafaaaafaaaafaaaafaaaafaaaafaaaafaaaafaaaafaaaafaaaafaaaafaaaafaaaafaaaafaaaafaaaafaaaafaaaafaaaafaaaafaaaafaaaafaaaafaaaafaaaafaaaafaaaafaaaafaaaafaaaafaaaafaaaafaaaafaaaafaaaafaaaafaaaafaaaafaaaafaaaafaaaafaaaafaaaafaaaafaaaafaaaafaaaafaaaafaaaafaaaafaaaafaaaafaaaafaaaafaaaafaaaafaaaafaaaafaaaafaaaafaaaafaaaafaaaafaaaafaaaafaaaafaaaafaaaafaaaafaaaafaaaafaaaafaaaafaaaafaaaafaaaafaaaafaaaafaaaafaaaafaaaafaaaafaaaafaaaafaaaafaaaafaaaafaaaafaaaafaaaafaaaafaaaafaaaafaaaafaaaafaaaafaaaafaaaafaaaafaaaafaaaafaaaafaaaafaaaafaaaafaaaafaaaafaaaafaaaafaaaafaaaafaaaafaaaafaaaafaaaafaaaafaaaafaaaafaaaafaaaafaaaafaaaafaaaafaaaafaaaafaaaafaaaafaaaafaaaafaaaafaaaafaaaafaaaafaaaafaaaafaaaafaaaafaaaafaaaafaaaafaaaafaaaafaaaafaaaafaaaafaaaafaaaafaaaafaaaafaaaafaaaafaaaafaaaafaaaafaaaafaaaafaaaafaaaafaaaafaaaafaaaafaaaafaaaafaaaafaaaafaaaafaaaafaaaafaaaafaaaafaaaafaaaafaaaafaaaafaaaafaaaafaaaafaaaafaaaafaaaafaaaafaaaafaaaafaaaafaaaafaaaafaaaafaaaafaaaafaaaafaaaafaaaafaaaafaaaafaaaafaaaafaaaafaaaafaaaafaaaafaaaafaaaafaaaafaaaafaaaafaaaafaaaafaaaafaaaafaaaafaaaafaaaafaaaafaaaafaaaafaaaafaaaafaaaafaaaafaaaafaaaafaaaafaaaafaaaafaaaafaaaafaaaafaaaafaaaafaaaafaaaafaaaafaaaafaaaafaaaafaaaafaaaafaaaafaaaafaaaafaaaafaaaafaaaafaaaafaaaafaaaafaaaafaaaafaaaafaaaafaaaafaaaafaaaafaaaafaaaafaaaafaaaafaaaafaaaafaaaafaaaafaaaafaaaafaaaafaaaafaaaafaaaafaaaafaaaafaaaafaaaafaaaafaaaafaaaafaaaafaaaafaaaafaaaafaaaafaaaafaaaafaaaafaaaafaaaafaaaafaaaafaaaafaaaafaaaafaaaafaaaafaaaafaaaafaaaafaaaafaaaafaaaafaaaafaaaafaaaafaaaafaaaafaaaafaaaafaaaafaaaafaaaafaaaafaaaafaaaafaaaafaaaafaaaafaaaafaaaafaaaafaaaafaaaafaaaafaaaafaaaafaaaafaaaafaaaafaaaafaaaafaaaafaaaafaaaafaaaafaaaafaaaafaaaafaaaafaaaafaaaafaaaafaaaafaaaafaaaafaaaafaaaafaaaafaaaafaaaafaaaafaaaafaaaafaaaafaaaafaaaafaaaafaaaafaaaafaaaafaaaafaaaafaaaafaaaafaaaafaaaafaaaafaaaafaaaafaaaafaaaafaaaafaaaafaaaafaaaafaaaafaaaafaaaafaaaafaaaafaaaafaaaafaaaafaaaafaaaafaaaafaaaafaaaafaaaafaaaafaaaafaaaafaaaafaaaafaaaafaaaafaaaafaaaafaaaafaaaafaaaafaaaafaaaafaaaafaaaafaaaafaaaafaaaafaaaafaaaafaaaafaaaafaaaafaaaafaaaafaaaafaaaafaaaafaaaafaaaafaaaafaaaafaaaafaaaafaaaafaaaafaaaafaaaafaaaafaaaafaaaafaaaafaaaafaaaafaaaafaaaafaaaafaaaafaaaafaaaafaaaafaaaafaaaafaaaafaaaafaaaafaaaafaaaafaaaafaaaafaaaafaaaafaaaafaaaafaaaafaaaafaaaafaaaafaaaafaaaafaaaafaaaafaaaafaaaafaaaafaaaafaaaafaaaafaaaafaaaafaaaafaaaafaaaafaaaafaaaafaaaafaaaafaaaafaaaafaaaafaaaafaaaafaaaafaaaafaaaafaaaafaaaafaaaafaaaafaaaafaaaafaaaafaaaafaaaafaaaafaaaafaaaafaaaafaaaafaaaafaaaafaaaafaaaafaaaafaaaafaaaafaaaafaaaafaaaafaaaafaaaafaaaafaaaafaaaafaaaafaaaafaaaafaaaafaaaafaaaafaaaafaaaafaaaafaaaafaaaafaaaafaaaafaaaafaaaafaaaafaaaafaaaafaaaafaaaafaaaafaaaafaaaafaaaafaaaafaaaafaaaafaaaafaaaafaaaafaaaafaaaafaaaafaaaafaaaafaaaafaaaafaaaafaaaafaaaafaaaafaaaafaaaafaaaafaaaafaaaafaaaafaaaafaaaafaaaafaaaafaaaafaaaafaaaafaaaafaaaafaaaafaaaafaaaafaaaafaaaafaaaafaaaafaaaafaaaafaaaafaaaafaaaafaaaafaaaafaaaafaaaafaaaafaaaafaaaafaaaafaaaafaaaafaaaafaaaafaaaafaaaafaaaafaaaafaaaafaaaafaaaafaaaafaaaafaaaafaaaafaaaafaaaafaaaafaaaafaaaafaaaafaaaafaaaafaaaafaaaafaaaafaaaafaaaafaaaafaaaafaaaafaaaafaaaafaaaafaaaafaaaafaaaafaaaafaaaafaaaafaaaafaaaafaaaafaaaafaaaafaaaafaaaafaaaafaaaafaaaafaaaafaaaafaaaafaaaafaaaafaaaafaaaafaaaafaaaafaaaafaaaafaaaafaaaafaaaafaaaafaaaafaaaafaaaafaaaafaaaafaaaafaaaafaaaafaaaafaaaafaaaafaaaafaaaafaaaafaaaafaaaafaaaafaaaafaaaafaaaafaaaafaaaafaaaafaaaafaaaafaaaafaaaafaaaafaaaafaaaafaaaafaaaafaaaafaaaafaaaafaaaafaaaafaaaafaaaafaaaafaaaafaaaafaaaafaaaafaaaafaaaafaaaafaaaafaaaafaaaafaaaafaaaafaaaafaaaafaaaafaaaafaaaafaaaafaaaafaaaafaaaafaaaafaaaafaaaafaaaafaaaafaaaafaaaafaaaafaaaafaaaafaaaafaaaafaaaafaaaafaaaafaaaafaaaafaaaafaaaafaaaafaaaafaaaafaaaafaaaafaaaafaaaafaaaafaaaafaaaafaaaafaaaafaaaafaaaafaaaafaaaafaaaafaaaafaaaafaaaafaaaafaaaafaaaafaaaafaaaafaaaafaaaafaaaafaaaafaaaafaaaafaaaafaaaafaaaafaaaafaaaafaaaafaaaafaaaafaaaafaaaafaaaafaaaafaaaafaaaafaaaafaaaafaaaafaaaafaaaafaaaafaaaafaaaafaaaafaaaafaaaafaaaafaaaafaaaafaaaafaaaafaaaafaaaafaaaafaaaafaaaafaaaafaaaafaaaafaaaafaaaafaaaafaaaafaaaafaaaafaaaafaaaafaaaafaaaafaaaafaaaafaaaafaaaafaaaafaaaafaaaafaaaafaaaafaaaafaaaafaaaafaaaafaaaafaaaafaaaafaaaafaaaafaaaafaaaafaaaafaaaafaaaafaaaafaaaafaaaafaaaafaaaafaaaafaaaafaaaafaaaafaaaafaaaafaaaafaaaafaaaafaaaafaaaafaaaafaaaafaaaafaaaafaaaafaaaafaaaafaaaafaaaafaaaafaaaafaaaafaaaafaaaafaaaafaaaafaaaafaaaafaaaafaaaafaaaafaaaafaaaafaaaafaaaafaaaafaaaafaaaafaaaafaaaafaaaafaaaafaaaafaaaafaaaafaaaafaaaafaaaafaaaafaaaafaaaafaaaafaaaafaaaafaaaafaaaafaaaafaaaafaaaafaaaafaaaafaaaafaaaafaaaafaaaafaaaafaaaafaaaafaaaafaaaafaaaafaaaafaaaafaaaafaaaafaaaafaaaafaaaafaaaafaaaafaaaafaaaafaaaafaaaafaaaafaaaafaaaafaaaafaaaafaaaafaaaafaaaafaaaafaaaafaaaafaaaafaaaafaaaafaaaafaaaafaaaafaaaafaaaafaaaafaaaafaaaafaaaafaaaafaaaafaaaafaaaafaaaafaaaafaaaafaaaafaaaafaaaafaaaafaaaafaaaafaaaafaaaafaaaafaaaafaaaafaaaafaaaafaaaafaaaafaaaafaaaafaaaafaaaafaaaafaaaafaaaafaaaafaaaafaaaafaaaafaaaafaaaafaaaafaaaafaaaafaaaafaaaafaaaafaaaafaaaafaaaafaaaafaaaafaaaafaaaafaaaafaaaafaaaafaaaafaaaafaaaafaaaafaaaafaaaafaaaafaaaafaaaafaaaafaaaafaaaafaaaafaaaafaaaafaaaafaaaafaaaafaaaafaaaafaaaafaaaafaaaafaaaafaaaafaaaafaaaafaaaafaaaafaaaafaaaafaaaafaaaafaaaafaaaafaaaafaaaafaaaafaaaafaaaafaaaafaaaafaaaafaaaafaaaafaaaafaaaafaaaafaaaafaaaafaaaafaaaafaaaafaaaafaaaafaaaafaaaafaaaafaaaafaaaafaaaafaaaafaaaafaaaafaaaafaaaafaaaafaaaafaaaafaaaafaaaafaaaafaaaafaaaafaaaafaaaafaaaafaaaafaaaafaaaafaaaafaaaafaaaafaaaafaaaafaaaafaaaafaaaafaaaafaaaafaaaafaaaafaaaafaaaafaaaafaaaafaaaafaaaafaaaafaaaafaaaafaaaafaaaafaaaafaaaafaaaafaaaafaaaafaaaafaaaafaaaafaaaafaaaafaaaafaaaafaaaafaaaafaaaafaaaafaaaafaaaafaaaafaaaafaaaafaaaafaaaafaaaafaaaafaaaafaaaafaaaafaaaafaaaafaaaafaaaafaaaafaaaafaaaafaaaafaaaafaaaafaaaafaaaafaaaafaaaafaaaafaaaafaaaafaaaafaaaafaaaafaaaafaaaafaaaafaaaafaaaafaaaafaaaafaaaafaaaafaaaafaaaafaaaafaaaafaaaafaaaafaaaafaaaafaaaafaaaafaaaafaaaafaaaafaaaafaaaafaaaafaaaafaaaafaaaafaaaafaaaafaaaafaaaafaaaafaaaafaaaafaaaafaaaafaaaafaaaafaaaafaaaafaaaafaaaafaaaafaaaafaaaafaaaafaaaafaaaafaaaafaaaafaaaafaaaafaaaafaaaafaaaafaaaafaaaafaaaafaaaafaaaafaaaafaaaafaaaafaaaafaaaafaaaafaaaafaaaafaaaafaaaafaaaafaaaafaaaafaaaafaaaafaaaafaaaafaaaafaaaafaaaafaaaafaaaafaaaafaaaafaaaafaaaafaaaafaaaafaaaafaaaafaaaafaaaafaaaafaaaafaaaafaaaafaaaafaaaafaaaafaaaafaaaafaaaafaaaafaaaafaaaafaaaafaaaafaaaafaaaafaaaafaaaafaaaafaaaafaaaafaaaafaaaafaaaafaaaafaaaafaaaafaaaafaaaafaaaafaaaafaaaafaaaafaaaafaaaafaaaafaaaafaaaafaaaafaaaafaaaafaaaafaaaafaaaafaaaafaaaafaaaafaaaafaaaafaaaafaaaafaaaafaaaafaaaafaaaafaaaafaaaafaaaafaaaafaaaafaaaafaaaafaaaafaaaafaaaafaaaafaaaafaaaafaaaafaaaafaaaafaaaafaaaafaaaafaaaafaaaafaaaafaaaafaaaafaaaafaaaafaaaafaaaafaaaafaaaafaaaafaaaafaaaafaaaafaaaafaaaafaaaafaaaafaaaafaaaafaaaafaaaafaaaafaaaafaaaafaaaafaaaafaaaafaaaafaaaafaaaafaaaafaaaafaaaafaaaafaaaafaaaafaaaafaaaafaaaafaaaafaaaafaaaafaaaafaaaafaaaafaaaafaaaafaaaafaaaafaaaafaaaafaaaafaaaafaaaafaaaafaaaafaaaafaaaafaaaafaaaafaaaafaaaafaaaafaaaafaaaafaaaafaaaafaaaafaaaafaaaafaaaafaaaafaaaafaaaafaaaafaaaafaaaafaaaafaaaafaaaafaaaafaaaafaaaafaaaafaaaafaaaafaaaafaaaafaaaafaaaafaaaafaaaafaaaafaaaafaaaafaaaafaaaafaaaafaaaafaaaafaaaafaaaafaaaafaaaafaaaafaaaafaaaafaaaafaaaafaaaafaaaafaaaafaaaafaaaafaaaafaaaafaaaafaaaafaaaafaaaafaaaafaaaafaaaafaaaafaaaafaaaafaaaafaaaafaaaafaaaafaaaafaaaafaaaafaaaafaaaafaaaafaaaafaaaafaaaafaaaafaaaafaaaafaaaafaaaafaaaafaaaafaaaafaaaafaaaafaaaafaaaafaaaafaaaafaaaafaaaafaaaafaaaafaaaafaaaafaaaafaaaafaaaafaaaafaaaafaaaafaaaafaaaafaaaafaaaafaaaafaaaafaaaafaaaafaaaafaaaafaaaafaaaafaaaafaaaafaaaafaaaafaaaafaaaafaaaafaaaafaaaafaaaafaaaafaaaafaaaafaaaafaaaafaaaafaaaafaaaafaaaafaaaafaaaafaaaafaaaafaaaafaaaafaaaafaaaafaaaafaaaafaaaafaaaafaaaafaaaafaaaafaaaafaaaafaaaafaaaafaaaafaaaafaaaafaaaafaaaafaaaafaaaafaaaafaaaafaaaafaaaafaaaafaaaafaaaafaaaafaaaafaaaafaaaafaaaafaaaafaaaafaaaafaaaafaaaafaaaafaaaafaaaafaaaafaaaafaaaafaaaafaaaafaaaafaaaafaaaafaaaafaaaafaaaafaaaafaaaafaaaafaaaafaaaafaaaafaaaafaaaafaaaafaaaafaaaafaaaafaaaafaaaafaaaafaaaafaaaafaaaafaaaafaaaafaaaafaaaafaaaafaaaafaaaafaaaafaaaafaaaafaaaafaaaafaaaafaaaafaaaafaaaafaaaafaaaafaaaafaaaafaaaafaaaafaaaafaaaafaaaafaaaafaaaafaaaafaaaafaaaafaaaafaaaafaaaafaaaafaaaafaaaafaaaafaaaafaaaafaaaafaaaafaaaafaaaafaaaafaaaafaaaafaaaafaaaafaaaafaaaafaaaafaaaafaaaafaaaafaaaafaaaafaaaafaaaafaaaafaaaafaaaafaaaafaaaafaaaafaaaafaaaafaaaafaaaafaaaafaaaafaaaafaaaafaaaafaaaafaaaafaaaafaaaafaaaafaaaafaaaafaaaafaaaafaaaafaaaafaaaafaaaafaaaafaaaafaaaafaaaafaaaafaaaafaaaafaaaafaaaafaaaafaaaafaaaafaaaafaaaafaaaafaaaafaaaafaaaafaaaafaaaafaaaafaaaafaaaafaaaafaaaafaaaafaaaafaaaafaaaafaaaafaaaafaaaafaaaafaaaafaaaafaaaafaaaafaaaafaaaafaaaafaaaafaaaafaaaafaaaafaaaafaaaafaaaafaaaafaaaafaaaafaaaafaaaafaaaafaaaafaaaafaaaafaaaafaaaafaaaafaaaafaaaafaaaafaaaafaaaafaaaafaaaafaaaafaaaafaaaafaaaafaaaafaaaafaaaafaaaafaaaafaaaafaaaafaaaafaaaafaaaafaaaafaaaafaaaafaaaafaaaafaaaafaaaafaaaafaaaafaaaafaaaafaaaafaaaafaaaafaaaafaaaafaaaafaaaafaaaafaaaafaaaafaaaafaaaafaaaafaaaafaaaafaaaafaaaafaaaafaaaafaaaafaaaafaaaafaaaafaaaafaaaafaaaafaaaafaaaafaaaafaaaafaaaafaaaafaaaafaaaafaaaafaaaafaaaafaaaafaaaafaaaafaaaafaaaafaaaafaaaafaaaafaaaafaaaafaaaafaaaafaaaafaaaafaaaafaaaafaaaafaaaafaaaafaaaafaaaafaaaafaaaafaaaafaaaafaaaafaaaafaaaafaaaafaaaafaaaafaaaafaaaafaaaafaaaafaaaafaaaafaaaafaaaafaaaafaaaafaaaafaaaafaaaafaaaafaaaafaaaafaaaafaaaafaaaafaaaafaaaafaaaafaaaafaaaafaaaafaaaafaaaafaaaafaaaafaaaafaaaafaaaafaaaafaaaafaaaafaaaafaaaafaaaafaaaafaaaafaaaafaaaafaaaafaaaafaaaafaaaafaaaafaaaafaaaafaaaafaaaafaaaafaaaafaaaafaaaafaaaafaaaafaaaafaaaafaaaafaaaafaaaafaaaafaaaafaaaafaaaafaaaafaaaafaaaafaaaafaaaafaaaafaaaafaaaafaaaafaaaafaaaafaaaafaaaafaaaafaaaafaaaafaaaafaaaafaaaafaaaafaaaafaaaafaaaafaaaafaaaafaaaafaaaafaaaafaaaafaaaafaaaafaaaafaaaafaaaafaaaafaaaafaaaafaaaafaaaafaaaafaaaafaaaafaaaafaaaafaaaafaaaafaaaafaaaafaaaafaaaafaaaafaaaafaaaafaaaafaaaafaaaafaaaafaaaafaaaafaaaafaaaafaaaafaaaafaaaafaaaafaaaafaaaafaaaafaaaafaaaafaaaafaaaafaaaafaaaafaaaafaaaafaaaafaaaafaaaafaaaafaaaafaaaafaaaafaaaafaaaafaaaafaaaafaaaafaaaafaaaafaaaafaaaafaaaafaaaafaaaafaaaafaaaafaaaafaaaafaaaafaaaafaaaafaaaafaaaafaaaafaaaafaaaafaaaafaaaafaaaafaaaafaaaafaaaafaaaafaaaafaaaafaaaafaaaafaaaafaaaafaaaafaaaafaaaafaaaafaaaafaaaafaaaafaaaafaaaafaaaafaaaafaaaafaaaafaaaafaaaafaaaafaaaafaaaafaaaafaaaafaaaafaaaafaaaafaaaafaaaafaaaafaaaafaaaafaaaafaaaafaaaafaaaafaaaafaaaafaaaafaaaafaaaafaaaafaaaafaaaafaaaafaaaafaaaafaaaafaaaafaaaafaaaafaaaafaaaafaaaafaaaafaaaafaaaafaaaafaaaafaaaafaaaafaaaafaaaafaaaafaaaafaaaafaaaafaaaafaaaafaaaafaaaafaaaafaaaafaaaafaaaafaaaafaaaafaaaafaaaafaaaafaaaafaaaafaaaafaaaafaaaafaaaafaaaafaaaafaaaafaaaafaaaafaaaafaaaafaaaafaaaafaaaafaaaafaaaafaaaafaaaafaaaafaaaafaaaafaaaafaaaafaaaafaaaafaaaafaaaafaaaafaaaafaaaafaaaafaaaafaaaafaaaafaaaafaaaafaaaafaaaafaaaafaaaafaaaafaaaafaaaafaaaafaaaafaaaafaaaafaaaafaaaafaaaafaaaafaaaafaaaafaaaafaaaafaaaafaaaafaaaafaaaafaaaafaaaafaaaafaaaafaaaafaaaafaaaafaaaafaaaafaaaafaaaafaaaafaaaafaaaafaaaafaaaafaaaafaaaafaaaafaaaafaaaafaaaafaaaafaaaafaaaafaaaafaaaafaaaafaaaafaaaafaaaafaaaafaaaafaaaafaaaafaaaafaaaafaaaafaaaafaaaafaaaafaaaafaaaafaaaafaaaafaaaafaaaafaaaafaaaafaaaafaaaafaaaafaaaafaaaafaaaafaaaafaaaafaaaafaaaafaaaafaaaafaaaafaaaafaaaafaaaafaaaafaaaafaaaafaaaafaaaafaaaafaaaafaaaafaaaafaaaafaaaafaaaafaaaafaaaafaaaafaaaafaaaafaaaafaaaafaaaafaaaafaaaafaaaafaaaafaaaafaaaafaaaafaaaafaaaafaaaafaaaafaaaafaaaafaaaafaaaafaaaafaaaafaaaafaaaafaaaafaaaafaaaafaaaafaaaafaaaafaaaafaaaafaaaafaaaafaaaafaaaafaaaafaaaafaaaafaaaafaaaafaaaafaaaafaaaafaaaafaaaafaaaafaaaafaaaafaaaafaaaafaaaafaaaafaaaafaaaafaaaafaaaafaaaafaaaafaaaafaaaafaaaafaaaafaaaafaaaafaaaafaaaafaaaafaaaafaaaafaaaafaaaafaaaafaaaafaaaafaaaafaaaafaaaafaaaafaaaafaaaafaaaafaaaafaaaafaaaafaaaafaaaafaaaafaaaafaaaafaaaafaaaafaaaafaaaafaaaafaaaafaaaafaaaafaaaafaaaafaaaafaaaafaaaafaaaafaaaafaaaafaaaafaaaafaaaafaaaafaaaafaaaafaaaafaaaafaaaafaaaafaaaafaaaafaaaafaaaafaaaafaaaafaaaafaaaafaaaafaaaafaaaafaaaafaaaafaaaafaaaafaaaafaaaafaaaafaaaafaaaafaaaafaaaafaaaafaaaafaaaafaaaafaaaafaaaafaaaafaaaafaaaafaaaafaaaafaaaafaaaafaaaafaaaafaaaafaaaafaaaafaaaafaaaafaaaafaaaafaaaafaaaafaaaafaaaafaaaafaaaafaaaafaaaafaaaafaaaafaaaafaaaafaaaafaaaafaaaafaaaafaaaafaaaafaaaafaaaafaaaafaaaafaaaafaaaafaaaafaaaafaaaafaaaafaaaafaaaafaaaafaaaafaaaafaaaafaaaafaaaafaaaafaaaafaaaafaaaafaaaafaaaafaaaafaaaafaaaafaaaafaaaafaaaafaaaafaaaafaaaafaaaafaaaafaaaafaaaafaaaafaaaafaaaafaaaafaaaafaaaafaaaafaaaafaaaafaaaafaaaafaaaafaaaafaaaafaaaafaaaafaaaafaaaafaaaafaaaafaaaafaaaafaaaafaaaafaaaafaaaafaaaafaaaafaaaafaaaafaaaafaaaafaaaafaaaafaaaafaaaafaaaafaaaafaaaafaaaafaaaafaaaafaaaafaaaafaaaafaaaafaaaafaaaafaaaafaaaafaaaafaaaafaaaafaaaafaaaafaaaafaaaafaaaafaaaafaaaafaaaafaaaafaaaafaaaafaaaafaaaafaaaafaaaafaaaafaaaafaaaafaaaafaaaafaaaafaaaafaaaafaaaafaaaafaaaafaaaafaaaafaaaafaaaafaaaafaaaafaaaafaaaafaaaafaaaafaaaafaaaafaaaafaaaafaaaafaaaafaaaafaaaafaaaafaaaafaaaafaaaafaaaafaaaafaaaafaaaafaaaafaaaafaaaafaaaafaaaafaaaafaaaafaaaafaaaafaaaafaaaafaaaafaaaafaaaafaaaafaaaafaaaafaaaafaaaafaaaafaaaafaaaafaaaafaaaafaaaafaaaafaaaafaaaafaaaafaaaafaaaafaaaafaaaafaaaafaaaafaaaafaaaafaaaafaaaafaaaafaaaafaaaafaaaafaaaafaaaafaaaafaaaafaaaafaaaafaaaafaaaafaaaafaaaafaaaafaaaafaaaafaaaafaaaafaaaafaaaafaaaafaaaafaaaafaaaafaaaafaaaafaaaafaaaafaaaafaaaafaaaafaaaafaaaafaaaafaaaafaaaafaaaafaaaafaaaafaaaafaaaafaaaafaaaafaaaafaaaafaaaafaaaafaaaafaaaafaaaafaaaafaaaafaaaafaaaafaaaafaaaafaaaafaaaafaaaafaaaafaaaafaaaafaaaafaaaafaaaafaaaafaaaafaaaafaaaafaaaafaaaafaaaafaaaafaaaafaaaafaaaafaaaafaaaafaaaafaaaafaaaafaaaafaaaafaaaafaaaafaaaafaaaafaaaafaaaafaaaafaaaafaaaafaaaafaaaafaaaafaaaafaaaafaaaafaaaafaaaafaaaafaaaafaaaafaaaafaaaafaaaafaaaafaaaafaaaafaaaafaaaafaaaafaaaafaaaafaaaafaaaafaaaafaaaafaaaafaaaafaaaafaaaafaaaafaaaafaaaafaaaafaaaafaaaafaaaafaaaafaaaafaaaafaaaafaaaafaaaafaaaafaaaafaaaafaaaafaaaafaaaafaaaafaaaafaaaafaaaafaaaafaaaafaaaafaaaafaaaafaaaafaaaafaaaafaaaafaaaafaaaafaaaafaaaafaaaafaaaafaaaafaaaafaaaafaaaafaaaafaaaafaaaafaaaafaaaafaaaafaaaafaaaafaaaafaaaafaaaafaaaafaaaafaaaafaaaafaaaafaaaafaaaafaaaafaaaafaaaafaaaafaaaafaaaafaaaafaaaafaaaafaaaafaaaafaaaafaaaafaaaafaaaafaaaafaaaafaaaafaaaafaaaafaaaafaaaafaaaafaaaafaaaafaaaafaaaafaaaafaaaafaaaafaaaafaaaafaaaafaaaafaaaafaaaafaaaafaaaafaaaafaaaafaaaafaaaafaaaafaaaafaaaafaaaafaaaafaaaafaaaafaaaafaaaafaaaafaaaafaaaafaaaafaaaafaaaafaaaafaaaafaaaafaaaafaaaafaaaafaaaafaaaafaaaafaaaafaaaafaaaafaaaafaaaafaaaafaaaafaaaafaaaafaaaafaaaafaaaafaaaafaaaafaaaafaaaafaaaafaaaafaaaafaaaafaaaafaaaafaaaafaaaafaaaafaaaafaaaafaaaafaaaafaaaafaaaafaaaafaaaafaaaafaaaafaaaafaaaafaaaafaaaafaaaafaaaafaaaafaaaafaaaafaaaafaaaafaaaafaaaafaaaafaaaafaaaafaaaafaaaafaaaafaaaafaaaafaaaafaaaafaaaafaaaafaaaafaaaafaaaafaaaafaaaafaaaafaaaafaaaafaaaafaaaafaaaafaaaafaaaafaaaafaaaafaaaafaaaafaaaafaaaafaaaafaaaafaaaafaaaafaaaafaaaafaaaafaaaafaaaafaaaafaaaafaaaafaaaafaaaafaaaafaaaafaaaafaaaafaaaafaaaafaaaafaaaafaaaafaaaafaaaafaaaafaaaafaaaafaaaafaaaafaaaafaaaafaaaafaaaafaaaafaaaafaaaafaaaafaaaafaaaafaaaafaaaafaaaafaaaafaaaafaaaafaaaafaaaafaaaafaaaafaaaafaaaafaaaafaaaafaaaafaaaafaaaafaaaafaaaafaaaafaaaafaaaafaaaafaaaafaaaafaaaafaaaafaaaafaaaafaaaafaaaafaaaafaaaafaaaafaaaafaaaafaaaafaaaafaaaafaaaafaaaafaaaafaaaafaaaafaaaafaaaafaaaafaaaafaaaafaaaafaaaafaaaafaaaafaaaafaaaafaaaafaaaafaaaafaaaafaaaafaaaafaaaafaaaafaaaafaaaafaaaafaaaafaaaafaaaafaaaafaaaafaaaafaaaafaaaafaaaafaaaafaaaafaaaafaaaafaaaafaaaafaaaafaaaafaaaafaaaafaaaafaaaafaaaafaaaafaaaafaaaafaaaafaaaafaaaafaaaafaaaafaaaafaaaafaaaafaaaafaaaafaaaafaaaafaaaafaaaafaaaafaaaafaaaafaaaafaaaafaaaafaaaafaaaafaaaafaaaafaaaafaaaafaaaafaaaafaaaafaaaafaaaafaaaafaaaafaaaafaaaafaaaafaaaafaaaafaaaafaaaafaaaafaaaafaaaafaaaafaaaafaaaafaaaafaaaafaaaafaaaafaaaafaaaafaaaafaaaafaaaafaaaafaaaafaaaafaaaafaaaafaaaafaaaafaaaafaaaafaaaafaaaafaaaafaaaafaaaafaaaafaaaafaaaafaaaafaaaafaaaafaaaafaaaafaaaafaaaafaaaafaaaafaaaafaaaafaaaafaaaafaaaafaaaafaaaafaaaafaaaafaaaafaaaafaaaafaaaafaaaafaaaafaaaafaaaafaaaafaaaafaaaafaaaafaaaafaaaafaaaafaaaafaaaafaaaafaaaafaaaafaaaafaaaafaaaafaaaafaaaafaaaafaaaafaaaafaaaafaaaafaaaafaadefaadefaadefaadefaadefaadefaadefaadefaadefaadefaadefaadefaadefaadefaadefaadefaadefaadefaadefaadefaadefaadefaadefaadefaadefaadefaadefaadefaadefaadefaadefaadefaadefaadefaaaafaaaafaaaafaaaafaaaafaaaafaaaafaaaafaaaafaaaafaaaafaaaafaaaafaaaafaaaafaaaafaaaafaaaafaaaafaaaafaaaafaaaafaaaafaaaafaaaafaaaafaaaafaaaafaaaafaaaafaaaafaaaafaaaafaaaafaaaafaaaafaaaafaaaafaaaafaaaafaaaafaaaafaaaafaaaafaaaafaaaafaaaafaaaafaaaafaaaafaaaafaaaafaaaafaaaafaaaafaaaafaaaafaaaafaaaafaaaafaaaafaaaafaaaafaaaafaaaafaaaafaaaafaaaafaaaafaaaafaaaafaaaafaaaafaaaafaaaafaaaafaaaafaaaafaaaafaaaafaaaafaaaafaaaafaaaafaaaafaaaafaaaafaaaafaaaafaaaafaaaafaaaafaaaafaaaafaaaafaaaafaaaafaaaafaaaafaaaafaaaafaaaafaaaafaaaafaaaafaaaafaaaafaaaafaaaafaaaafaaaafaaaafaaaafaaaafaaaafaaaafaaaafaaaafaaaafaaaafaaaafaaaafaaaafaaaafaaaafaaaafaaaafaaaafaaaafaaaafaaaafaaaafaaaafaaaafaaaafaaaafaaaafaaaafaaaafaaaafaaaafaaaafaaaafaaaafaaaafaaaafaaaafaaaafaaaafaaaafaaaafaaaafaaaafaaaafaaaafaaaafaaaafaaaafaaaafaaaafaaaafaaaafaaaafaaaafaaaafaaaafaaaafaaaafaaaafaaaafaaaafaaaafaaaafaaaafaaaafaaaafaaaafaaaafaaaafaaaafaaaafaaaafaaaafaaaafaaaafaaaafaaaafaaaafaaaafaaaafaaaafaaaafaaaafaaaafaaaafaaaafaaaafaaaafaaaafaaaafaaaafaaaafaaaafaaaafaaaafaaaafaaaafaaaafaaaafaaaafaaaafaaaafaaaafaaaafaaaafaaaafaaaafaaaafaaaafaaaafaaaafaaaafaaaafaaaafaaaafaaaafaaaafaaaafaaaafaaaafaaaafaaaafaaaafaaaafaaaafaaaafaaaafaaaafaaaafaaaafaaaafaaaafaaaafaaaafaaaafaaaafaaaafaaaafaaaafaaaafaaaafaaaafaaaafaaaafaaaafaaaafaaaafaaaafaaaafaaaafaaaafaaaafaaaafaaaafaaaafaaaafaaaafaaaafaaaafaaaafaaaafaaaafaaaafaaaafaaaafaaaafaaaafaaaafaaaafaaaafaaaafaaaafaaaafaaaafaaaafaaaafaaaafaaaafaaaafaaaafaaaafaaaafaaaafaaaafaaaafaaaafaaaafaaaafaaaafaaaafaaaafaaaafaaaafaaaafaaaafaaaafaaaafaaaafaaaafaaaafaaaafaaaafaaaafaaaafaaaafaaaafaaaafaaaafaaaafaaaafaaaafaaaafaaaafaaaafaaaafaaaafaaaafaaaafaaaafaaaafaaaafaaaafaaaafaaaafaaaafaaaafaaaafaaaafaaaafaaaafaaaafaaaafaaaafaaaafaaaafaaaafaaaafaaaafaaaafaaaafaaaafaaaafaaaafaaaafaaaafaaaafaaaafaaaafaaaafaaaafaaaafaaaafaaaafaaaafaaaafaaaafaaaafaaaafaaaafaaaafaaaafaaaafaaaafaaaafaaaafaaaafaaaafaaaafaaaafaaaafaaaafaaaafaaaafaaaafaaaafaaaafaaaafaaaafaaaafaaaafaaaafaaaafaaaafaaaafaaaafaaaafaaaafaaaafaaaafaaaafaaaafaaaafaaaafaaaafaaaafaaaafaaaafaaaafaaaafaaaafaaaafaaaafaaaafaaaafaaaafaaaafaaaafaaaafaaaafaaaafaaaafaaaafaaaafaaaafaaaafaaaafaaaafaaaafaaaafaaaafaaaafaaaafaaaafaaaafaaaafaaaafaaaafaaaafaaaafaaaafaaaafaaaafaaaafaaaafaaaafaaaafaaaafaaaafaaaafaaaafaaaafaaaafaaaafaaaafaaaafaaaafaaaafaaaafaaaafaaaafaaaafaaaafaaaafaaaafaaaafaaaafaaaafaaaafaaaafaaaafaaaafaaaafaaaafaaaafaaaafaaaafaaaafaaaafaaaafaaaafaaaafaaaafaaaafaaaafaaaafaaaafaaaafaaaafaaaafaaaafaaaafaaaafaaaafaaaafaaaafaaaafaaaafaaaafaaaafaaaafaaaafaaaafaaaafaaaafaaaafaaaafaaaafaaaafaaaafaaaafaaaafaaaafaaaafaaaafaaaafaaaafaaaafaaaafaaaafaaaafaaaafaaaafaaaafaaaafaaaafaaaafaaaafaaaafaaaafaaaafaaaafaaaafaaaafaaaafaaaafaaaafaaaafaaaafaaaafaaaafaaaafaaaafaaaafaaaafaaaafaaaafaaaafaaaafaaaafaaaafaaaafaaaafaaaafaaaafaaaafaaaafaaaafaaaafaaaafaaaafaaaafaaaafaaaafaaaafaaaafaaaafaaaafaaaafaaaafaaaafaaaafaaaafaaaafaaaafaaaafaaaafaaaafaaaafaaaafaaaafaaaafaaaafaaaafaaaafaaaafaaaafaaaafaaaafaaaafaaaafaaaafaaaafaaaafaaaafaaaafaaaafaaaafaaaafaaaafaaaafaaaafaaaafaaaafaaaafaaaafaaaafaaaafaaaafaaaafaaaafaaaafaaaafaaaafaaaafaaaafaaaafaaaafaaaafaaaafaaaafaaaafaaaafaaaafaaaafaaaafaaaafaaaafaaaafaaaafaaaafaaaafaaaafaaaafaaaafaaaafaaaafaaaafaaaafaaaafaaaafaaaafaaaafaaaafaaaafaaaafaaaafaaaafaaaafaaaafaaaafaaaafaaaafaaaafaaaafaaaafaaaafaaaafaaaafaaaafaaaafaaaafaaaafaaaafaaaafaaaafaaaafaaaafaaaafaaaafaaaafaaaafaaaafaaaafaaaafaaaafaaaafaaaafaaaafaaaafaaaafaaaafaaaafaaaafaaaafaaaafaaaafaaaafaaaafaaaafaaaafaaaafaaaafaaaafaaaafaaaafaaaafaaaafaaaafaaaafaaaafaaaafaaaafaaaafaaaafaaaafaaaafaaaafaaaafaaaafaaaafaaaafaaaafaaaafaaaafaaaafaaaafaaaafaaaafaaaafaaaafaaaafaaaafaaaafaaaafaaaafaaaafaaaafaaaafaaaafaaaafaaaafaaaafaaaafaaaafaaaafaaaafaaaafaaaafaaaafaaaafaaaafaaaafaaaafaaaafaaaafaaaafaaaafaaaafaaaafaaaafaaaafaaaafaaaafaaaafaaaafaaaafaaaafaaaafaaaafaaaafaaaafaaaafaaaafaaaafaaaafaaaafaaaafaaaafaaaafaaaafaaaafaaaafaaaafaaaafaaaafaaaafaaaafaaaafaaaafaaaafaaaafaaaafaaaafaaaafaaaafaaaafaaaafaaaafaaaafaaaafaaaafaaaafaaaafaaaafaaaafaaaafaaaafaaaafaaaafaaaafaaaafaaaafaaaafaaaafaaaafaaaafaaaafaaaafaaaafaaaafaaaafaaaafaaaafaaaafaaaafaaaafaaaafaaaafaaaafaaaafaaaafaaaafaaaafaaaafaaaafaaaafaaaafaaaafaaaafaaaafaaaafaaaafaaaafaaaafaaaafaaaafaaaafaaaafaaaafaaaafaaaafaaaafaaaafaaaafaaaafaaaafaaaafaaaafaaaafaaaafaaaafaaaafaaaafaaaafaaaafaaaafaaaafaaaafaaaafaaaafaaaafaaaafaaaafaaaafaaaafaaaafaaaafaaaafaaaafaaaafaaaafaaaafaaaafaaaafaaaafaaaafaaaafaaaafaaaafaaaafaaaafaaaafaaaafaaaafaaaafaaaafaaaafaaaafaaaafaaaafaaaafaaaafaaaafaaaafaaaafaaaafaaaafaaaafaaaafaaaafaaaafaaaafaaaafaaaafaaaafaaaafaaaafaaaafaaaafaaaafaaaafaaaafaaaafaaaafaaaafaaaafaaaafaaaafaaaafaaaafaaaafaaaafaaaafaaaafaaaafaaaafaaaafaaaafaaaafaaaafaaaafaaaafaaaafaaaafaaaafaaaafaaaafaaaafaaaafaaaafaaaafaaaafaaaafaaaafaaaafaaaafaaaafaaaafaaaafaaaafaaaafaaaafaaaafaaaafaaaafaaaafaaaafaaaafaaaafaaaafaaaafaaaafaaaafaaaafaaaafaaaafaaaafaaaafaaaafaaaafaaaafaaaafaaaafaaaafaaaafaaaafaaaafaaaafaaaafaaaafaaaafaaaafaaaafaaaafaaaafaaaafaaaafaaaafaaaafaaaafaaaafaaaafaaaafaaaafaaaafaaaafaaaafaaaafaaaafaaaafaaaafaaaafaaaafaaaafaaaafaaaafaaaafaaaafaaaafaaaafaaaafaaaafaaaafaaaafaaaafaaaafaaaafaaaafaaaafaaaafaaaafaaaafaaaafaaaafaaaafaaaafaaaafaaaafaaaafaaaafaaaafaaaafaaaafaaaafaaaafaaaafaaaafaaaafaaaafaaaafaaaafaaaafaaaafaaaafaaaafaaaafaaaafaaaafaaaafaaaafaaaafaaaafaaaafaaaafaaaafaaaafaaaafaaaafaaaafaaaafaaaafaaaafaaaafaaaafaaaafaaaafaaaafaaaafaaaafaaaafaaaafaaaafaaaafaaaafaaaafaaaafaaaafaaaafaaaafaaaafaaaafaaaafaaaafaaaafaaaafaaaafaaaafaaaafaaaafaaaafaaaafaaaafaaaafaaaafaaaafaaaafaaaafaaaafaaaafaaaafaaaafaaaafaaaafaaaafaaaafaaaafaaaafaaaafaaaafaaaafaaaafaaaafaaaafaaaafaaaafaaaafaaaafaaaafaaaafaaaafaaaafaaaafaaaafaaaafaaaafaaaafaaaafaaaafaaaafaaaafaaaafaaaafaaaafaaaafaaaafaaaafaaaafaaaafaaaafaaaafaaaafaaaafaaaafaaaafaaaafaaaafaaaafaaaafaaaafaaaafaaaafaaaafaaaafaaaafaaaafaaaafaaaafaaaafaaaafaaaafaaaafaaaafaaaafaaaafaaaafaaaafaaaafaaaafaaaafaaaafaaaafaaaafaaaafaaaafaaaafaaaafaaaafaaaafaaaafaaaafaaaafaaaafaaaafaaaafaaaafaaaafaaaafaaaafaaaafaaaafaaaafaaaafaaaafaaaafaaaafaaaafaaaafaaaafaaaafaaaafaaaafaaaafaaaafaaaafaaaafaaaafaaaafaaaafaaaafaaaafaaaafaaaafaaaafaaaafaaaafaaaafaaaafaaaafaaaafaaaafaaaafaaaafaaaafaaaafaaaafaaaafaaaafaaaafaaaafaaaafaaaafaaaafaaaafaaaafaaaafaaaafaaaafaaaafaaaafaaaafaaaafaaaafaaaafaaaafaaaafaaaafaaaafaaaafaaaafaaaafaaaafaaaafaaaafaaaafaaaafaaaafaaaafaaaafaaaafaaaafaaaafaaaafaaaafaaaafaaaafaaaafaaaafaaaafaaaafaaaafaaaafaaaafaaaafaaaafaaaafaaaafaaaafaaaafaaaafaaaafaaaafaaaafaaaafaaaafaaaafaaaafaaaafaaaafaaaafaaaafaaaafaaaafaaaafaaaafaaaafaaaafaaaafaaaafaaaafaaaafaaaafaaaafaaaafaaaafaaaafaaaafaaaafaaaafaaaafaaaafaaaafaaaafaaaafaaaafaaaafaaaafaaaafaaaafaaaafaaaafaaaafaaaafaaaafaaaafaaaafaaaafaaaafaaaafaaaafaaaafaaaafaaaafaaaafaaaafaaaafaaaafaaaafaaaafaaaafaaaafaaaafaaaafaaaafaaaafaaaafaaaafaaaafaaaafaaaafaaaafaaaafaaaafaaaafaaaafaaaafaaaafaaaafaaaafaaaafaaaafaaaafaaaafaaaafaaaafaaaafaaaafaaaafaaaafaaaafaaaafaaaafaaaafaaaafaaaafaaaafaaaafaaaafaaaafaaaafaaaafaaaafaaaafaaaafaaaafaaaafaaaafaaaafaaaafaaaafaaaafaaaafaaaafaaaafaaaafaaaafaaaafaaaafaaaafaaaafaaaafaaaafaaaafaaaafaaaafaaaafaaaafaaaafaaaafaaaafaaaafaaaafaaaafaaaafaaaafaaaafaaaafaaaafaaaafaaaafaaaafaaaafaaaafaaaafaaaafaaaafaaaafaaaafaaaafaaaafaaaafaaaafaaaafaaaafaaaafaaaafaaaafaaaafaaaafaaaafaaaafaaaafaaaafaaaafaaaafaaaafaaaafaaaafaaaafaaaafaaaafaaaafaaaafaaaafaaaafaaaafaaaafaaaafaaaafaaaafaaaafaaaafaaaafaaaafaaaafaaaafaaaafaaaafaaaafaaaafaaaafaaaafaaaafaaaafaaaafaaaafaaaafaaaafaaaafaaaafaaaafaaaafaaaafaaaafaaaafaaaafaaaafaaaafaaaafaaaafaaaafaaaafaaaafaaaafaaaafaaaafaaaafaaaafaaaafaaaafaaaafaaaafaaaafaaaafaaaafaaaafaaaafaaaafaaaafaaaafaaaafaaaafaaaafaaaafaaaafaaaafaaaafaaaafaaaafaaaafaaaafaaaafaaaafaaaafaaaafaaaafaaaafaaaafaaaafaaaafaaaafaaaafaaaafaaaafaaaafaaaafaaaafaaaafaaaafaaaafaaaafaaaafaaaafaaaafaaaafaaaafaaaafaaaafaaaafaaaafaaaafaaaafaaaafaaaafaaaafaaaafaaaafaaaafaaaafaaaafaaaafaaaafaaaafaaaafaaaafaaaafaaaafaaaafaaaafaaaafaaaafaaaafaaaafaaaafaaaafaaaafaaaafaaaafaaaafaaaafaaaafaaaafaaaafaaaafaaaafaaaafaaaafaaaafaaaafaaaafaaaafaaaafaaaafaaaafaaaafaaaafaaaafaaaafaaaafaaaafaaaafaaaafaaaafaaaafaaaafaaaafaaaafaaaafaaaafaaaafaaaafaaaafaaaafaaaafaaaafaaaafaaaafaaaafaaaafaaaafaaaafaaaafaaaafaaaafaaaafaaaafaaaafaaaafaaaafaaaafaaaafaaaafaaaafaaaafaaaafaaaafaaaafaaaafaaaafaaaafaaaafaaaafaaaafaaaafaaaafaaaafaaaafaaaafaaaafaaaafaaaafaaaafaaaafaaaafaaaafaaaafaaaafaaaafaaaafaaaafaaaafaaaafaaaafaaaafaaaafaaaafaaaafaaaafaaaafaaaafaaaafaaaafaaaafaaaafaaaafaaaafaaaafaaaafaaaafaaaafaaaafaaaafaaaafaaaafaaaafaaaafaaaafaaaafaaaafaaaafaaaafaaaafaaaafaaaafaaaafaaaafaaaafaaaafaaaafaaaafaaaafaaaafaaaafaaaafaaaafaaaafaaaafaaaafaaaafaaaafaaaafaaaafaaaafaaaafaaaafaaaafaaaafaaaafaaaafaaaafaaaafaaaafaaaafaaaafaaaafaaaafaaaafaaaafaaaafaaaafaaaafaaaafaaaafaaaafaaaafaaaafaaaafaaaafaaaafaaaafaaaafaaaafaaaafaaaafaaaafaaaafaaaafaaaafaaaafaaaafaaaafaaaafaaaafaaaafaaaafaaaafaaaafaaaafaaaafaaaafaaaafaaaafaaaafaaaafaaaafaaaafaaaafaaaafaaaafaaaafaaaafaaaafaaaafaaaafaaaafaaaafaaaafaaaafaaaafaaaafaaaafaaaafaaaafaaaafaaaafaaaafaaaafaaaafaaaafaaaafaaaafaaaafaaaafaaaafaaaafaaaafaaaafaaaafaaaafaaaafaaaafaaaafaaaafaaaafaaaafaaaafaaaafaaaafaaaafaaaafaaaafaaaafaaaafaaaafaaaafaaaafaaaafaaaafaaaafaaaafaaaafaaaafaaaafaaaafaaaafaaaafaaaafaaaafaaaafaaaafaaaafaaaafaaaafaaaafaaaafaaaafaaaafaaaafaaaafaaaafaaaafaaaafaaaafaaaafaaaafaaaafaaaafaaaafaaaafaaaafaaaafaaaafaaaafaaaafaaaafaaaafaaaafaaaafaaaafaaaafaaaafaaaafaaaafaaaafaaaafaaaafaaaafaaaafaaaafaaaafaaaafaaaafaaaafaaaafaaaafaaaafaaaafaaaafaaaafaaaafaaaafaaaafaaaafaaaafaaaafaaaafaaaafaaaafaaaafaaaafaaaafaaaafaaaafaaaafaaaafaaaafaaaafaaaafaaaafaaaafaaaafaaaafaaaafaaaafaaaafaaaafaaaafaaaafaaaafaaaafaaaafaaaafaaaafaaaafaaaafaaaafaaaafaaaafaaaafaaaafaaaafaaaafaaaafaaaafaaaafaaaafaaaafaaaafaaaafaaaafaaaafaaaafaaaafaaaafaaaafaaaafaaaafaaaafaaaafaaaafaaaafaaaafaaaafaaaafaaaafaaaafaaaafaaaafaaaafaaaafaaaafaaaafaaaafaaaafaaaafaaaafaaaafaaaafaaaafaaaafaaaafaaaafaaaafaaaafaaaafaaaafaaaafaaaafaaaafaaaafaaaafaaaafaaaafaaaafaaaafaaaafaaaafaaaafaaaafaaaafaaaafaaaafaaaafaaaafaaaafaaaafaaaafaaaafaaaafaaaafaaaafaaaafaaaafaaaafaaaafaaaafaaaafaaaafaaaafaaaafaaaafaaaafaaaafaaaafaaaafaaaafaaaafaaaafaaaafaaaafaaaafaaaafaaaafaaaafaaaafaaaafaaaafaaaafaaaafaaaafaaaafaaaafaaaafaaaafaaaafaaaafaaaafaaaafaaaafaaaafaaaafaaaafaaaafaaaafaaaafaaaafaaaafaaaafaaaafaaaafaaaafaaaafaaaafaaaafaaaafaaaafaaaafaaaafaaaafaaaafaaaafaaaafaaaafaaaafaaaafaaaafaaaafaaaafaaaafaaaafaaaafaaaafaaaafaaaafaaaafaaaafaaaafaaaafaaaafaaaafaaaafaaaafaaaafaaaafaaaafaaaafaaaafaaaafaaaafaaaafaaaafaaaafaaaafaaaafaaaafaaaafaaaafaaaafaaaafaaaafaaaafaaaafaaaafaaaafaaaafaaaafaaaafaaaafaaaafaaaafaaaafaaaafaaaafaaaafaaaafaaaafaaaafaaaafaaaafaaaafaaaafaaaafaaaafaaaafaaaafaaaafaaaafaaaafaaaafaaaafaaaafaaaafaaaafaaaafaaaafaaaafaaaafaaaafaaaafaaaafaaaafaaaafaaaafaaaafaaaafaaaafaaaafaaaafaaaafaaaafaaaafaaaafaaaafaaaafaaaafaaaafaaaafaaaafaaaafaaaafaaaafaaaafaaaafaaaafaaaafaaaafaaaafaaaafaaaafaaaafaaaafaaaafaaaafaaaafaaaafaaaafaaaafaaaafaaaafaaaafaaaafaaaafaaaafaaaafaaaafaaaafaaaafaaaafaaaafaaaafaaaafaaaafaaaafaaaafaaaafaaaafaaaafaaaafaaaafaaaafaaaafaaaafaaaafaaaafaaaafaaaafaaaafaaaafaaaafaaaafaaaafaaaafaaaafaaaafaaaafaaaafaaaafaaaafaaaafaaaafaaaafaaaafaaaafaaaafaaaafaaaafaaaafaaaafaaaafaaaafaaaafaaaafaaaafaaaafaaaafaaaafaaaafaaaafaaaafaaaafaaaafaaaafaaaafaaaafaaaafaaaafaaaafaaaafaaaafaaaafaaaafaaaafaaaafaaaafaaaafaaaafaaaafaaaafaaaafaaaafaaaafaaaafaaaafaaaafaaaafaaaafaaaafaaaafaaaafaaaafaaaafaaaafaaaafaaaafaaaafaaaafaaaafaaaafaaaafaaaafaaaafaaaafaaaafaaaafaaaafaaaafaaaafaaaafaaaafaaaafaaaafaaaafaaaafaaaafaaaafaaaafaaaafaaaafaaaafaaaafaaaafaaaafaaaafaaaafaaaafaaaafaaaafaaaafaaaafaaaafaaaafaaaafaaaafaaaafaaaafaaaafaaaafaaaafaaaafaaaafaaaafaaaafaaaafaaaafaaaafaaaafaaaafaaaafaaaafaaaafaaaafaaaafaaaafaaaafaaaafaaaafaaaafaaaafaaaafaaaafaaaafaaaafaaaafaaaafaaaafaaaafaaaafaaaafaaaafaaaafaaaafaaaafaaaafaaaafaaaafaaaafaaaafaaaafaaaafaaaafaaaafaaaafaaaafaaaafaaaafaaaafaaaafaaaafaaaafaaaafaaaafaaaafaaaafaaaafaaaafaaaafaaaafaaaafaaaafaaaafaaaafaaaafaaaafaaaafaaaafaaaafaaaafaaaafaaaafaaaafaaaafaaaafaaaafaaaafaaaafaaaafaaaafaaaafaaaafaaaafaaaafaaaafaaaafaaaafaaaafaaaafaaaafaaaafaaaafaaaafaaaafaaaafaaaafaaaafaaaafaaaafaaaafaaaafaaaafaaaafaaaafaaaafaaaafaaaafaaaafaaaafaaaafaaaafaaaafaaaafaaaafaaaafaaaafaaaafaaaafaaaafaaaafaaaafaaaafaaaafaaaafaaaafaaaafaaaafaaaafaaaafaaaafaaaafaaaafaaaafaaaafaaaafaaaafaaaafaaaafaaaafaaaafaaaafaaaafaaaafaaaafaaaafaaaafaaaafaaaafaaaafaaaafaaaafaaaafaaaafaaaafaaaafaaaafaaaafaaaafaaaafaaaafaaaafaaaafaaaafaaaafaaaafaaaafaaaafaaaafaaaafaaaafaaaafaaaafaaaafaaaafaaaafaaaafaaaafaaaafaaaafaaaafaaaafaaaafaaaafaaaafaaaafaaaafaaaafaaaafaaaafaaaafaaaafaaaafaaaafaaaafaaaafaaaafaaaafaaaafaaaafaaaafaaaafaaaafaaaafaaaafaaaafaaaafaaaafaaaafaaaafaaaafaaaafaaaafaaaafaaaafaaaafaaaafaaaafaaaafaaaafaaaafaaaafaaaafaaaafaaaafaaaafaaaafaaaafaaaafaaaafaaaafaaaafaaaafaaaafaaaafaaaafaaaafaaaafaaaafaaaafaaaafaaaafaaaafaaaafaaaafaaaafaaaafaaaafaaaafaaaafaaaafaaaafaaaafaaaafaaaafaaaafaaaafaaaafaaaafaaaafaaaafaaaafaaaafaaaafaaaafaaaafaaaafaaaafaaaafaaaafaaaafaaaafaaaafaaaafaaaafaaaafaaaafaaaafaaaafaaaafaaaafaaaafaaaafaaaafaaaafaaaafaaaafaaaafaaaafaaaafaaaafaaaafaaaafaaaafaaaafaaaafaaaafaaaafaaaafaaaafaaaafaaaafaaaafaaaafaaaafaaaafaaaafaaaafaaaafaaaafaaaafaaaafaaaafaaaafaaaafaaaafaaaafaaaafaaaafaaaafaaaafaaaafaaaafaaaafaaaafaaaafaaaafaaaafaaaafaaaafaaaafaaaafaaaafaaaafaaaafaaaafaaaafaaaafaaaafaaaafaaaafaaaafaaaafaaaafaaaafaaaafaaaafaaaafaaaafaaaafaaaafaaaafaaaafaaaafaaaafaaaafaaaafaaaafaaaafaaaafaaaafaaaafaaaafaaaafaaaafaaaafaaaafaaaafaaaafaaaafaaaafaaaafaaaafaaaafaaaafaaaafaaaafaaaafaaaafaaaafaaaafaaaafaaaafaaaafaaaafaaaafaaaafaaaafaaaafaaaafaaaafaaaafaaaafaaaafaaaafaaaafaaaafaaaafaaaafaaaafaaaafaaaafaaaafaaaafaaaafaaaafaaaafaaaafaaaafaaaafaaaafaaaafaaaafaaaafaaaafaaaafaaaafaaaafaaaafaaaafaaaafaaaafaaaafaaaafaaaafaaaafaaaafaaaafaaaafaaaafaaaafaaaafaaaafaaaafaaaafaaaafaaaafaaaafaaaafaaaafaaaafaaaafaaaafaaaafaaaafaaaafaaaafaaaafaaaafaaaafaaaafaaaafaaaafaaaafaaaafaaaafaaaafaaaafaaaafaaaafaaaafaaaafaaaafaaaafaaaafaaaafaaaafaaaafaaaafaaaafaaaafaaaafaaaafaaaafaaaafaaaafaaaafaaaafaaaafaaaafaaaafaaaafaaaafaaaafaaaafaaaafaaaafaaaafaaaafaaaafaaaafaaaafaaaafaaaafaaaafaaaafaaaafaaaafaaaafaaaafaaaafaaaafaaaafaaaafaaaafaaaafaaaafaaaafaaaafaaaafaaaafaaaafaaaafaaaafaaaafaaaafaaaafaaaafaaaafaaaafaaaafaaaafaaaafaaaafaaaafaaaafaaaafaaaafaaaafaaaafaaaafaaaafaaaafaaaafaaaafaaaafaaaafaaaafaaaafaaaafaaaafaaaafaaaafaaaafaaaafaaaafaaaafaaaafaaaafaaaafaaaafaaaafaaaafaaaafaaaafaaaafaaaafaaaafaaaafaaaafaaaafaaaafaaaafaaaafaaaafaaaafaaaafaaaafaaaafaaaafaaaafaaaafaaaafaaaafaaaafaaaafaaaafaaaafaaaafaaaafaaaafaaaafaaaafaaaafaaaafaaaafaaaafaaaafaaaafaaaafaaaafaaaafaaaafaaaafaaaafaaaafaaaafaaaafaaaafaaaafaaaafaaaafaaaafaaaafaaaafaaaafaaaafaaaafaaaafaaaafaaaafaaaafaaaafaaaafaaaafaaaafaaaafaaaafaaaafaaaafaaaafaaaafaaaafaaaafaaaafaaaafaaaafaaaafaaaafaaaafaaaafaaaafaaaafaaaafaaaafaaaafaaaafaaaafaaaafaaaafaaaafaaaafaaaafaaaafaaaafaaaafaaaafaaaafaaaafaaaafaaaafaaaafaaaafaaaafaaaafaaaafaaaafaaaafaaaafaaaafaaaafaaaafaaaafaaaafaaaafaaaafaaaafaaaafaaaafaaaafaaaafaaaafaaaafaaaafaaaafaaaafaaaafaaaafaaaafaaaafaaaafaaaafaaaafaaaafaaaafaaaafaaaafaaaafaaaafaaaafaaaafaaaafaaaafaaaafaaaafaaaafaaaafaaaafaaaafaaaafaaaafaaaafaaaafaaaafaaaafaaaafaaaafaaaafaaaafaaaafaaaafaaaafaaaafaaaafaaaafaaaafaaaafaaaafaaaafaaaafaaaafaaaafaaaafaaaafaaaafaaaafaaaafaaaafaaaafaaaafaaaafaaaafaaaafaaaafaaaafaaaafaaaafaaaafaaaafaaaafaaaafaaaafaaaafaaaafaaaafaaaafaaaafaaaafaaaafaaaafaaaafaaaafaaaafaaaafaaaafaaaafaaaafaaaafaaaafaaaafaaaafaaaafaaaafaaaafaaaafaaaafaaaafaaaafaaaafaaaafaaaafaaaafaaaafaaaafaaaafaaaafaaaafaaaafaaaafaaaafaaaafaaaafaaaafaaaafaaaafaaaafaaaafaaaafaaaafaaaafaaaafaaaafaaaafaaaafaaaafaaaafaaaafaaaafaaaafaaaafaaaafaaaafaaaafaaaafaaaafaaaafaaaafaaaafaaaafaaaafaaaafaaaafaaaafaaaafaaaafaaaafaaaafaaaafaaaafaaaafaaaafaaaafaaaafaaaafaaaafaaaafaaaafaaaafaaaafaaaafaaaafaaaafaaaafaaaafaaaafaaaafaaaafaaaafaaaafaaaafaaaafaaaafaaaafaaaafaaaafaaaafaaaafaaaafaaaafaaaafaaaafaaaafaaaafaaaafaaaafaaaafaaaafaaaafaaaafaaaafaaaafaaaafaaaafaaaafaaaafaaaafaaaafaaaafaaaafaaaafaaaafaaaafaaaafaaaafaaaafaaaafaaaafaaaafaaaafaaaafaaaafaaaafaaaafaaaafaaaafaaaafaaaafaaaafaaaafaaaafaaaafaaaafaaaafaaaafaaaafaaaafaaaafaaaafaaaafaaaafaaaafaaaafaaaafaaaafaaaafaaaafaaaafaaaafaaaafaaaafaaaafaaaafaaaafaaaafaaaafaaaafaaaafaaaafaaaafaaaafaaaafaaaafaaaafaaaafaaaafaaaafaaaafaaaafaaaafaaaafaaaafaaaafaaaafaaaafaaaafaaaafaaaafaaaafaaaafaaaafaaaafaaaafaaaafaaaafaaaafaaaafaaaafaaaafaaaafaaaafaaaafaaaafaaaafaaaafaaaafaaaafaaaafaaaafaaaafaaaafaaaafaaaafaaaafaaaafaaaafaaaafaaaafaaaafaaaafaaaafaaaafaaaafaaaafaaaafaaaafaaaafaaaafaaaafaaaafaaaafaaaafaaaafaaaafaaaafaaaafaaaafaaaafaaaafaaaafaaaafaaaafaaaafaaaafaaaafaaaafaaaafaaaafaaaafaaaafaaaafaaaafaaaafaaaafaaaafaaaafaaaafaaaafaaaafaaaafaaaafaaaafaaaafaaaafaaaafaaaafaaaafaaaafaaaafaaaafaaaafaaaafaaaafaaaafaaaafaaaafaaaafaaaafaaaafaaaafaaaafaaaafaaaafaaaafaaaafaaaafaaaafaaaafaaaafaaaafaaaafaaaafaaaafaaaafaaaafaaaafaaaafaaaafaaaafaaaafaaaafaaaafaaaafaaaafaaaafaaaafaaaafaaaafaaaafaaaafaaaafaaaafaaaafaaaafaaaafaaaafaaaafaaaafaaaafaaaafaaaafaaaafaaaafaaaafaaaafaaaafaaaafaaaafaaaafaaaafaaaafaaaafaaaafaaaafaaaafaaaafaaaafaaaafaaaafaaaafaaaafaaaafaaaafaaaafaaaafaaaafaaaafaaaafaaaafaaaafaaaafaaaafaaaafaaaafaaaafaaaafaaaafaaaafaaaafaaaafaaaafaaaafaaaafaaaafaaaafaaaafaaaafaaaafaaaafaaaafaaaafaaaafaaaafaaaafaaaafaaaafaaaafaaaafaaaafaaaafaaaafaaaafaaaafaaaafaaaafaaaafaaaafaaaafaaaafaaaafaaaafaaaafaaaafaaaafaaaafaaaafaaaafaaaafaaaafaaaafaaaafaaaafaaaafaaaafaaaafaaaafaaaafaaaafaaaafaaaafaaaafaaaafaaaafaaaafaaaafaaaafaaaafaaaafaaaafaaaafaaaafaaaafaaaafaaaafaaaafaaaafaaaafaaaafaaaafaaaafaaaafaaaafaaaafaaaafaaaafaaaafaaaafaaaafaaaafaaaafaaaafaaaafaaaafaaaafaaaafaaaafaaaafaaaafaaaafaaaafaaaafaaaafaaaafaaaafaaaafaaaafaaaafaaaafaaaafaaaafaaaafaaaafaaaafaaaafaaaafaaaafaaaafaaaafaaaafaaaafaaaafaaaafaaaafaaaafaaaafaaaafaaaafaaaafaaaafaaaafaaaafaaaafaaaafaaaafaaaafaaaafaaaafaaaafaaaafaaaafaaaafaaaafaaaafaaaafaaaafaaaafaaaafaaaafaaaafaaaafaaaafaaaafaaaafaaaafaaaafaaaafaaaafaaaafaaaafaaaafaaaafaaaafaaaafaaaafaaaafaaaafaaaafaaaafaaaafaaaafaaaafaaaafaaaafaaaafaaaafaaaafaaaafaaaafaaaafaaaafaaaafaaaafaaaafaaaafaaaafaaaafaaaafaaaafaaaafaaaafaaaafaaaafaaaafaaaafaaaafaaaafaaaafaaaafaaaafaaaafaaaafaaaafaaaafaaaafaaaafaaaafaaaafaaaafaaaafaaaafaaaafaaaafaaaafaaaafaaaafaaaafaaaafaaaafaaaafaaaafaaaafaaaafaaaafaaaafaaaafaaaafaaaafaaaafaaaafaaaafaaaafaaaafaaaafaaaafaaaafaaaafaaaafaaaafaaaafaaaafaaaafaaaafaaaafaaaafaaaafaaaafaaaafaaaafaaaafaaaafaaaafaaaafaaaafaaaafaaaafaaaafaaaafaaaafaaaafaaaafaaaafaaaafaaaafaaaafaaaafaaaafaaaafaaaafaaaafaaaafaaaafaaaafaaaafaaaafaaaafaaaafaaaafaaaafaaaafaaaafaaaafaaaafaaaafaaaafaaaafaaaafaaaafaaaafaaaafaaaafaaaafaaaafaaaafaaaafaaaafaaaafaaaafaaaafaaaafaaaafaaaafaaaafaaaafaaaafaaaafaaaafaaaafaaaafaaaafaaaafaaaafaaaafaaaafaaaafaaaafaaaafaaaafaaaafaaaafaaaafaaaafaaaafaaaafaaaafaaaafaaaafaaaafaaaafaaaafaaaafaaaafaaaafaaaafaaaafaaaafaaaafaaaafaaaafaaaafaaaafaaaafaaaafaaaafaaaafaaaafaaaafaaaafaaaafaaaafaaaafaaaafaaaafaaaafaaaafaaaafaaaafaaaafaaaafaaaafaaaafaaaafaaaafaaaafaaaafaaaafaaaafaaaafaaaafaaaafaaaafaaaafaaaafaaaafaaaafaaaafaaaafaaaafaaaafaaaafaaaafaaaafaaaafaaaafaaaafaaaafaaaafaaaafaaaafaaaafaaaafaaaafaaaafaaaafaaaafaaaafaaaafaaaafaaaafaaaafaaaafaaaafaaaafaaaafaaaafaaaafaaaafaaaafaaaafaaaafaaaafaaaafaaaafaaaafaaaafaaaafaaaafaaaafaaaafaaaafaaaafaaaafaaaafaaaafaaaafaaaafaaaafaaaafaaaafaaaafaaaafaaaafaaaafaaaafaaaafaaaafaaaafaaaafaaaafaaaafaaaafaaaafaaaafaaaafaaaafaaaafaaaafaaaafaaaafaaaafaaaafaaaafaaaafaaaafaaaafaaaafaaaafaaaafaaaafaaaafaaaafaaaafaaaafaaaafaaaafaaaafaaaafaaaafaaaafaaaafaaaafaaaafaaaafaaaafaaaafaaaafaaaafaaaafaaaafaaaafaaaafaaaafaaaafaaaafaaaafaaaafaaaafaaaafaaaafaaaafaaaafaaaafaaaafaaaafaaaafaaaafaaaafaaaafaaaafaaaafaaaafaaaafaaaafaaaafaaaafaaaafaaaafaaaafaaaafaaaafaaaafaaaafaaaafaaaafaaaafaaaafaaaafaaaafaaaafaaaafaaaafaaaafaaaafaaaafaaaafaaaafaaaafaaaafaaaafaaaafaaaafaaaafaaaafaaaafaaaafaaaafaaaafaaaafaaaafaaaafaaaafaaaafaaaafaaaafaaaafaaaafaaaafaaaafaaaafaaaafaaaafaaaafaaaafaaaafaaaafaaaafaaaafaaaafaaaafaaaafaaaafaaaafaaaafaaaafaaaafaaaafaaaafaaaafaaaafaaaafaaaafaaaafaaaafaaaafaaaafaaaafaaaafaaaafaaaafaaaafaaaafaaaafaaaafaaaafaaaafaaaafaaaafaaaafaaaafaaaafaaaafaaaafaaaafaaaafaaaafaaaafaaaafaaaafaaaafaaaafaaaafaaaafaaaafaaaafaaaafaaaafaaaafaaaafaaaafaaaafaaaafaaaafaaaafaaaafaaaafaaaafaaaafaaaafaaaafaaaafaaaafaaaafaaaafaaaafaaaafaaaafaaaafaaaafaaaafaaaafaaaafaaaafaaaafaaaafaaaafaaaafaaaafaaaafaaaafaaaafaaaafaaaafaaaafaaaafaaaafaaaafaaaafaaaafaaaafaaaafaaaafaaaafaaaafaaaafaaaafaaaafaaaafaaaafaaaafaaaafaaaafaaaafaaaafaaaafaaaafaaaafaaaafaaaafaaaafaaaafaaaafaaaafaaaafaaaafaaaafaaaafaaaafaaaafaaaafaaaafaaaafaaaafaaaafaaaafaaaafaaaafaaaafaaaafaaaafaaaafaaaafaaaafaaaafaaaafaaaafaaaafaaaafaaaafaaaafaaaafaaaafaaaafaaaafaaaafaaaafaaaafaaaafaaaafaaaafaaaafaaaafaaaafaaaafaaaafaaaafaaaafaaaafaaaafaaaafaaaafaaaafaaaafaaaafaaaafaaaafaaaafaaaafaaaafaaaafaaaafaaaafaaaafaaaafaaaafaaaafaaaafaaaafaaaafaaaafaaaafaaaafaaaafaaaafaaaafaaaafaaaafaaaafaaaafaaaafaaaafaaaafaaaafaaaafaaaafaaaafaaaafaaaafaaaafaaaafaaaafaaaafaaaafaaaafaaaafaaaafaaaafaaaafaaaafaaaafaaaafaaaafaaaafaaaafaaaafaaaafaaaafaaaafaaaafaaaafaaaafaaaafaaaafaaaafaaaafaaaafaaaafaaaafaaaafaaaafaaaafaaaafaaaafaaaafaaaafaaaafaaaafaaaafaaaafaaaafaaaafaaaafaaaafaaaafaaaafaaaafaaaafaaaafaaaafaaaafaaaafaaaafaaaafaaaafaaaafaaaafaaaafaaaafaaaafaaaafaaaafaaaafaaaafaaaafaaaafaaaafaaaafaaaafaaaafaaaafaaaafaaaafaaaafaaaafaaaafaaaafaaaafaaaafaaaafaaaafaaaafaaaafaaaafaaaafaaaafaaaafaaaafaaaafaaaafaaaafaaaafaaaafaaaafaaaafaaaafaaaafaaaafaaaafaaaafaaaafaaaafaaaafaaaafaaaafaaaafaaaafaaaafaaaafaaaafaaaafaaaafaaaafaaaafaaaafaaaafaaaafaaaafaaaafaaaafaaaafaaaafaaaafaaaafaaaafaaaafaaaafaaaafaaaafaaaafaaaafaaaafaaaafaaaafaaaafaaaafaaaafaaaafaaaafaaaafaaaafaaaafaaaafaaaafaaaafaaaafaaaafaaaafaaaafaaaafaaaafaaaafaaaafaaaafaaaafaaaafaaaafaaaafaaaafaaaafaaaafaaaafaaaafaaaafaaaafaaaafaaaafaaaafaaaafaaaafaaaafaaaafaaaafaaaafaaaafaaaafaaaafaaaafaaaafaaaafaaaafaaaafaaaafaaaafaaaafaaaafaaaafaaaafaaaafaaaafaaaafaaaafaaaafaaaafaaaafaaaafaaaafaaaafaaaafaaaafaaaafaaaafaaaafaaaafaaaafaaaafaaaafaaaafaaaafaaaafaaaafaaaafaaaafaaaafaaaafaaaafaaaafaaaafaaaafaaaafaaaafaaaafaaaafaaaafaaaafaaaafaaaafaaaafaaaafaaaafaaaafaaaafaaaafaaaafaaaafaaaafaaaafaaaafaaaafaaaafaaaafaaaafaaaafaaaafaaaafaaaafaaaafaaaafaaaafaaaafaaaafaaaafaaaafaaaafaaaafaaaafaaaafaaaafaaaafaaaafaaaafaaaafaaaafaaaafaaaafaaaafaaaafaaaafaaaafaaaafaaaafaaaafaaaafaaaafaaaafaaaafaaaafaaaafaaaafaaaafaaaafaaaafaaaafaaaafaaaafaaaafaaaafaaaafaaaafaaaafaaaafaaaafaaaafaaaafaaaafaaaafaaaafaaaafaaaafaaaafaaaafaaaafaaaafaaaafaaaafaaaafaaaafaaaafaaaafaaaafaaaafaaaafaaaafaaaafaaaafaaaafaaaafaaaafaaaafaaaafaaaafaaaafaaaafaaaafaaaafaaaafaaaafaaaafaaaafaaaafaaaafaaaafaaaafaaaafaaaafaaaafaaaafaaaafaaaafaaaafaaaafaaaafaaaafaaaafaaaafaaaafaaaafaaaafaaaafaaaafaaaafaaaafaaaafaaaafaaaafaaaafaaaafaaaafaaaafaaaafaaaafaaaafaaaafaaaafaaaafaaaafaaaafaaaafaaaafaaaafaaaafaaaafaaaafaaaafaaaafaaaafaaaafaaaafaaaafaaaafaaaafaaaafaaaafaaaafaaaafaaaafaaaafaaaafaaaafaaaafaaaafaaaafaaaafaaaafaaaafaaaafaaaafaaaafaaaafaaaafaaaafaaaafaaaafaaaafaaaafaaaafaaaafaaaafaaaafaaaafaaaafaaaafaaaafaaaafaaaafaaaafaaaafaaaafaaaafaaaafaaaafaaaafaaaafaaaafaaaafaaaafaaaafaaaafaaaafaaaafaaaafaaaafaaaafaaaafaaaafaaaafaaaafaaaafaaaafaaaafaaaafaaaafaaaafaaaafaaaafaaaafaaaafaaaafaaaafaaaafaaaafaaaafaaaafaaaafaaaafaaaafaaaafaaaafaaaafaaaafaaaafaaaafaaaafaaaafaaaafaaaafaaaafaaaafaaaafaaaafaaaafaaaafaaaafaaaafaaaafaaaafaaaafaaaafaaaafaaaafaaaafaaaafaaaafaaaafaaaafaaaafaaaafaaaafaaaafaaaafaaaafaaaafaaaafaaaafaaaafaaaafaaaafaaaafaaaafaaaafaaaafaaaafaaaafaaaafaaaafaaaafaaaafaaaafaaaafaaaafaaaafaaaafaaaafaaaafaaaafaaaafaaaafaaaafaaaafaaaafaaaafaaaafaaaafaaaafaaaafaaaafaaaafaaaafaaaafaaaafaaaafaaaafaaaafaaaafaaaafaaaafaaaafaaaafaaaafaaaafaaaafaaaafaaaafaaaafaaaafaaaafaaaafaaaafaaaafaaaafaaaafaaaafaaaafaaaafaaaafaaaafaaaafaaaafaaaafaaaafaaaafaaaafaaaafaaaafaaaafaaaafaaaafaaaafaaaafaaaafaaaafaaaafaaaafaaaafaaaafaaaafaaaafaaaafaaaafaaaafaaaafaaaafaaaafaaaafaaaafaaaafaaaafaaaafaaaafaaaafaaaafaaaafaaaafaaaafaaaafaaaafaaaafaaaafaaaafaaaafaaaafaaaafaaaafaaaafaaaafaaaafaaaafaaaafaaaafaaaafaaaafaaaafaaaafaaaafaaaafaaaafaaaafaaaafaaaafaaaafaaaafaaaafaaaafaaaafaaaafaaaafaaaafaaaafaaaafaaaafaaaafaaaafaaaafaaaafaaaafaaaafaaaafaaaafaaaafaaaafaaaafaaaafaaaafaaaafaaaafaaaafaaaafaaaafaaaafaaaafaaaafaaaafaaaafaaaafaaaafaaaafaaaafaaaafaaaafaaaafaaaafaaaafaaaafaaaafaaaafaaaafaaaafaaaafaaaafaaaafaaaafaaaafaaaafaaaafaaaafaaaafaaaafaaaafaaaafaaaafaaaafaaaafaaaafaaaafaaaafaaaafaaaafaaaafaaaafaaaafaaaafaaaafaaaafaaaafaaaafaaaafaaaafaaaafaaaafaaaafaaaafaaaafaaaafaaaafaaaafaaaafaaaafaaaafaaaafaaaafaaaafaaaafaaaafaaaafaaaafaaaafaaaafaaaafaaaafaaaafaaaafaaaafaaaafaaaafaaaafaaaafaaaafaaaafaaaafaaaafaaaafaaaafaaaafaaaafaaaafaaaafaaaafaaaafaaaafaaaafaaaafaaaafaaaafaaaafaaaafaaaafaaaafaaaafaaaafaaaafaaaafaaaafaaaafaaaafaaaafaaaafaaaafaaaafaaaafaaaafaaaafaaaafaaaafaaaafaaaafaaaafaaaafaaaafaaaafaaaafaaaafaaaafaaaafaaaafaaaafaaaafaaaafaaaafaaaafaaaafaaaafaaaafaaaafaaaafaaaafaaaafaaaafaaaafaaaafaaaafaaaafaaaafaaaafaaaafaaaafaaaafaaaafaaaafaaaafaaaafaaaafaaaafaaaafaaaafaaaafaaaafaaaafaaaafaaaafaaaafaaaafaaaafaaaafaaaafaaaafaaaafaaaafaaaafaaaafaaaafaaaafaaaafaaaafaaaafaaaafaaaafaaaafaaaafaaaafaaaafaaaafaaaafaaaafaaaafaaaafaaaafaaaafaaaafaaaafaaaafaaaafaaaafaaaafaaaafaaaafaaaafaaaafaaaafaaaafaaaafaaaafaaaafaaaafaaaafaaaafaaaafaaaafaaaafaaaafaaaafaaaafaaaafaaaafaaaafaaaafaaaafaaaafaaaafaaaafaaaafaaaafaaaafaaaafaaaafaaaafaaaafaaaafaaaafaaaafaaaafaaaafaaaafaaaafaaaafaaaafaaaafaaaafaaaafaaaafaaaafaaaafaaaafaaaafaaaafaaaafaaaafaaaafaaaafaaaafaaaafaaaafaaaafaaaafaaaafaaaafaaaafaaaafaaaafaaaafaaaafaaaafaaaafaaaafaaaafaaaafaaaafaaaafaaaafaaaafaaaafaaaafaaaafaaaafaaaafaaaafaaaafaaaafaaaafaaaafaaaafaaaafaaaafaaaafaaaafaaaafaaaafaaaafaaaafaaaafaaaafaaaafaaaafaaaafaaaafaaaafaaaafaaaafaaaafaaaafaaaafaaaafaaaafaaaafaaaafaaaafaaaafaaaafaaaafaaaafaaaafaaaafaaaafaaaafaaaafaaaafaaaafaaaafaaaafaaaafaaaafaaaafaaaafaaaafaaaafaaaafaaaafaaaafaaaafaaaafaaaafaaaafaaaafaaaafaaaafaaaafaaaafaaaafaaaafaaaafaaaafaaaafaaaafaaaafaaaafaaaafaaaafaaaafaaaafaaaafaaaafaaaafaaaafaaaafaaaafaaaafaaaafaaaafaaaafaaaafaaaafaaaafaaaafaaaafaaaafaaaafaaaafaaaafaaaafaaaafaaaafaaaafaaaafaaaafaaaafaaaafaaaafaaaafaaaafaaaafaaaafaaaafaaaafaaaafaaaafaaaafaaaafaaaafaaaafaaaafaaaafaaaafaaaafaaaafaaaafaaaafaaaafaaaafaaaafaaaafaaaafaaaafaaaafaaaafaaaafaaaafaaaafaaaafaaaafaaaafaaaafaaaafaaaafaaaafaaaafaaaafaaaafaaaafaaaafaaaafaaaafaaaafaaaafaaaafaaaafaaaafaaaafaaaafaaaafaaaafaaaafaaaafaaaafaaaafaaaafaaaafaaaafaaaafaaaafaaaafaaaafaaaafaaaafaaaafaaaafaaaafaaaafaaaafaaaafaaaafaaaafaaaafaaaafaaaafaaaafaaaafaaaafaaaafaaaafaaaafaaaafaaaafaaaafaaaafaaaafaaaafaaaafaaaafaaaafaaaafaaaafaaaafaaaafaaaafaaaafaaaafaaaafaaaafaaaafaaaafaaaafaaaafaaaafaaaafaaaafaaaafaaaafaaaafaaaafaaaafaaaafaaaafaaaafaaaafaaaafaaaafaaaafaaaafaaaafaaaafaaaafaaaafaaaafaaaafaaaafaaaafaaaafaaaafaaaafaaaafaaaafaaaafaaaafaaaafaaaafaaaafaaaafaaaafaaaafaaaafaaaafaaaafaaaafaaaafaaaafaaaafaaaafaaaafaaaafaaaafaaaafaaaafaaaafaaaafaaaafaaaafaaaafaaaafaaaafaaaafaaaafaaaafaaaafaaaafaaaafaaaafaaaafaaaafaaaafaaaafaaaafaaaafaaaafaaaafaaaafaaaafaaaafaaaafaaaafaaaafaaaafaaaafaaaafaaaafaaaafaaaafaaaafaaaafaaaafaaaafaaaafaaaafaaaafaaaafaaaafaaaafaaaafaaaafaaaafaaaafaaaafaaaafaaaafaaaafaaaafaaaafaaaafaaaafaaaafaaaafaaaafaaaafaaaafaaaafaaaafaaaafaaaafaaaafaaaafaaaafaaaafaaaafaaaafaaaafaaaafaaaafaaaafaaaafaaaafaaaafaaaafaaaafaaaafaaaafaaaafaaaafaaaafaaaafaaaafaaaafaaaafaaaafaaaafaaaafaaaafaaaafaaaafaaaafaaaafaaaafaaaafaaaafaaaafaaaafaaaafaaaafaaaafaaaafaaaafaaaafaaaafaaaafaaaafaaaafaaaafaaaafaaaafaaaafaaaafaaaafaaaafaaaafaaaafaaaafaaaafaaaafaaaafaaaafaaaafaaaafaaaafaaaafaaaafaaaafaaaafaaaafaaaafaaaafaaaafaaaafaaaafaaaafaaaafaaaafaaaafaaaafaaaafaaaafaaaafaaaafaaaafaaaafaaaafaaaafaaaafaaaafaaaafaaaafaaaafaaaafaaaafaaaafaaaafaaaafaaaafaaaafaaaafaaaafaaaafaaaafaaaafaaaafaaaafaaaafaaaafaaaafaaaafaaaafaaaafaaaafaaaafaaaafaaaafaaaafaaaafaaaafaaaafaaaafaaaafaaaafaaaafaaaafaaaafaaaafaaaafaaaafaaaafaaaafaaaafaaaafaaaafaaaafaaaafaaaafaaaafaaaafaaaafaaaafaaaafaaaafaaaafaaaafaaaafaaaafaaaafaaaafaaaafaaaafaaaafaaaafaaaafaaaafaaaafaaaafaaaafaaaafaaaafaaaafaaaafaaaafaaaafaaaafaaaafaaaafaaaafaaaafaaaafaaaafaaaafaaaafaaaafaaaafaaaafaaaafaaaafaaaafaaaafaaaafaaaafaaaafaaaafaaaafaaaafaaaafaaaafaaaafaaaafaaaafaaaafaaaafaaaafaaaafaaaafaaaafaaaafaaaafaaaafaaaafaaaafaaaafaaaafaaaafaaaafaaaafaaaafaaaafaaaafaaaafaaaafaaaafaaaafaaaafaaaafaaaafaaaafaaaafaaaafaaaafaaaafaaaafaaaafaaaafaaaafaaaafaaaafaaaafaaaafaaaafaaaafaaaafaaaafaaaafaaaafaaaafaaaafaaaafaaaafaaaafaaaafaaaafaaaafaaaafaaaafaaaafaaaafaaaafaaaafaaaafaaaafaaaafaaaafaaaafaaaafaaaafaaaafaaaafaaaafaaaafaaaafaaaafaaaafaaaafaaaafaaaafaaaafaaaafaaaafaaaafaaaafaaaafaaaafaaaafaaaafaaaafaaaafaaaafaaaafaaaafaaaafaaaafaaaafaaaafaaaafaaaafaaaafaaaafaaaafaaaafaaaafaaaafaaaafaaaafaaaafaaaafaaaafaaaafaaaafaaaafaaaafaaaafaaaafaaaafaaaafaaaafaaaafaaaafaaaafaaaafaaaafaaaafaaaafaaaafaaaafaaaafaaaafaaaafaaaafaaaafaaaafaaaafaaaafaaaafaaaafaaaafaaaafaaaafaaaafaaaafaaaafaaaafaaaafaaaafaaaafaaaafaaaafaaaafaaaafaaaafaaaafaaaafaaaafaaaafaaaafaaaafaaaafaaaafaaaafaaaafaaaafaaaafaaaafaaaafaaaafaaaafaaaafaaaafaaaafaaaafaaaafaaaafaaaafaaaafaaaafaaaafaaaafaaaafaaaafaaaafaaaafaaaafaaaafaaaafaaaafaaaafaaaafaaaafaaaafaaaafaaaafaaaafaaaafaaaafaaaafaaaafaaaafaaaafaaaafaaaafaaaafaaaafaaaafaaaafaaaafaaaafaaaafaaaafaaaafaaaafaaaafaaaafaaaafaaaafaaaafaaaafaaaafaaaafaaaafaaaafaaaafaaaafaaaafaaaafaaaafaaaafaaaafaaaafaaaafaaaafaaaafaaaafaaaafaaaafaaaafaaaafaaaafaaaafaaaafaaaafaaaafaaaafaaaafaaaafaaaafaaaafaaaafaaaafaaaafaaaafaaaafaaaafaaaafaaaafaaaafaaaa"

\* The case folding of re.IGNORECASE: the character of the text c matches
\* the character of the pattern x exactly when Lower(c) = Lower(x).
Lower(c) ==
  IF c < 128 THEN (IF c \in UpperLetters THEN c + 32 ELSE c)
  ELSE IF 5 * c < Len(FoldDelta) THEN c + Delta(FoldDelta, c)
  ELSE c

\* One letter for each character of the table: "i" for a character that
\* the lower-casing of a capital sigma skips (case-ignorable), "c" for a
\* cased character among the others, "." for every other character.
CaseContext ==
  ".......................................i......i...........i......cccccccccccccccccccccccccc...i.icccccccccccccccccccccccccc.............................................i.c..i.i....ic.ii.c.....ccccccccccccccccccccccc.ccccccccccccccccccccccccccccccc.ccccccccccccccccccccccccccccccccccccccccccccccccccccccccccccccccccccccccccccccccccccccccccccccccccccccccccccccccccccccccccccccccccccccccccccccccccccccccccccccccccccccccccccccccccccccccccccccccccc.cccc....cccccccccccccccccccccccccccccccccccccccccccccccccccccccccccccccccccccccccccccccccccccccccccccccccccccccccccccccccccccccccccccccccccccccccccccccccccccccccccccccccccccccccccccccccccccccccccccccccccccccccccccccc.ccccccccccccccccccccccccccciiiiiiiiiiiiiiiiiiiiiiiiiiiiiiiiiiiiiiiiiiiiiiiiiiiiiiiiiiiiiiiiiiiiiiiiiiiiiiiiiiiiiiiiiiiiiiiiiiiiiiiiiiiiiiiiiiiiiiiiiiiiiiiiiiiiiiiiiiiiiiiiiiiiiiiiiiiiiiiiiiiiiiiiiiiiiiiiiiiiiiiiiiiiiiiicccciicc..iccc.c....iiciccc.c.cccccccccccccccccccc.ccccccccccccccccccccccccccccccccccccccccccccccccccccccccccccccccccccccccccccccccccc.ccccccccccccccccccccccccccccccccccccccccccccccccccccccccccccccccccccccccccccccccccccccccccccccccccccccccccccccccccccccccccccccccccccccccccc.iiiiiiicccccccccccccccccccccccccccccccccccccccccccccccccccccccccccccccccccccccccccccccccccccccccccccccccccccccccccccccccccccccccccccccccccccccccccccccccccccccccccccccccccccc.cccccccccccccccccccccccccccccccccccccc..i.....iccccccccccccccccccccccccccccccccccccccccc........iiiiiiiiiiiiiiiiiiiiiiiiiiiiiiiiiiiiiiiiiiiii.i.ii.ii.i............................................i...........iiiiii..........iiiiiiiiiii.i...................................i..........iiiiiiiiiiiiiiiiiiiii................i.....................................................................................................iiiiiiii.iiiiiiiiii.iiii.................................i.i..............................iiiiiiiiiiiiiiiiiiiiiiiiiii...........................................................................................iiiiiiiiiii..........................................................iiiiiiiiiii....i..i........................iiiiiiiiiiiiiiiiiiiiiiii...........................................iii............................................i.......ii......iiiiiiii.........................................iiiiiiiiiiiiiiiiiiiiiiiiiiiiiiiiiiiiiiiiiiiiiiiiiiiiiiiiii.......................................................i.i....iiiiiiii....i...iiiiiii..........ii.............i...............i..........................................................i....iiii........i....................ii..........................i..ii.........................................................i....ii....ii..iii...i..............................ii...i...........ii.........................................................i....iiiii.ii....i....................ii......................iiiiii.i..........................................................i..i.iiii........i.......ii...........ii..............................i.............................................................i............i..................................................i...i.......................................................i.iii.....iii.iiii.......ii...........ii.............................i..........................................................i..i......i.....ii....................ii............................ii.........................................................ii....iiii........i....................ii.............................i........................................................................i.......iii.i..........................................................................................i..iiiiiii...........iiiiiiiii..................................................................................................i..iiiiiiiii.........i.iiiiii..........................................................................ii...........................i.i.i.......................................................iiiiiiiiiiiiii.iiiii.ii.....iiiiiiiiiii.iiiiiiiiiiiiiiiiiiiiiiiiiiiiiiiiiiii.........i......................................................................................................iiii.iiiiii.ii..ii.........................ii....iii................iiii.............i..ii......i...............i..cccccccccccccccccccccccccccccccccccccc.c.....c..ccccccccccccccccccccccccccccccccccccccccccc.iccc.............................................................................................................................................................................................................................................................................................................................................................................................................................................................................................................................................................................................................................iii................................................................cccccccccccccccccccccccccccccccccccccccccccccccccccccccccccccccccccccccccccccccccccccc..cccccc....................................................................................................................................................................................................................................................................................................................................................................................................................................................................................................................................................................................................................................................................................................................................................................................................................iii.............................ii..............................ii..............................ii................................................................ii.iiiiiii........i..iiiiiiiiiii...i.....i.............................................iiiii...................................................i.................................................................ii..................................i......................................................................................................................iii....ii.........i......iii...........................................................................................................................................................................................................................ii..i..........................................................i.iiiiiii.i.i..iiiiiiii......iiiiiiiiii..i.......................................i........iiiiiiiiiiiiiiiiiiiiiiiiiiiiiii.................................................iiii................................................i.iiiii.i.....i........................................iiiiiiiii............ii................................iiii..ii.iii........................................................i.ii...i.iii..........................................................iiiiiiii..ii................................................................iiiiii..ccccccccc.......ccccccccccccccccccccccccccccccccccccccccccc..ccc................iii.iiiiiiiiiiiii.iiiiiii....i......i...ii......cccccccccccccccccccccccccccccccccccccccccccciiiiiiiiiiiiiiiiiiiiiiiiiiiiiiiiiiiiiiiiiiiiiiiiiiiiiiiiiiiiiiicccccccccccccicccccccccccccccccccccccccccccccccciiiiiiiiiiiiiiiiiiiiiiiiiiiiiiiiiiiiiiiiiiiiiiiiiiiiiiiiiiiiiiiiiiiiiiiiiiiiiiiiiiiiiiiiiiiiiiiiiiiiicccccccccccccccccccccccccccccccccccccccccccccccccccccccccccccccccccccccccccccccccccccccccccccccccccccccccccccccccccccccccccccccccccccccccccccccccccccccccccccccccccccccccccccccccccccccccccccccccccccccccccccccccccccccccccccccccccccccccccccccccccccccccccccccccccccccccccccccccccccc..cccccc..cccccccccccccccccccccccccccccccccccccc..cccccc..cccccccc.c.c.c.ccccccccccccccccccccccccccccccc..ccccccccccccccccccccccccccccccccccccccccccccccccccccc.ccccccciciiiccc.ccccccciiicccc..cccccc.iiiccccccccccccciii..ccc.cccccccii............iiiii........ii..........i..i..iiiii.................................................iiiii.iiiiiiiiii.i.............i................iiiiiiiiiiiii...................................................iiiiiiiiiiiiiiiiiiiiiiiiiiiiiiiii.................c....c..cccccccccc.c...ccccc......c.c.c.cccc.cccccc....c..cccc.....ccccc....c.................cccccccccccccccccccccccccccccccc...cc.................................................................................................................................................................................................................................................................................................................................................................................................................................................................................................................................................................................................................................................................................................................................................................................................................................................cccccccccccccccccccccccccccccccccccccccccccccccccccc......................................................................................................................................................................................................................................................................................................................................................................................................................................................................................................................................................................................................................................................................................................................................................................................................................................................................................................................................................................................................................................................................................................................................................................................................................................................................................................................................................................................................................................................................................................................................................................................................................................................................................................................................................................................................................................................................................cccccccccccccccccccccccccccccccccccccccccccccccccccccccccccccccccccccccccccccccccccccccccccccccccccccccccccccccccccccccccccciiccccccccccccccccccccccccccccccccccccccccccccccccccccccccccccccccccccccccccccccccccccccccccccccccccccccc......cccciiicc............cccccccccccccccccccccccccccccccccccccc.c.....c.................................................................i...............i................................................................................................iiiiiiiiiiiiiiiiiiiiiiiiiiiiiiii...............................................i.....................................................................................................................................................................................................................................................................................................................................................................................................................................................................................i....................................iiii...iiiii.....i.............................................................................................iiiiii.............................................................................................iii......................................................................................................................................................................................................................................................................................................................................................................................................................................................................................................................................................................................................................................................................................................................................................................................................................................................................................................................................................................................................................................................................................................................................................................................................................................................................................................................................................................................................................................................................................................................................................................................................................................................................................................................................................................................................................................................................................................................................................................................................................................................................................................................................................................................................................................................................................................................................................................................................................................................................................................................................................................................................................................................................................................................................................................................................................................................................................................................................................................................................................................................................................................................................................................................................................................................................................................................................................................................................................................................................................................................................................................................................................................................................................................................................................................................................................................................................................................................................................................................................................................................................................................................................................................................................................................................................................................................................................................................................................................................................................................................................................................................................................................................................................................................................................................................................................................................................................................................................................................................................................................................................................................................................................................................................................................................................................................................................................................................................................................................................................................................................................................................................................................................................................................................................................................................................................................................................................................................................................................................................................................................................................................................................................................................................................................................................................................................................................................................................................................................................................................................................................................................................................................................................................................................................................................................................................................................................................................................................................................................................................................................................................................................................................................................................................................................................................................................................................................................................................................................................................................................................................................................................................................................................................................................................................................................................................................................................................................................................................................................................................................................................................................................................................................................................................................................................................................................................................................................................................................................................................................................................................................................................................................................................................................................................................................................................................................................................................................................................................................................................................................................................................................................................................................................................................................................................................................................................................................................................................................................................................................................................................................................................................................................................................................................................................................................................................................................................................................................................................................................................................................................................................................................................................................................................................................................................................................................................................................................................................................................................................................................................................................................................................................................................................................................................................................................................................................................................................................................................................................................................................................................................................................................................................................................................................................................................................................................................................................................................................................................................................................................................................................................................................................................................................................................................................................................................................................................................................................................................................................................................................................................................................................................................................................................................................................................................................................................................................................................................................................................................................................................................................................................................................................................................................................................................................................................................................................................................................................................................................................................................................................................................................................................................................................................................................................................................................................................................................................................................................................................................................................................................................................................................................................................................................................................................................................................................................................................................................................................................................................................................................................................................................................................................................................................................................................................................................................................................................................................................................................................................................................................................................................................................................................................................................................................................................................................................................................................................................................................................................................................................................................................................................................................................................................................................................................................................................................................................................................................................................................................................................................................................................................................................................................................................................................................................................................................................................................................................................................................................................................................................................................................................................................................................................................................................................................................................................................................................................................................................................................................................................................................................................................................................................................................................................................................................................................................................................................................................................................................................................................................................................................................................................................................................................................................................................................................................................................................................................................................................................................................................................................................................................................................................................................................................................................................................................................................................................................................................................................................................................................................................................................................................................................................................................................................................................................................................................................................................................................................................................................................................................................................................................................................................................................................................................................................................................................................................................................................................................................................................................................................................................................................................................................................................................................................................................................................................................................................................................................................................................................................................................................................................................................................................................................................................................................................................................................................................................................................................................................................................................................................................................................................................................................................................................................................................................................................................................................................................................................................................................................................................................................................................................................................................................................................................................................................................................................................................................................................................................................................................................................................................................................................................................................................................................................................................................................................................................................................................................................................................................................................................................................................................................................................................................................................................................................................................................................................................................................................................................................................................................................................................................................................................................................................................................................................................................................................................................................................................................................................................................................................................................................................................................................................................................................................................................................................................................................................................................................................................................................................................................................................................................................................................................................................................................................................................................................................................................................................................................................................................................................................................................................................................................................................................................................................................................................................................................................................................................................................................................................................................................................................................................................................................................................................................................................................................................................................................................................................................................................................................................................................................................................................................................................................................................................................................................................................................................................................................................................................................................................................................................................................................................................................................................................................................................................................................................................................................................................................................................................................................................................................................................................................................................................................................................................................................................................................................................................................................................................................................................................................................................................................................................................................................................................................................................................................................................................................................................................................................................................................................................................................................................................................................................................................................................................................................................................................................................................................................................................................................................................................................................................................................................................................................................................................................................................................................................................................................................................................................................................................................................................................................................................................................................................................................................................................................................................................................................................................................................................................................................................................................................................................................................................................................................................................................................................................................................................................................................................................................................................................................................................................................................................................................................................................................................................................................................................................................................................................................................................................................................................................................................................................................................................................................................................................................................................................................................................................................................................................................................................................................................................................................................................................................................................................................................i..................................................................................................................................................................................................................................................................................................................................................................................................................................................................................................................................................................................................................................................................................................................................................................................................................................................................................................................................................................................................................................................................................................................................................................................................................................................................................................iiiiii..............................................................................................................................................................................................................................................................................i...................................................cccccccccccccccccccccccccccccccccccccccccccccc.iiii.iiiiiiiiii.icccccccccccccccccccccccccccciiii................................................................................ii..............iiiiiiiiiiiiiiiiiiiiiiiiiiiiiiiiiicccccccccccccccccccccccccccccccccccccccccccccccccccccccccccccccccccccccccccccciccccccccccccccccccccccciiicccc.ccccccccccccccccccccccccccccccccccccccccccccccccccccccccccc.....cc.c.ccccc........................iiicc.iic.......i...i....i.........................ii.....i.......................................................................................................................................................ii..........................iiiiiiiiiiiiiiiiii.............i......................................iiiiiiii.........................iiiiiiiiiii..............................................iii................................................i..iiii..ii.................i.....................ii..................................................................iiiiii..ii..ii............i........i...................................i...........i...................................................i.iii..ii.....ii.i...........................i..............ii.....ii.i.........................................................ccccccccccccccccccccccccccccccccccccccccccciiiiiccccccccciii....cccccccccccccccccccccccccccccccccccccccccccccccccccccccccccccccccccccccccccccccc.....................................i..i....i..................................................................................................................................................................................................................................................................................................................................................................................................................................................................................................................................................................................................................................................................................................................................................................................................................................................................................................................................................................................................................................................................................................................................................................................................................................................................................................................................................................................................................................................................................................................................................................................................................................................................................................................................................................................................................................................................................................................................................................................................................................................................................................................................................................................................................................................................................................................................................................................................................................................................................................................................................................................................................................................................................................................................................................................................................................................................................................................................................................................................................................................................................................................................................................................................................................................................................................................................................................................................................................................................................................................................................................................................................................................................................................................................................................................................................................................................................................................................................................................................................................................................................................................................................................................................................................................................................................................................................................................................................................................................................................................................................................................................................................................................................................................................................................................................................................................................................................................................................................................................................................................................................................................................................................................................................................................................................................................................................................................................................................................................................................................................................................................................................................................................................................................................................................................................................................................................................................................................................................................................................................................................................................................................................................................................................................................................................................................................................................................................................................................................................................................................................................................................................................................................................................................................................................................................................................................................................................................................................................................................................................................................................................................................................................................................................................................................................................................................................................................................................................................................................................................................................................................................................................................................................................................................................................................................................................................................................................................................................................................................................................................................................................................................................................................................................................................................................................................................................................................................................................................................................................................................................................................................................................................................................................................................................................................................................................................................................................................................................................................................................................................................................................................................................................................................................................................................................................................................................................................................................................................................................................................................................................................................................................................................................................................................................................................................................................................................................................................................................................................................................................................................................................................................................................................................................................................................................................................................................................................................................................................................................................................................................................................................................................................................................................................................................................................................................................................................................................................................................................................................................................................................................................................................................................................................................................................................................................................................................................................................................................................................................................................................................................................................................................................................................................................................................................................................................................................................................................................................................................................................................................................................................................................................................................................................................................................................................................................................................................................................................................................................................................................................................................................................................................................................................................................................................................................................................................................................................................................................................................................................................................................................................................................................................................................................................................................................................................................................................................................................................................................................................................................................................................................................................................................................................................................................................................................................................................................................................................................................................................................................................................................................................................................................................................................................................................................................................................................................................................................................................................................................................................................................................................................................................................................................................................................................................................................................................................................................................................................................................................................................................................................................................................................................................................................................................................................................................................................................................................................................................................................................................................................................................................................................................................................................................................................................................................................................................................................................................................................................................................................................................................................................................................................................................................................................................................................................................................................................................................................................................................................................................................................................................................................................................................................................................................................................................................................................................................................................................................................................................................................................................................................................................................................................................................................................................................................................................................................................................................................................................................................................................................................................................................................................................................................................................................................................................................................................................................................................................................................................................................................................................................................................................................................................................................................................................................................................................................................................................................................................................................................................................................................................................................................................................................................................................................................................................................................................................................................................................................................................................................................................................................................................................................................................................................................................................................................................................................................................................................................................................................................................................................................................................................................................................................................................................................................................................................................................................................................................................................................................................................................................................................................................................................................................................................................................................................................................................................................................................................................................................................................................................................................................................................................................................................................................................................................................................................................................................................................................................................................................................................................................................................................................................ccccccc............ccccc......i...................................................................................................................................................iiiiiiiiiiiiiiiii.............................................................................................................................................................................................................................................................................................................................................................................................................................................................................................................................................................................................iiiiiiiiiiiiiiii...i............iiiiiiiiiiiiiiii..................................i..i.........................................................................................................................................................................i.......i......i...........i......cccccccccccccccccccccccccc...i.icccccccccccccccccccccccccc.....................i.............................................ii...................................................................i.....................iii.................................................................................................................................................................................................................................................................................................................................................................................................................................................................................................................................i..................................................................................................................................................................................................................................i.....................................................................................................................................................iiiii.....................................................................................................................................cccccccccccccccccccccccccccccccccccccccccccccccccccccccccccccccccccccccccccccccc................................................................................................cccccccccccccccccccccccccccccccccccc....cccccccccccccccccccccccccccccccccccc....................................................................................................................ccccccccccc.ccccccccccccccc.ccccccc.cc.ccccccccccc.ccccccccccccccc.ccccccc.cc...................................................................................................................................................................................................................................................................................................................................................................................................................................................................iiiiii.iiiiiiiiiiiiiiiiiiiiiiiiiiiiiiiiiiiiiiiiii.iiiiiiiii......................................................................................................................................................................................................................................................................................................................................................................................................................................................................................................................................................................................................iii.ii.....iiii........................................iii....i.....................................................................................................................................................................ii.........................................................................................................................................................................................................................................................................................................................................................................................................................ccccccccccccccccccccccccccccccccccccccccccccccccccc.............ccccccccccccccccccccccccccccccccccccccccccccccccccc.................................................iiii...................................................................................................................................................................................................................................................................................................................................................................................................ii.........................................................................................................................................................iiiiiiiiiii.................................................iiii...........................................................................................................................i......................................................iiiiiiiiiiiiiii.........................................i..ii..........iii.................................................iiii..ii..i....i..........i..................................................iii....................................iiiii.iiiiiiii..............................................................i............ii....................................................iiiiiiiii..........iiii..i...............................................................................................iii..i.ii......i................................................................................................................................................................i...iiiiiiii.....................ii.........................................................ii...i.....................................iiiiiii...iiiii...................................................................................................................................................................................................iiiiiiii..iii.i.......................i....................................................................................iiiiii.i....ii.ii..............................................................................................................................................................................................................................................iiii......ii.ii...........................ii.....................................................................................iiiiiiii..i.ii..........................................................................................................i.i..iiiiii.i.....................................................................................................iii..iiii.iiiii...................................................................................................................................................................................................................................................................iiiiiiiii.ii.....................................................................................................cccccccccccccccccccccccccccccccccccccccccccccccccccccccccccccccc...........................................................................................ii.i....i................................................................................................................................................iiii..ii....i................................iiiiiiiiii........................................iiiiii..iiii........i.........iiiiii..iii..............................................iiiiiiiiiiiii.ii......................................................................................................................................................................................................................................................................................................................................................................................................................iiiiiii.iiiiii.i..................................................................................iiiiiiiiiiiiiiiiiiiiii..iiiiiii.ii.ii..........................................................................................................................iiiiii...i.ii.iiiiiii.i........................................................................ii...i.i...........................................................................................................................................................................................................................................................................................................................................................ii...........................................................................................................................................................................................................................................................................................................................................................................................................................................................................................................................................................................................................................................................................................................................................................................................................................................................................................................................................................................................................................................................................................................................................................................................................................................................................................................................................................................................................................................................................................................................................................................................................................................................................................................................................................................................................................................................................................................................................................................................................................................................................................................................................................................................................................................................................................................................................................................................................................................................................................................................................................................................................................................................................................................................................................................................................................................................................................................................................................................................................................................................................................................................................................................................................................................................................................................................................................................................................................................................................................................................................................................................................................................................................................................................................................................................................................................................................................................................................................................................................................................................................................................................................................................................................................................................................................................................................................................................................................................................................................................................................................................................................................................................................................................................................................................................................................................................................................................................................................................................................................................................................................................................................................................................................................................................................................................................................................................................................................................................................................................................................................................................................................................................iiiiiiiii.......................................................................................................................................................................................................................................................................................................................................................................................................................................................................................................................................................................................................................................................................................................................................................................................................................................................................................................................................................................................................................................................................................................................................................................................................................................................................................................................................................................................................................................................................................................................................................................................................................................................................................................................................................................................................................................................................................................................................................................................................................................................................................................................................................................................................................................................................................................................................................................................................................................................................................................................................................................................................................................................................................................................................................................................................................................................................................................................................................................................................................................................................................................................................................................................................................................................................................................................................................................................................................................................................................................................................................................................................................................................................................................................................................................................................................................................................................................................................................................................................................................................................................................................................................................................................................................................................................................................................................................................................................................................................................................................................................................................................................................................................................................................................................................................................................................................................................................................................................................................................................................................................................................................................................................................................................................................................................................................................................................................................................................................................................................................................................................................................................................................................................................................................................................................................................................................................................................................................................................................................................................................................................................................................................................................................................................................................................................................................................................................................................................................................................................................................................................................................................................................................................................................................................................................................................................................................................................................................................................................................................................................................................................................................................................................................................................................................................................................................................................................................................................................................................................................................................................................................................................................................................................................................................................................................................................................................................................................................................................................................................................................................................................................................................................................................................................................................................................................................................................................................................................................................................................................................................................................................................................................................................................................................................................................................................................................................................................................................................................................................................................................................................................................................................................................................................................................................................................................................................................................................................................................................................................................................................................................................................................................................................................................................................................................................................................................................................................................................................................................................................................................................................................................................................................................................................................................................................................................................................................................................................................................................................................................................................................................................................................................................................................................................................................................................................................................................................................................................................................................................................................................................................................................................................................................................................................................................................................................................................................................................................................................................................................................................................................................................................................................................................................................................................................................................................................................................................................................................................................................................................................................................................................................................................................................................................................................................................................................................................................................................................................................................................................................................................................................................................................................................................................................................................................................................................................................................................................................................................................................................................................................................................................................................................................................................................................................................................................................................................................................................................................................................................................................................................................................................................................................................................................................................................................................................................................................................................................................................................................................................................................................................................................................................................................................................................................................................................................................................................................................................................................................................................................................................................................................iiiii...........................................................iiiiiii.........iiii............................................................................................................................................................................................................................................................................................................................................................................................................................................................................................................................................................................................................................................................................................................................................................................................cccccccccccccccccccccccccccccccccccccccccccccccccccccccccccccccc...............................................................................................................................................................................................................i...............................................................iiiiiiiiiiiiiiiii................................................................ii.ii...........................................................................................................................................................................................................................................................................................................................................................................................................................................................................................................................................................................................................................................................................................................................................................................................................................................................................................................................................................................................................................................................................................................................................................................................................................................................................................................................................................................................................................................................................................................................................................................................................................................................................................................................................................................................................................................................................................................................................................................................................................................................................................................................................................................................................................................................................................................................................................................................................................................................................................................................................................................................................................................................................................................................................................................................................................................................................................................................................................................................................................................................................................................................................................................................................................................................................................................................................................................................................................................................................................................................................................................................................................................................................................................................................................................................................................................................................................................................................................................................................................................................................................................................................................................................................................................................................................................................................................................................................................................................................................................................................................................................................................................................................................................................................................................................................................................................................................................................................................................................................................................................................................................................................................................................................................................................................................................................................................................................................................................................................................................................................................................................................................................................................................................................................................................................................................................................................................................................................................................................................................................................................................................................................................................................................................................................................................................................................................................................................................................................................................................................................................................................................................................................................................................................................................................................................................................................................................................................................................................................................................................................................................................................................................................................................................................................................................................................................................................................................................................................................................................................................................................................................................................................................................................................................................................................................................................................................................................................................................................................................................................................................................................................................................................................................................................................................................................................................................................................................................................................................................................................................................................................................................................................................................................................................................................................................................................................................................................................................................................................................................................................................................................................................................................................................................................................................................................................................................................................................................................................................................................................................................................................................................................................................................................................................................................................................................................................................................................................................................................................................................................................................................................................................................................................................................................................................................................................................................................................................................................................................................................................................................................................................................................................................................................................................................................................................................................................................................................................................................................................................................................................................................................................................................................................................................................................................................................................................................................................................................................................................................................................................................................................................................................................................................................................................................................................................................................................................................................................................................................................................................................................................................................................................................................................................................................................................................................................................................................................................................................................................................................................................................................................................................................................................................................................................................................................................................................................................................................................................................................................................................................................................................................................................................................................................................................................................................................................................................................................................................................................................................................................................................................................................................................................................................................................................................................................................................................................................................................................................................................................................................................................................................................................................................................................................................................................................................................................................................................................................................................................................................................................................................................................................................................................................................................................................................................................................................................................................................................................................................................................................................................................................................................................................................................................................................................................................................................................................................................................................................................................................................................................................................................................................................................................................................................................................................................................................................................................................................................................................................................................................................................................................................................................................................................................................................................................................................................................................................................................................................................................................................................................................................................................................................................................................................................................................................................................................................................................................................................................................................................................................................................................................iiii.iiiiiii.ii..............................................................................................................................................................................................................................................................................................................................................................................................................................................................................................................................................................................................................................................................................................................................................................................................................................................................................................................................................................................................................................................................................................................................................................................................................................................................................................................................................................................................................................................................................................................................................................................................................................................................................................................................................................................................................................................................................................................................................................................................................................................................................................................................................................................................................................................................................................................................................................................................................................................................................................................................................................................................................................................................................................................................................................................................................................................................................................................................................................................................................................................................................................................................................................................................................................................................................................................................................................ii.iiii............................................................................................................................................................................................................................................................................................................................................................................................................................................................................................................................................................................................................................................................................................................................................................................................................................................................................................................................................................................................................................................................................................................................................................................................................................................................................................................................................................................................................................................................................................................................................................................................................................................................................................................................................................................................................................................................................................................................................................................................................................................................................................................................................................................................................................................................................................................................................................................................................................................................................................................................................................................................................................................................................................................................................................................................................................................................................................................................................................................................................................................................................................................................................................................................................................................................................................................................................................................................................................................................................................................................................................................................................................................................................................................................................................................................................................................................................................................................................................................................................................................................................................................................................................................................................................................................................................................................................................................................................................................................................................................................................................................................................................................................................................................................................................................................................................................................................................iiiiiiiiiiiiiiiiiiiiiiiiiiiiiiiiiiiiiiiiiiiiii..iiiiiiiiiiiiiiiiiiiiiii................................................................................................................................................................................................................................................................................................................................................................................................................................................................................................................................................................iii.........iiiiiiiiiiiiiiii..iiiiiii..............................iiii....................................................................................................................................................iii...........................................................................................................................................................................................................................................................................................................................................................................................................................................................ccccccccccccccccccccccccccccccccccccccccccccccccccccccccccccccccccccccccccccccccccccc.ccccccccccccccccccccccccccccccccccccccccccccccccccccccccccccccccccccccc.cc..c..cc..cccc.cccccccccccc.c.ccccccc.ccccccccccccccccccccccccccccccccccccccccccccccccccccccccccccccccc.cccc..cccccccc.ccccccc.cccccccccccccccccccccccccccc.cccc.ccccc.c...ccccccc.cccccccccccccccccccccccccccccccccccccccccccccccccccccccccccccccccccccccccccccccccccccccccccccccccccccccccccccccccccccccccccccccccccccccccccccccccccccccccccccccccccccccccccccccccccccccccccccccccccccccccccccccccccccccccccccccccccccccccccccccccccccccccccccccccccccccccccccccccccccccccccccccccccccccccccccccccccccccccccccccccccccccccccccccccccc..ccccccccccccccccccccccccc.ccccccccccccccccccccccccc.ccccccccccccccccccccccccccccccc.ccccccccccccccccccccccccc.ccccccccccccccccccccccccccccccc.ccccccccccccccccccccccccc.ccccccccccccccccccccccccccccccc.ccccccccccccccccccccccccc.ccccccccccccccccccccccccccccccc.ccccccccccccccccccccccccc.cccccccc....................................................................................................................................................................................................................................................................................................................................................................................................................................................................................................................................................................................iiiiiiiiiiiiiiiiiiiiiiiiiiiiiiiiiiiiiiiiiiiiiiiiiiiiiii....iiiiiiiiiiiiiiiiiiiiiiiiiiiiiiiiiiiiiiiiiiiiiiiiii........i..............i......................iiiii.iiiiiiiiiiiiiii................................................................................................................................................................................................................................................................................................................................................................................................................................................................................................................................................................................................................................................................................................................................................................................................................................................................................................................................................................................................................................................................................................................................................cccccccccc.cccccccccccccccccccc.................................................................................................................................................................................................................................iiiiiii.iiiiiiiiiiiiiiiii..iiiiiii.ii.iiiii.....................................................................................................................................................................................................................................................................iiiiiiiiiiiiii................................................................................................................................................................................................................................................................................................................................................................................i.............................................................iiii................................................................................................................................................................................................................................................................................................................................................................................................................................................................................................................................................................................................................................................................................................................................................................................................................................................................................................................................................................................................................................................................................................................................................................................................................................................................................................................................................................................................................................................................................................................................................................iiiiiii.........................................cccccccccccccccccccccccccccccccccccccccccccccccccccccccccccccccccccciiiiiiii....................................................................................................................................................................................................................................................................................................................................................................................................................................................................................................................................................................................................................................................................................................................................................................................................................................................................................................................................................................................................................................................................................................................................................................................................................................................................................................................................................................................................................................................................................................................................................................................................................................................................................................................................................................................................................................................................................................................................................................................................................................................................................................cccccccccccccccccccccccccc......cccccccccccccccccccccccccc......cccccccccccccccccccccccccc.................................................................................................................................................................................................................................................................................................................................................................................................................................................................................................................................................................................................................................................iiiii................................................................................................................................................................................................................................................................................................................................................................................................................................................................................................................................................................................................................................................................................................................................................................................................................................................................................................................................................................................................................................................................................................................................................................................................................................................................................................................................................................................................................................................................................................................................................................................................................................................................................................................................................................................................................................................................................................................................................................................................................................................................................................................................................................................................................................................................................................................................................................................................................................................................................................................................................................................................................................................................................................................................................................................................................................................................................................................................................................................................................................................................................................................................................................................................"

\* The letter of the character c; the characters beyond the table are
\* case-ignorable in three ranges and not cased.
CaseContextOf(c) ==
  IF c < Len(CaseContext) THEN SubSeq(CaseContext, c + 1, c + 1)
  ELSE IF InRanges(c, { <<917505, 917505>>, <<917536, 917631>>,
                        <<917760, 917999>> }) THEN "i"
  ELSE "."

\* The capital sigma at position i of s is final: a cased character comes
\* before it and none after it, case-ignorable characters skipped.
final_sigma(s, i) ==
  LET before == { j \in 1..(i - 1) : CaseContextOf(s[j]) # "i" }
      after == { j \in (i + 1)..Len(s) : CaseContextOf(s[j]) # "i" }
  IN  /\ before # {}
      /\ CaseContextOf(s[CHOOSE j \in before : \A k \in before : k <= j])
           = "c"
      /\ \/ after = {}
         \/ CaseContextOf(s[CHOOSE j \in after : \A k \in after : j <= k])
              # "c"

\* What str.lower() makes of the character at position i of s: one
\* character, two for U+0130, the final or the common small sigma for the
\* capital sigma.
lower_at(s, i) ==
  IF s[i] = 304 THEN <<105, 775>>
  ELSE IF s[i] = 931 THEN << IF final_sigma(s, i) THEN 962 ELSE 963 >>
  ELSE << unicode_tolower(s[i]) >>

RECURSIVE lower_from(_, _)
lower_from(s, i) ==
  IF i > Len(s) THEN << >> ELSE lower_at(s, i) \o lower_from(s, i + 1)

\* str.lower()
LowerStr(s) ==
  IF \A i \in 1..Len(s) : s[i] < 128
  THEN [i \in 1..Len(s) |-> unicode_tolower(s[i])]
  ELSE lower_from(s, 1)

\* The character at position p (1-based) of t; -1 outside the text.
At(t, p) == IF p \in 1..Len(t) THEN t[p] ELSE -1

(***************************************************************************)
(* Regular expressions: syntax trees.  All patterns of date_utils.py are   *)
(* compiled with re.IGNORECASE, so a character set and a literal hold the  *)
(* characters Lower(x) of the pattern and are compared with Lower(c) of    *)
(* the text character c.                                                   *)
(***************************************************************************)
\* The case folding of every character of s.
Fold(s) == [i \in 1..Len(s) |-> Lower(s[i])]

SetOf(S) == [op |-> "set", cs |-> S]
Chr(c) == SetOf({Lower(Ord[c])})
Digit == [op |-> "digit"]
Space == SetOf(Whitespace)
Dot == [op |-> "dot"]
WordBoundary == [op |-> "wb"]
Cat(rs) == [op |-> "cat", rs |-> rs]
Alt(rs) == [op |-> "alt", rs |-> rs]
\* r{lo,hi}, r? and r{lo,} (r* and r+), all greedy.
Rep(r, lo, hi) == [op |-> "rep", r |-> r, lo |-> lo, hi |-> hi, inf |-> FALSE]
Opt(r) == Rep(r, 0, 1)
Many(r, lo) == [op |-> "rep", r |-> r, lo |-> lo, hi |-> lo, inf |-> TRUE]
Group(n, r) == [op |-> "grp", n |-> n, r |-> r]
NotFollowedBy(r) == [op |-> "nla", r |-> r]
Lit(s) == [op |-> "lit", s |-> Fold(s)]
\* An alternation of literal strings that are not empty, s1|s2|...; first
\* is the set of the characters they start with.
AnyOf(ss) ==
  [op |-> "anyof", ss |-> [k \in 1..Len(ss) |-> Fold(ss[k])],
   first |-> { Lower(ss[k][1]) : k \in 1..Len(ss) }]

(***************************************************************************)
(* Regular expressions: matching.  The matcher reads the text t as         *)
(* Subject(t).  A path is one way a tree matches the text from a           *)
(* position: [e |-> the position after the match, g |-> the spans of the   *)
(* capturing groups].  Paths returns the paths in the order in which a     *)
(* backtracking matcher tries them; the match found at a position is the   *)
(* first one.                                                              *)
(***************************************************************************)
\* What the matcher reads of each character of the text s: the character,
\* its case folding, and whether \d and \w take it.
Subject(s) ==
  [i \in 1..Len(s) |->
     [c |-> s[i], low |-> Lower(s[i]), digit |-> IsDigit(s[i]),
      word |-> IsWordChar(s[i])]]

NoSpan == <<0, 0>>
NoGroups == <<NoSpan, NoSpan, NoSpan, NoSpan>>

RECURSIVE Paths(_, _, _, _)
RECURSIVE CatPaths(_, _, _, _, _)
RECURSIVE CatFrom(_, _, _, _, _, _)
RECURSIVE AltPaths(_, _, _, _, _, _)
RECURSIVE RepPaths(_, _, _, _, _)
RECURSIVE RepFrom(_, _, _, _, _, _, _)

\* The elements of rs from the i-th on, one after the other.
CatPaths(rs, i, t, p, g) ==
  IF i > Len(rs) THEN << [e |-> p, g |-> g] >>
  ELSE LET ps == Paths(rs[i], t, p, g)
       IN  CatFrom(ps, 1, Len(ps), rs, i + 1, t)

\* The continuations of the paths ps[lo..hi], in their order (the range is
\* halved to keep the evaluation shallow).
CatFrom(ps, lo, hi, rs, i, t) ==
  IF lo > hi THEN << >>
  ELSE IF lo = hi THEN CatPaths(rs, i, t, ps[lo].e, ps[lo].g)
  ELSE LET mid == (lo + hi) \div 2
       IN  CatFrom(ps, lo, mid, rs, i, t) \o CatFrom(ps, mid + 1, hi, rs, i, t)

\* The alternatives rs[lo..hi], in their order.
AltPaths(rs, lo, hi, t, p, g) ==
  IF lo > hi THEN << >>
  ELSE IF lo = hi THEN Paths(rs[lo], t, p, g)
  ELSE LET mid == (lo + hi) \div 2
       IN  AltPaths(rs, lo, mid, t, p, g) \o AltPaths(rs, mid + 1, hi, t, p, g)

\* The folded literal s is at position p of the subject t.
LitMatches(s, t, p) ==
  /\ p + Len(s) - 1 <= Len(t)
  /\ \A i \in 1..Len(s) : t[p + i - 1].low = s[i]

\* A node that matches exactly one character; x is the character as the
\* subject holds it.
IsCharNode(r) == r.op \in {"set", "digit", "dot"}
CharMatches(r, x) ==
  CASE r.op = "dot" -> x.c # 10
    [] r.op = "digit" -> x.digit
    [] OTHER -> x.low \in r.cs

\* \w takes the character at position p of the subject t; no character is
\* outside the text.
WordAt(t, p) == p \in 1..Len(t) /\ t[p].word

\* Greedy repetition of a one-character node: the longest run first, then
\* one character less at a time, down to r.lo.
CharRepPaths(r, t, p, g) ==
  LET limit == IF r.inf THEN Len(t) + 1 - p
               ELSE IF r.hi < Len(t) + 1 - p THEN r.hi ELSE Len(t) + 1 - p
      n == CHOOSE j \in 0..limit :
             /\ j = limit \/ ~CharMatches(r.r, t[p + j])
             /\ \A k \in 0..(j - 1) : CharMatches(r.r, t[p + k])
  IN  IF n < r.lo THEN << >>
      ELSE [i \in 1..(n - r.lo + 1) |-> [e |-> p + n + 1 - i, g |-> g]]

\* Greedy repetition in general: n repetitions of r.r are done; one more is
\* tried before stopping.
RepPaths(r, n, t, p, g) ==
  LET ps == Paths(r.r, t, p, g)
      more == IF r.inf \/ n < r.hi THEN RepFrom(ps, 1, Len(ps), r, n + 1, t, p)
              ELSE << >>
      stop == IF n >= r.lo THEN << [e |-> p, g |-> g] >> ELSE << >>
  IN  more \o stop

RepFrom(ps, lo, hi, r, n, t, p) ==
  IF lo > hi THEN << >>
  ELSE IF lo = hi
       THEN IF ps[lo].e > p THEN RepPaths(r, n, t, ps[lo].e, ps[lo].g) ELSE << >>
  ELSE LET mid == (lo + hi) \div 2
       IN  RepFrom(ps, lo, mid, r, n, t, p) \o RepFrom(ps, mid + 1, hi, r, n, t, p)

Paths(r, t, p, g) ==
  CASE IsCharNode(r) ->
         IF p <= Len(t) /\ CharMatches(r, t[p])
         THEN << [e |-> p + 1, g |-> g] >> ELSE << >>
    [] r.op = "lit" ->
         IF LitMatches(r.s, t, p)
         THEN << [e |-> p + Len(r.s), g |-> g] >> ELSE << >>
    [] r.op = "anyof" ->
         IF p > Len(t) \/ t[p].low \notin r.first THEN << >>
         ELSE LET found == SelectSeq(r.ss, LAMBDA s : LitMatches(s, t, p))
              IN  [k \in 1..Len(found) |-> [e |-> p + Len(found[k]), g |-> g]]
    [] r.op = "wb" ->
         IF WordAt(t, p - 1) # WordAt(t, p)
         THEN << [e |-> p, g |-> g] >> ELSE << >>
    [] r.op = "nla" ->
         IF Len(Paths(r.r, t, p, g)) = 0
         THEN << [e |-> p, g |-> g] >> ELSE << >>
    [] r.op = "cat" -> CatPaths(r.rs, 1, t, p, g)
    [] r.op = "alt" -> AltPaths(r.rs, 1, Len(r.rs), t, p, g)
    [] r.op = "rep" ->
         IF IsCharNode(r.r) THEN CharRepPaths(r, t, p, g)
         ELSE RepPaths(r, 0, t, p, g)
    [] r.op = "grp" ->
         LET inner == Paths(r.r, t, p, g)
         IN  [k \in 1..Len(inner) |->
                [e |-> inner[k].e,
                 g |-> [inner[k].g EXCEPT ![r.n] = <<p, inner[k].e>>]]]

\* The positions of the subject t at which r matches, in increasing order.
\* Whether r matches at a position depends on the text only (\b looks at the
\* character before the position wherever the search started).
MatchStarts(r, t) ==
  SelectSeq([q \in 1..(Len(t) + 1) |-> q],
            LAMBDA q : Len(Paths(r, t, q, NoGroups)) > 0)

\* pattern.finditer(text): the non-overlapping matches, leftmost first, as
\* [s |-> start, e |-> position after the end, g |-> group spans].  The
\* search goes on at position p, through the k-th and later of starts.  No
\* pattern of date_utils.py matches the empty string.
RECURSIVE FindIter(_, _, _, _, _)
FindIter(r, t, starts, k, p) ==
  IF k > Len(starts) THEN << >>
  ELSE IF starts[k] < p THEN FindIter(r, t, starts, k + 1, p)
  ELSE LET first == Paths(r, t, starts[k], NoGroups)[1]
       IN  << [s |-> starts[k], e |-> first.e, g |-> first.g] >>
           \o FindIter(r, t, starts, k + 1, first.e)

\* match.group(0) and match.group(n); None is the empty span NoSpan.
Group0(t, m) == SubSeq(t, m.s, m.e - 1)
GroupN(t, m, n) == SubSeq(t, m.g[n][1], m.g[n][2] - 1)
GroupIsNone(m, n) == m.g[n] = NoSpan

\* re.compile(r, re.IGNORECASE).finditer(s)
FindAll(r, s) ==
  LET t == Subject(s) IN FindIter(r, t, MatchStarts(r, t), 1, 1)

\* The literal string l is at position p of the text s, whatever the case.
LitAt(l, s, p) ==
  /\ p + Len(l) - 1 <= Len(s)
  /\ \A i \in 1..Len(l) : Lower(s[p + i - 1]) = Lower(l[i])

(***************************************************************************)
(* date_utils.py: vocabulary tables.                                       *)
(***************************************************************************)
\* _MONTHS_PATTERN, split at "|": the alternatives in their order.
MONTHS_PATTERN ==
  << Str("January"),
     Str("February"),
     Str("March"),
     Str("April"),
     Str("May"),
     Str("June"),
     Str("July"),
     Str("August"),
     Str("September"),
     Str("October"),
     Str("November"),
     Str("December"),
     Str("Jan"),
     Str("Feb"),
     Str("Mar"),
     Str("Apr"),
     Str("Jun"),
     Str("Jul"),
     Str("Aug"),
     Str("Sep"),
     Str("Oct"),
     Str("Nov"),
     Str("Dec") >>

\* _MONTH_MAP
MONTH_MAP ==
  << <<Str("january"), 1>>,
     <<Str("jan"), 1>>,
     <<Str("february"), 2>>,
     <<Str("feb"), 2>>,
     <<Str("march"), 3>>,
     <<Str("mar"), 3>>,
     <<Str("april"), 4>>,
     <<Str("apr"), 4>>,
     <<Str("may"), 5>>,
     <<Str("june"), 6>>,
     <<Str("jun"), 6>>,
     <<Str("july"), 7>>,
     <<Str("jul"), 7>>,
     <<Str("august"), 8>>,
     <<Str("aug"), 8>>,
     <<Str("september"), 9>>,
     <<Str("sep"), 9>>,
     <<Str("october"), 10>>,
     <<Str("oct"), 10>>,
     <<Str("november"), 11>>,
     <<Str("nov"), 11>>,
     <<Str("december"), 12>>,
     <<Str("dec"), 12>> >>

\* _WRITTEN_NUMBERS
WRITTEN_NUMBERS ==
  << <<Str("first"), 1>>,
     <<Str("second"), 2>>,
     <<Str("third"), 3>>,
     <<Str("fourth"), 4>>,
     <<Str("fifth"), 5>>,
     <<Str("sixth"), 6>>,
     <<Str("seventh"), 7>>,
     <<Str("eighth"), 8>>,
     <<Str("ninth"), 9>>,
     <<Str("tenth"), 10>>,
     <<Str("eleventh"), 11>>,
     <<Str("twelfth"), 12>>,
     <<Str("thirteenth"), 13>>,
     <<Str("fourteenth"), 14>>,
     <<Str("fifteenth"), 15>>,
     <<Str("sixteenth"), 16>>,
     <<Str("seventeenth"), 17>>,
     <<Str("eighteenth"), 18>>,
     <<Str("nineteenth"), 19>>,
     <<Str("twentieth"), 20>>,
     <<Str("twenty-first"), 21>>,
     <<Str("twenty-second"), 22>>,
     <<Str("twenty-third"), 23>>,
     <<Str("twenty-fourth"), 24>>,
     <<Str("twenty-fifth"), 25>>,
     <<Str("twenty-sixth"), 26>>,
     <<Str("twenty-seventh"), 27>>,
     <<Str("twenty-eighth"), 28>>,
     <<Str("twenty-ninth"), 29>>,
     <<Str("thirtieth"), 30>>,
     <<Str("thirty-first"), 31>> >>

\* dict lookup in a table of <<key, value>> pairs.
HasKey(tbl, k) == \E i \in 1..Len(tbl) : tbl[i][1] = k
Lookup(tbl, k) == tbl[CHOOSE i \in 1..Len(tbl) : tbl[i][1] = k][2]

(***************************************************************************)
(* Outcomes of a Python expression: a value, None, or a raised exception.  *)
(***************************************************************************)
Value(v) == [kind |-> "value", v |-> v]
None == [kind |-> "None"]
Raise(exc, msg) == [kind |-> "raise", exc |-> exc, msg |-> msg]

\* int(s) for a str s: the digit strings are the literals that the groups
\* of the patterns can hold; any other string raises ValueError.
RECURSIVE ToInt(_)
ToInt(s) ==
  IF Len(s) = 0 THEN 0
  ELSE 10 * ToInt(SubSeq(s, 1, Len(s) - 1)) + DigitVal(s[Len(s)])

int(s) ==
  IF Len(s) > 0 /\ \A i \in 1..Len(s) : IsDigit(s[i])
  THEN Value(ToInt(s))
  ELSE Raise("ValueError", "invalid literal for int() with base 10")

\* datetime.datetime(year, month, day): the proleptic Gregorian calendar,
\* years MINYEAR = 1 to MAXYEAR = 9999.
IsLeap(y) == y % 4 = 0 /\ (y % 100 # 0 \/ y % 400 = 0)

DaysInMonth(y, m) ==
  IF m = 2 THEN (IF IsLeap(y) THEN 29 ELSE 28)
  ELSE IF m \in {4, 6, 9, 11} THEN 30 ELSE 31

ValidDate(y, m, d) ==
  y \in 1..9999 /\ m \in 1..12 /\ d \in 1..DaysInMonth(y, m)

datetime(y, m, d) ==
  IF ValidDate(y, m, d) THEN Value([year |-> y, month |-> m, day |-> d])
  ELSE Raise("ValueError", "date value out of range")

\* datetime(y, m, d) whose arguments are outcomes, evaluated left to right.
datetime_of(y, m, d) ==
  IF y.kind = "raise" THEN y
  ELSE IF m.kind = "raise" THEN m
  ELSE IF d.kind = "raise" THEN d
  ELSE datetime(y.v, m.v, d.v)

\* re.split(r"[-/]", date_str)
RECURSIVE Split(_)
Split(s) ==
  IF \E i \in 1..Len(s) : s[i] \in Chars("-/")
  THEN LET i == CHOOSE i \in 1..Len(s) :
                  /\ s[i] \in Chars("-/")
                  /\ \A j \in 1..(i - 1) : s[j] \notin Chars("-/")
       IN  << SubSeq(s, 1, i - 1) >> \o Split(SubSeq(s, i + 1, Len(s)))
  ELSE << s >>

(***************************************************************************)
(* date_utils.py: the format classes.                                      *)
(***************************************************************************)
\* DateFormat.convert_month_to_number
convert_month_to_number(month_name) ==
  IF HasKey(MONTH_MAP, LowerStr(month_name))
  THEN Value(Lookup(MONTH_MAP, LowerStr(month_name)))
  ELSE Raise("ValueError", "Unknown month name")

Months == AnyOf(MONTHS_PATTERN)
Separator == SetOf(Chars("-/"))
CommaOrSpace == SetOf(Chars(",") \cup Whitespace)
OrdinalSuffix ==
  Opt(AnyOf(<< Str("st"), Str("nd"), Str("rd"), Str("th") >>))

\* The slash pattern with a year of two to four digits.
SlashDMYMDYFormat_pattern_short_year ==
  Cat(<< WordBoundary, Rep(Digit, 1, 2), Separator, Rep(Digit, 1, 2),
         Separator, Rep(Digit, 2, 4), WordBoundary,
         NotFollowedBy(Separator) >>)

\* r"\b\d{1,2}[-/]\d{1,2}[-/]\d{4}\b(?![-/])"
SlashDMYMDYFormat_pattern ==
  Cat(<< WordBoundary, Rep(Digit, 1, 2), Separator, Rep(Digit, 1, 2),
         Separator, Rep(Digit, 4, 4), WordBoundary,
         NotFollowedBy(Separator) >>)

\* A conversion that tries day first, then month first.
SlashDMYMDYFormat_day_first(t, m) ==
  LET parts == Split(Group0(t, m))
      dmy == datetime_of(int(parts[3]), int(parts[2]), int(parts[1]))
      mdy == datetime_of(int(parts[3]), int(parts[1]), int(parts[2]))
  IN  IF dmy.kind = "value" THEN dmy
      ELSE IF mdy.kind = "value" THEN mdy
      ELSE None

\* Month first (the American format), then day first (the European format),
\* then None.
SlashDMYMDYFormat_match_to_datetime(t, m) ==
  LET date_str == Group0(t, m)
      parts == Split(date_str)
  IN  IF Len(parts) # 3
      THEN Raise("ValueError", "Invalid slash date format")
      ELSE LET mdy == datetime_of(int(parts[3]), int(parts[1]), int(parts[2]))
               dmy == datetime_of(int(parts[3]), int(parts[2]), int(parts[1]))
           IN  IF mdy.kind = "raise" /\ mdy.exc \in {"ValueError", "IndexError"}
               THEN IF dmy.kind = "raise" /\ dmy.exc \in {"ValueError", "IndexError"}
                    THEN None
                    ELSE dmy
               ELSE mdy

\* r"\b\d{4}[-/]\d{1,2}[-/]\d{1,2}\b"
DashYMDFormat_pattern ==
  Cat(<< WordBoundary, Rep(Digit, 4, 4), Separator, Rep(Digit, 1, 2),
         Separator, Rep(Digit, 1, 2), WordBoundary >>)

DashYMDFormat_match_to_datetime(t, m) ==
  LET date_str == Group0(t, m)
      parts == Split(date_str)
  IN  IF Len(parts) # 3
      THEN Raise("ValueError", "Invalid dash date format")
      ELSE LET ymd == datetime_of(int(parts[1]), int(parts[2]), int(parts[3]))
           IN  IF ymd.kind = "raise" /\ ymd.exc \in {"ValueError", "IndexError"}
               THEN None
               ELSE ymd

\* rf"\b(\d{{1,2}})\s+({_MONTHS_PATTERN})[,\s]+(\d{{2,4}})\b"
DayMonthYearFormat_pattern ==
  Cat(<< WordBoundary, Group(1, Rep(Digit, 1, 2)), Many(Space, 1),
         Group(2, Months), Many(CommaOrSpace, 1),
         Group(3, Rep(Digit, 2, 4)), WordBoundary >>)

\* A conversion that reads a two-digit year as a year of the 1900s.
DayMonthYearFormat_with_century(t, m) ==
  LET day == GroupN(t, m, 1)
      year == int(GroupN(t, m, 3))
      month == convert_month_to_number(GroupN(t, m, 2))
  IN  IF month.kind = "raise" THEN month
      ELSE datetime_of(IF year.kind = "value" /\ year.v < 100
                       THEN Value(1900 + year.v) ELSE year,
                       month, int(day))

DayMonthYearFormat_match_to_datetime(t, m) ==
  LET day == GroupN(t, m, 1)
      month_str == GroupN(t, m, 2)
      year == GroupN(t, m, 3)
      month == convert_month_to_number(month_str)
  IN  IF month.kind = "raise" THEN month
      ELSE datetime_of(int(year), month, int(day))

\* rf"\b({_MONTHS_PATTERN})\s+(\d{{1,2}})(?:st|nd|rd|th)?[,\s]+(\d{{2,4}})\b"
MonthDayYearFormat_pattern ==
  Cat(<< WordBoundary, Group(1, Months), Many(Space, 1),
         Group(2, Rep(Digit, 1, 2)), OrdinalSuffix, Many(CommaOrSpace, 1),
         Group(3, Rep(Digit, 2, 4)), WordBoundary >>)

MonthDayYearFormat_match_to_datetime(t, m) ==
  LET month_str == GroupN(t, m, 1)
      day == GroupN(t, m, 2)
      year == GroupN(t, m, 3)
      month == convert_month_to_number(month_str)
  IN  IF month.kind = "raise" THEN month
      ELSE datetime_of(int(year), month, int(day))

\* rf"\b({_MONTHS_PATTERN})\s+(\d{{2, 4}})\b": the f-string yields
\* "\d{2, 4}", and re reads a brace expression with a space in it as literal
\* text: one digit followed by the seven characters "{2, 4}".
MonthYearFormat_pattern ==
  Cat(<< WordBoundary, Group(1, Months), Many(Space, 1),
         Group(2, Cat(<< Digit, Lit(Str("{2, 4}")) >>)),
         WordBoundary >>)

MonthYearFormat_match_to_datetime(t, m) ==
  LET month_str == GroupN(t, m, 1)
      year == GroupN(t, m, 2)
      month == convert_month_to_number(month_str)
  IN  IF month.kind = "raise" THEN month
      ELSE datetime_of(int(year), month, Value(1))

\* rf"\b({_MONTHS_PATTERN})\s+the\s+(?:(\d{{1,2}})(?:st|nd|rd|th)?|([a-z]+))[,\s]+(\d{{2,4}})\b"
WrittenDateFormat_pattern ==
  Cat(<< WordBoundary, Group(1, Months), Many(Space, 1),
         Lit(Str("the")), Many(Space, 1),
         Alt(<< Cat(<< Group(2, Rep(Digit, 1, 2)), OrdinalSuffix >>),
                Group(3, Many(SetOf(LowerLetters), 1)) >>),
         Many(CommaOrSpace, 1), Group(4, Rep(Digit, 2, 4)), WordBoundary >>)

WrittenDateFormat_match_to_datetime(t, m) ==
  LET month_str == GroupN(t, m, 1)
      day == IF ~GroupIsNone(m, 2) THEN int(GroupN(t, m, 2))
             ELSE IF GroupIsNone(m, 3)
                  THEN Raise("AttributeError", "'NoneType' object has no attribute 'lower'")
                  ELSE LET written_day == LowerStr(GroupN(t, m, 3))
                       IN  IF HasKey(WRITTEN_NUMBERS, written_day)
                           THEN Value(Lookup(WRITTEN_NUMBERS, written_day))
                           ELSE Raise("ValueError", "Unsupported written day number")
      year == IF day.kind = "raise" THEN day ELSE int(GroupN(t, m, 4))
      month == IF year.kind = "raise" THEN year
               ELSE convert_month_to_number(month_str)
  IN  datetime_of(year, month, day)

\* r"{{.*\|(\d{4})\|(\d{1,2})\|(\d{1,2})"
WikiDateFormat_pattern ==
  Cat(<< Lit(Str("{{")), Many(Dot, 0), Chr("|"), Group(1, Rep(Digit, 4, 4)),
         Chr("|"), Group(2, Rep(Digit, 1, 2)), Chr("|"),
         Group(3, Rep(Digit, 1, 2)) >>)

WikiDateFormat_match_to_datetime(t, m) ==
  LET year == GroupN(t, m, 1)
      month == GroupN(t, m, 2)
      day == GroupN(t, m, 3)
  IN  datetime_of(int(year), int(month), int(day))

\* _DATE_FORMATS: the registered format classes, in registration order.
DATE_FORMATS ==
  << "SlashDMYMDYFormat", "DashYMDFormat", "DayMonthYearFormat",
     "MonthDayYearFormat", "MonthYearFormat", "WrittenDateFormat",
     "WikiDateFormat" >>

\* cls.name
name(cls) ==
  CASE cls = "SlashDMYMDYFormat" -> "SLASH_DMY_MDY"
    [] cls = "DashYMDFormat" -> "DASH_YMD"
    [] cls = "DayMonthYearFormat" -> "DAY_MONTH_YEAR"
    [] cls = "MonthDayYearFormat" -> "MONTH_DAY_YEAR"
    [] cls = "MonthYearFormat" -> "MONTH_YEAR"
    [] cls = "WrittenDateFormat" -> "WRITTEN_DATE"
    [] cls = "WikiDateFormat" -> "WIKI_BIRTH_DATE"

\* cls.pattern
pattern(cls) ==
  CASE cls = "SlashDMYMDYFormat" -> SlashDMYMDYFormat_pattern
    [] cls = "DashYMDFormat" -> DashYMDFormat_pattern
    [] cls = "DayMonthYearFormat" -> DayMonthYearFormat_pattern
    [] cls = "MonthDayYearFormat" -> MonthDayYearFormat_pattern
    [] cls = "MonthYearFormat" -> MonthYearFormat_pattern
    [] cls = "WrittenDateFormat" -> WrittenDateFormat_pattern
    [] cls = "WikiDateFormat" -> WikiDateFormat_pattern

\* cls.match_to_datetime(match)
match_to_datetime(cls, t, m) ==
  CASE cls = "SlashDMYMDYFormat" -> SlashDMYMDYFormat_match_to_datetime(t, m)
    [] cls = "DashYMDFormat" -> DashYMDFormat_match_to_datetime(t, m)
    [] cls = "DayMonthYearFormat" -> DayMonthYearFormat_match_to_datetime(t, m)
    [] cls = "MonthDayYearFormat" -> MonthDayYearFormat_match_to_datetime(t, m)
    [] cls = "MonthYearFormat" -> MonthYearFormat_match_to_datetime(t, m)
    [] cls = "WrittenDateFormat" -> WrittenDateFormat_match_to_datetime(t, m)
    [] cls = "WikiDateFormat" -> WikiDateFormat_match_to_datetime(t, m)

\* cls.pattern.finditer(text)
finditer(cls, t) == FindAll(pattern(cls), t)

\* An except clause that names another exception class.
list_dates_catches_other(exc) == exc = "IndexError"

\* The except clause of list_dates.
list_dates_catches(exc) == exc = "ValueError"

\* DateFormat.list_dates: the loop over the matches ms from the k-th on.
\* An entry keeps match.start() in the field start, which the source's dict
\* does not hold; it is used to state properties about text positions only.
RECURSIVE list_dates_loop(_, _, _, _, _, _)
list_dates_loop(cls, t, ms, k, results, errors) ==
  IF k > Len(ms)
  THEN [raised |-> "", results |-> results, errors |-> errors]
  ELSE LET match == ms[k]
           dt_obj == match_to_datetime(cls, t, match)
       IN  CASE dt_obj.kind = "value" ->
                  list_dates_loop(cls, t, ms, k + 1,
                    Append(results, [date_str |-> Group0(t, match),
                                     format |-> name(cls),
                                     datetime |-> dt_obj.v,
                                     start |-> match.s]),
                    errors)
             [] dt_obj.kind = "None" ->
                  list_dates_loop(cls, t, ms, k + 1, results, errors)
             [] dt_obj.kind = "raise" /\ list_dates_catches(dt_obj.exc) ->
                  list_dates_loop(cls, t, ms, k + 1, results,
                    Append(errors, [date_str |-> Group0(t, match),
                                    err |-> dt_obj.msg,
                                    format |-> name(cls),
                                    start |-> match.s]))
             [] OTHER ->
                  [raised |-> dt_obj.exc, results |-> results, errors |-> errors]

list_dates(cls, t) == list_dates_loop(cls, t, finditer(cls, t), 1, << >>, << >>)

(***************************************************************************)
(* The input texts.                                                        *)
(***************************************************************************)
\* Pieces of text in the spellings the formats are written for; the last
\* one holds characters beyond ASCII.
Fragments ==
  << Str("3/4/1810 "),
     Str("3/5/99 "),
     Str("13/4/1810 "),
     Str("13/13/2020 "),
     Str("2020-13-45 "),
     Str("2020-10-10 "),
     Str("12 July 100 BC "),
     Str("5 March 12, 99 "),
     Str("March 5th, 1810 "),
     Str("March the third, 1810 "),
     Str("March the twenty-first, 1810 "),
     Str("March the foo, 1810 "),
     Str("March the 5th, 99 "),
     Str("March 1810 "),
     Str("March 1{2, 4}x "),
     Str("{{Birth date|1810|03|05}}"),
     Str("{{Death date|1880|01|02}}"),
     Str("\n"),
     \* e-acute before 3/4/1810, then 3/4/1810 in Arabic-Indic digits, then
     \* August with a long s, an em space and 5, 1810
     <<233>> \o Str("3/4/1810 ")
       \o <<1635, 47, 1636, 47, 1633, 1640, 1633, 1632, 32>>
       \o Str("Augu") \o <<383>> \o Str("t") \o <<8195>> \o Str("5, 1810 ") >>

RECURSIVE Concat(_, _)
Concat(fs, k) ==
  IF k > Len(fs) THEN << >> ELSE Fragments[fs[k]] \o Concat(fs, k + 1)

Texts ==
  { Concat(fs, 1) :
      fs \in UNION { [1..n -> 1..Len(Fragments)] : n \in 0..MaxFrags } }

(***************************************************************************)
(* State: one call of extract_dates(text).                                 *)
(***************************************************************************)
VARIABLES
  text,         \* the argument of extract_dates
  pc,           \* "loop": in the for loop; "returned"; "raised"
  fi,           \* index in DATE_FORMATS of the next date_format of the loop
  all_results,  \* extract_dates: all_results
  all_errors,   \* extract_dates: all_errors
  exception     \* the exception that left extract_dates, "" if none

vars == <<text, pc, fi, all_results, all_errors, exception>>

\* State of several calls of extract_dates that run at the same time.
VARIABLES
  registry,     \* _DATE_FORMATS, the module-level list every call iterates
  calls         \* calls[c]: the local variables of the call c

concVars == <<registry, calls>>

\* No concurrent call is running.
ConcIdle == registry = DATE_FORMATS /\ calls = << >>

\* State of one use of a date range: DateRange.from_parsed_string(date_str),
\* to_string() of the range it gives, and from_parsed_string of that string.
VARIABLES
  date_str,     \* the argument of DateRange.from_parsed_string
  rpc,          \* "call", "constructed", "failed", "rendered", "reparsed"
  parsed,       \* the outcome of from_parsed_string(date_str)
  string,       \* parsed.to_string()
  reparsed      \* the outcome of from_parsed_string(string)

rangeVars == <<date_str, rpc, parsed, string, reparsed>>

\* State of one iteration of ExtractorBase.iter_page_batches over a dump,
\* which runs iter_pages inside.
VARIABLES
  dump,              \* the pages _iter_pages yields, in dump order
  batch_size,        \* argument of iter_page_batches
  page_limit,        \* argument page_limit: None, or Value(n)
  page_filter,       \* argument page_filter: None, or Value(S) with S the
                     \* set of the pages for which the function returns True
  pos,               \* iter_pages: index in dump of the next page of the loop
  page_count,        \* iter_pages: page_count
  yielded,           \* the pages iter_pages has yielded so far
  batch,             \* iter_page_batches: batch
  batches_returned,  \* iter_page_batches: batches_returned
  batches,           \* the batches iter_page_batches has yielded so far
  bpc                \* "iterating", "exhausted", "done"

pagesVars == <<dump, batch_size, page_limit, page_filter, pos, page_count,
               yielded, batch, batches_returned, batches, bpc>>

\* State of one use of the index of WikiAvroDumpExtractor: index_pages, then
\* iter_pages_by_title(titles) or get_page_by_title(t).
VARIABLES
  file,         \* the Avro file: its blocks, each the titles of its records
  db,           \* the index: title -> position in the file
  method,       \* the method called after index_pages
  titles,       \* the argument of iter_pages_by_title, the one title of
                \* get_page_by_title
  ti,           \* index in titles of the next title of the loop
  reader,       \* the fastavro reader: position of its file object, records
                \* of the current block not yet returned, generator state
  returned,     \* the pages returned so far
  raised,       \* the exception that ended the lookups, None if none
  xpc           \* "start", "indexed", "reading", "done", "raised"

indexVars ==
  <<file, db, method, titles, ti, reader, returned, raised, xpc>>

\* State of one use of the infobox functions of page_utils on a page text:
\* extract_infobox_category(page_text), then parse_infobox(page_text).
VARIABLES
  page_text,         \* the text of the page
  broad_category,    \* extract_infobox_category: its local broad_category
                     \* when it ends, None if it was never assigned
  infobox_category,  \* what extract_infobox_category returned
  infobox_end,       \* parse_infobox: what find_matching_braces returned,
                     \* None if it was not called
  infobox_text,      \* parse_infobox: its local infobox_text when it ends,
                     \* None if it was never assigned
  infobox,           \* what parse_infobox returned
  ipc                \* "start", "categorised", "parsed"

infoVars ==
  <<page_text, broad_category, infobox_category, infobox_end, infobox_text,
    infobox, ipc>>

\* State of one call of process_page_batches_in_parallel.
VARIABLES
  pool_batches,      \* the batches that iter_page_batches yields
  ordered_results,   \* the argument ordered_results
  num_workers,       \* the argument num_workers
  taken,             \* the number of tasks the workers took from the pool
  working,           \* worker -> the index of the task it took and whether
                     \* it has called process_fn on it, None if idle
  process_fn_calls,  \* the arguments of the calls of process_fn so far
  outqueue,          \* the indices of the tasks whose result a worker has
                     \* put and the pool has not handled, oldest first
  cache,             \* imap: the results that wait for an earlier one
  ready,             \* the results ready for the consumer, oldest first
  batch_results,     \* the results yielded so far
  qpc                \* "running", "done"

poolVars ==
  <<pool_batches, ordered_results, num_workers, taken, working,
    process_fn_calls, outqueue, cache, ready, batch_results, qpc>>

\* State of one call of Section.from_page_section_texts(texts).
VARIABLES
  section_texts,     \* the argument texts
  si,                \* index in texts of the next text of the loop
  stack,             \* the local stack: indices in texts of its sections
  roots,             \* the local roots: indices in texts of its sections
  parent,            \* section -> its parent: an index in texts, "Root" for
                     \* the synthetic section, None
  children,          \* section -> its children, the entry "Root" being the
                     \* children of the synthetic section
  returned_section,  \* the section returned, None before the return
  spc                \* "looping", "returned"

sectionVars ==
  <<section_texts, si, stack, roots, parent, children, returned_section, spc>>

\* No call of extract_dates is running.
DatesIdle ==
  /\ text = << >>
  /\ pc = "idle"
  /\ fi = 0
  /\ all_results = << >>
  /\ all_errors = << >>
  /\ exception = ""

\* No date range is in use.
RangeIdle ==
  /\ date_str = << >>
  /\ rpc = "idle"
  /\ parsed = None
  /\ string = << >>
  /\ reparsed = None

\* No iteration over a dump is running.
PagesIdle ==
  /\ dump = << >>
  /\ batch_size = 0
  /\ page_limit = None
  /\ page_filter = None
  /\ pos = 0
  /\ page_count = 0
  /\ yielded = << >>
  /\ batch = << >>
  /\ batches_returned = 0
  /\ batches = << >>
  /\ bpc = "idle"

\* No index is in use.
IndexIdle ==
  /\ file = << >>
  /\ db = << >>
  /\ method = ""
  /\ titles = << >>
  /\ ti = 0
  /\ reader = None
  /\ returned = << >>
  /\ raised = None
  /\ xpc = "idle"

\* No infobox function is in use.
InfoIdle ==
  /\ page_text = << >>
  /\ broad_category = None
  /\ infobox_category = None
  /\ infobox_end = None
  /\ infobox_text = None
  /\ infobox = None
  /\ ipc = "idle"

\* No pool is in use.
PoolIdle ==
  /\ pool_batches = << >>
  /\ ordered_results = FALSE
  /\ num_workers = 0
  /\ taken = 0
  /\ working = << >>
  /\ process_fn_calls = << >>
  /\ outqueue = << >>
  /\ cache = {}
  /\ ready = << >>
  /\ batch_results = << >>
  /\ qpc = "idle"

\* No tree of sections is being built.
SectionIdle ==
  /\ section_texts = << >>
  /\ si = 0
  /\ stack = << >>
  /\ roots = << >>
  /\ parent = << >>
  /\ children = << >>
  /\ returned_section = None
  /\ spc = "idle"

\* The variables that a single call of extract_dates leaves alone.
outsideDates ==
  <<concVars, rangeVars, pagesVars, indexVars, infoVars, poolVars, sectionVars>>

\* The variables that concurrent calls of extract_dates leave alone.
outsideConc ==
  <<vars, rangeVars, pagesVars, indexVars, infoVars, poolVars, sectionVars>>

\* The variables that the use of a date range leaves alone.
outsideRange ==
  <<vars, concVars, pagesVars, indexVars, infoVars, poolVars, sectionVars>>

\* The variables that an iteration over a dump leaves alone.
outsidePages ==
  <<vars, concVars, rangeVars, indexVars, infoVars, poolVars, sectionVars>>

\* The variables that the use of the index leaves alone.
outsideIndex ==
  <<vars, concVars, rangeVars, pagesVars, infoVars, poolVars, sectionVars>>

\* The variables that the infobox functions leave alone.
outsideInfo ==
  <<vars, concVars, rangeVars, pagesVars, indexVars, poolVars, sectionVars>>

\* The variables that a pool leaves alone.
outsidePool ==
  <<vars, concVars, rangeVars, pagesVars, indexVars, infoVars, sectionVars>>

\* The variables that the building of a tree of sections leaves alone.
outsideSection ==
  <<vars, concVars, rangeVars, pagesVars, indexVars, infoVars, poolVars>>

Init ==
  /\ text \in Texts
  /\ pc = "loop"
  /\ fi = 1
  /\ all_results = << >>
  /\ all_errors = << >>
  /\ exception = ""
  /\ ConcIdle
  /\ RangeIdle
  /\ PagesIdle
  /\ IndexIdle
  /\ InfoIdle
  /\ PoolIdle
  /\ SectionIdle

\* An extend that puts the new items first.
extend_in_front(list, items) == items \o list

\* The entries a and b cover a common character of the text.
Overlap(a, b) ==
  /\ a.start < b.start + Len(b.date_str)
  /\ b.start < a.start + Len(a.date_str)

\* An extend that drops the items overlapping an entry already in the list.
extend_without_overlaps(list, items) ==
  list \o SelectSeq(items, LAMBDA x : \A i \in 1..Len(list) : ~Overlap(list[i], x))

\* list.extend
extend(list, items) == list \o items

\* One iteration of "for date_format in _DATE_FORMATS" of extract_dates.
ExtractDatesLoop ==
  /\ pc = "loop"
  /\ fi <= Len(DATE_FORMATS)
  /\ \E r \in {list_dates(DATE_FORMATS[fi], text)} :
       IF r.raised # ""
       THEN /\ pc' = "raised"
            /\ exception' = r.raised
            /\ UNCHANGED <<fi, all_results, all_errors>>
       ELSE /\ all_results' = extend(all_results, r.results)
            /\ all_errors' = extend(all_errors, r.errors)
            /\ fi' = fi + 1
            /\ UNCHANGED <<pc, exception>>
  /\ UNCHANGED <<text, outsideDates>>

\* "return all_results, all_errors" of extract_dates.
ExtractDatesReturn ==
  /\ pc = "loop"
  /\ fi > Len(DATE_FORMATS)
  /\ pc' = "returned"
  /\ UNCHANGED <<text, fi, all_results, all_errors, exception, outsideDates>>

Next == ExtractDatesLoop \/ ExtractDatesReturn

Spec == Init /\ [][Next]_vars

(***************************************************************************)
(* Several calls of extract_dates at the same time.  The calls share the   *)
(* module-level list _DATE_FORMATS, whose classes hold the compiled        *)
(* patterns and read the vocabulary tables; every other name of            *)
(* extract_dates and list_dates is a local variable of one call.  A step   *)
(* of a call is one iteration of its for loop; the steps of the calls      *)
(* interleave in any order.                                                *)
(***************************************************************************)
\* extract_dates(text) from the k-th format on, run alone.
RECURSIVE extract_dates_from(_, _, _, _)
extract_dates_from(t, k, results, errors) ==
  IF k > Len(DATE_FORMATS)
  THEN [raised |-> "", all_results |-> results, all_errors |-> errors]
  ELSE LET r == list_dates(DATE_FORMATS[k], t)
       IN  IF r.raised # ""
           THEN [raised |-> r.raised, all_results |-> results,
                 all_errors |-> errors]
           ELSE extract_dates_from(t, k + 1, extend(results, r.results),
                                   extend(errors, r.errors))

\* extract_dates(text), run alone.
extract_dates(t) == extract_dates_from(t, 1, << >>, << >>)

\* The fragments of the texts given to the concurrent calls: no date; two
\* dates of two formats; a parse error; a written date and a template.
ConcurrentFragments == { << >>, <<1, 9>>, <<12>>, <<10, 16>> }

ConcurrentTexts == { Concat(fs, 1) : fs \in ConcurrentFragments }

Calls == 1..NumCalls

\* The local variables of a call at its first line.
NewCall(t) ==
  [text |-> t, pc |-> "loop", fi |-> 1, all_results |-> << >>,
   all_errors |-> << >>, exception |-> ""]

\* The calls differ by their texts only, so that a permutation of the calls
\* gives nothing new: the texts are given to the calls by increasing length
\* (no two texts of ConcurrentTexts have the same length).
ConcInit ==
  /\ registry = DATE_FORMATS
  /\ calls \in [Calls -> {NewCall(t) : t \in ConcurrentTexts}]
  /\ \A c \in Calls, d \in Calls :
       c < d => Len(calls[c].text) <= Len(calls[d].text)
  /\ DatesIdle
  /\ RangeIdle
  /\ PagesIdle
  /\ IndexIdle
  /\ InfoIdle
  /\ PoolIdle
  /\ SectionIdle

\* All calls write their results to the local variables of the first call.
frame_of_first_call(c) == 1

\* The local variables a call writes: "all_results = []" and
\* "all_errors = []" bind new lists in the frame of that call.
frame(c) == c

\* One iteration of "for date_format in _DATE_FORMATS" of the call c.
CallLoop(c) ==
  /\ calls[c].pc = "loop"
  /\ calls[c].fi <= Len(registry)
  /\ \E r \in {list_dates(registry[calls[c].fi], calls[c].text)} :
       IF r.raised # ""
       THEN calls' = [calls EXCEPT ![frame(c)].pc = "raised",
                                   ![frame(c)].exception = r.raised]
       ELSE calls' =
              [calls EXCEPT
                 ![frame(c)].all_results = extend(@, r.results),
                 ![frame(c)].all_errors = extend(@, r.errors),
                 ![frame(c)].fi = @ + 1]
  /\ UNCHANGED <<registry, outsideConc>>

\* "return all_results, all_errors" of the call c.
CallReturn(c) ==
  /\ calls[c].pc = "loop"
  /\ calls[c].fi > Len(registry)
  /\ calls' = [calls EXCEPT ![frame(c)].pc = "returned"]
  /\ UNCHANGED <<registry, outsideConc>>

ConcLoop == \E c \in Calls : CallLoop(c)

ConcReturn == \E c \in Calls : CallReturn(c)

ConcNext == ConcLoop \/ ConcReturn

ConcSpec == ConcInit /\ [][ConcNext]_concVars

(***************************************************************************)
(* Part 2: the date range model and the range parser.  The module          *)
(* date_utils.py under src/ has no class DateRange; the tests import it    *)
(* (test_date_utils.py).  The definitions of this part follow sections 3,  *)
(* 4.3 and 4.4 of the specification and the literals of                    *)
(* test_parse_string_to_date_range.                                        *)
(***************************************************************************)
\* A CalendarDate flattened to a day.
CalendarDate(y, m, d) == [year |-> y, month |-> m, day |-> d]

\* Calendar validity of a flattened date; the year is a signed integer.
ValidCalendarDate(y, m, d) == m \in 1..12 /\ d \in 1..DaysInMonth(y, m)

\* The date a is chronologically after the date b; a more negative year is
\* earlier.
IsAfter(a, b) ==
  \/ a.year > b.year
  \/ a.year = b.year /\ a.month > b.month
  \/ a.year = b.year /\ a.month = b.month /\ a.day > b.day

\* A constructor that puts a reversed pair in order.
DateRange_swapping(start, end, start_approximate, end_approximate) ==
  IF IsAfter(start, end)
  THEN Value([start |-> end, end |-> start,
              start_approximate |-> end_approximate,
              end_approximate |-> start_approximate])
  ELSE Value([start |-> start, end |-> end,
              start_approximate |-> start_approximate,
              end_approximate |-> end_approximate])

\* DateRange: start not after end, or the construction fails.
DateRange(start, end, start_approximate, end_approximate) ==
  IF IsAfter(start, end)
  THEN Raise("InvertedRangeError", "start is after end")
  ELSE Value([start |-> start, end |-> end,
              start_approximate |-> start_approximate,
              end_approximate |-> end_approximate])

\* The era markers, the longer first.
EraMarkers == << Str(" BCE"), Str(" BC") >>

\* The length of the era marker that starts at position p of s, 0 if none.
EraAt(s, p) ==
  IF \E i \in 1..Len(EraMarkers) :
       /\ LitAt(EraMarkers[i], s, p)
       /\ ~IsWordChar(At(s, p + Len(EraMarkers[i])))
  THEN Len(EraMarkers[CHOOSE i \in 1..Len(EraMarkers) :
         /\ LitAt(EraMarkers[i], s, p)
         /\ ~IsWordChar(At(s, p + Len(EraMarkers[i])))
         /\ \A j \in 1..(i - 1) :
              ~( /\ LitAt(EraMarkers[j], s, p)
                 /\ ~IsWordChar(At(s, p + Len(EraMarkers[j]))) )])
  ELSE 0

\* The span has an era marker.
HasEra(s) == \E p \in 1..Len(s) : EraAt(s, p) > 0

\* The span from position p on without its era markers.
RECURSIVE StripEra(_, _)
StripEra(s, p) ==
  IF p > Len(s) THEN << >>
  ELSE IF EraAt(s, p) > 0 THEN StripEra(s, p + EraAt(s, p))
  ELSE << s[p] >> \o StripEra(s, p + 1)

\* The range separators written between two sub-expressions.
RangeSeparators == << Str(" - "), Str(" to ") >>

\* The separator of RangeSeparators that starts at position p of s, 0 if
\* none.
SeparatorAt(s, p) ==
  IF \E i \in 1..Len(RangeSeparators) : LitAt(RangeSeparators[i], s, p)
  THEN CHOOSE i \in 1..Len(RangeSeparators) :
         LitAt(RangeSeparators[i], s, p)
  ELSE 0

\* The position of the first range separator of s, 0 if none.
FirstSeparator(s) ==
  IF \E p \in 1..Len(s) : SeparatorAt(s, p) > 0
  THEN CHOOSE p \in 1..Len(s) :
         /\ SeparatorAt(s, p) > 0
         /\ \A q \in 1..(p - 1) : SeparatorAt(s, q) = 0
  ELSE 0

\* A year-like token: digits.  A year before the era is written with an era
\* marker (step 1); no step of the parser reads a sign before the digits.
YearDigits == Many(Digit, 1)

\* "Y", "Ys", "Y/M", "Y/M/D" and "Y/Y" or "Y-Y": a year, a decade, a month,
\* a day, and two year-like tokens around "/" or "-".  A token of one or two
\* digits after the year is a month; a token of three digits or more is a
\* year.
YearSpelling == Group(1, YearDigits)
DecadeSpelling == Cat(<< Group(1, YearDigits), Chr("s") >>)
YearMonthSpelling ==
  Cat(<< Group(1, YearDigits), Chr("/"), Group(2, Rep(Digit, 1, 2)) >>)
YearMonthDaySpelling ==
  Cat(<< Group(1, YearDigits), Chr("/"), Group(2, Rep(Digit, 1, 2)),
         Chr("/"), Group(3, Rep(Digit, 1, 2)) >>)
YearRangeSpelling ==
  Cat(<< Group(1, YearDigits), Separator, Group(2, Many(Digit, 3)) >>)

\* The matches of the pattern r that cover the whole string s.
FullMatch(r, s) ==
  SelectSeq(Paths(r, Subject(s), 1, NoGroups), LAMBDA q : q.e = Len(s) + 1)

\* The integer a year token writes; bc: the span had an era marker, which
\* negates every year of the span.
YearOf(tok, bc) == IF bc THEN 0 - ToInt(tok) ELSE ToInt(tok)

\* A flattening that marks no boundary approximate.
Flattened_never_approximate(start, end, approximate) ==
  IF /\ ValidCalendarDate(start.year, start.month, start.day)
     /\ ValidCalendarDate(end.year, end.month, end.day)
  THEN DateRange(start, end, FALSE, FALSE)
  ELSE Raise("MalformedDateSpanError", "not a calendar date")

\* A sub-range from its two flattened boundaries, each checked against the
\* calendar.
Flattened(start, end, approximate) ==
  IF /\ ValidCalendarDate(start.year, start.month, start.day)
     /\ ValidCalendarDate(end.year, end.month, end.day)
  THEN DateRange(start, end, approximate, approximate)
  ELSE Raise("MalformedDateSpanError", "not a calendar date")

\* One sub-expression, with no era marker and no range separator in it,
\* widened into a range according to its precision: a year gives January 1
\* to December 31, approximate; a month gives day 1 to the last day,
\* approximate; a day is exact; a decade gives its ten years, approximate.
ParseSide(s, bc) ==
  LET ymd == FullMatch(YearMonthDaySpelling, s)
      ym == FullMatch(YearMonthSpelling, s)
      yy == FullMatch(YearRangeSpelling, s)
      dec == FullMatch(DecadeSpelling, s)
      yo == FullMatch(YearSpelling, s)
  IN  CASE Len(ymd) > 0 ->
             LET y == YearOf(GroupN(s, ymd[1], 1), bc)
                 mo == ToInt(GroupN(s, ymd[1], 2))
                 d == ToInt(GroupN(s, ymd[1], 3))
             IN  Flattened(CalendarDate(y, mo, d), CalendarDate(y, mo, d),
                           FALSE)
        [] Len(ymd) = 0 /\ Len(ym) > 0 ->
             LET y == YearOf(GroupN(s, ym[1], 1), bc)
                 mo == ToInt(GroupN(s, ym[1], 2))
             IN  IF mo \in 1..12
                 THEN Flattened(CalendarDate(y, mo, 1),
                                CalendarDate(y, mo, DaysInMonth(y, mo)), TRUE)
                 ELSE Raise("MalformedDateSpanError", "not a calendar date")
        [] Len(ymd) = 0 /\ Len(ym) = 0 /\ Len(yy) > 0 ->
             LET y1 == YearOf(GroupN(s, yy[1], 1), bc)
                 y2 == YearOf(GroupN(s, yy[1], 2), bc)
             IN  Flattened(CalendarDate(y1, 1, 1), CalendarDate(y2, 12, 31),
                           TRUE)
        [] Len(ymd) = 0 /\ Len(ym) = 0 /\ Len(yy) = 0 /\ Len(dec) > 0 ->
             LET n == ToInt(GroupN(s, dec[1], 1))
                 lo == (n \div 10) * 10
                 first == IF bc THEN 0 - (lo + 9) ELSE lo
                 last == IF bc THEN 0 - lo ELSE lo + 9
             IN  Flattened(CalendarDate(first, 1, 1),
                           CalendarDate(last, 12, 31), TRUE)
        [] Len(ymd) = 0 /\ Len(ym) = 0 /\ Len(yy) = 0 /\ Len(dec) = 0
             /\ Len(yo) > 0 ->
             LET y == YearOf(GroupN(s, yo[1], 1), bc)
             IN  Flattened(CalendarDate(y, 1, 1), CalendarDate(y, 12, 31),
                           TRUE)
        [] OTHER -> Raise("MalformedDateSpanError", "no recognizable year")

\* A parser that marks both boundaries approximate when one side is.
from_parsed_string_joint_flags(s) ==
  LET bc == HasEra(s)
      span == StripEra(s, 1)
      p == FirstSeparator(span)
  IN  IF p = 0 THEN ParseSide(span, bc)
      ELSE LET sep == RangeSeparators[SeparatorAt(span, p)]
               left == ParseSide(SubSeq(span, 1, p - 1), bc)
               right == ParseSide(SubSeq(span, p + Len(sep), Len(span)), bc)
           IN  IF left.kind = "raise" THEN left
               ELSE IF right.kind = "raise" THEN right
               ELSE DateRange(left.v.start, right.v.end,
                              left.v.start_approximate
                                \/ right.v.end_approximate,
                              left.v.start_approximate
                                \/ right.v.end_approximate)

\* DateRange.from_parsed_string: the era marker, then the range separator,
\* then each side on its own; the range keeps the start and the flag of the
\* left side and the end and the flag of the right side.
from_parsed_string(s) ==
  LET bc == HasEra(s)
      span == StripEra(s, 1)
      p == FirstSeparator(span)
  IN  IF p = 0 THEN ParseSide(span, bc)
      ELSE LET sep == RangeSeparators[SeparatorAt(span, p)]
               left == ParseSide(SubSeq(span, 1, p - 1), bc)
               right == ParseSide(SubSeq(span, p + Len(sep), Len(span)), bc)
           IN  IF left.kind = "raise" THEN left
               ELSE IF right.kind = "raise" THEN right
               ELSE DateRange(left.v.start, right.v.end,
                              left.v.start_approximate,
                              right.v.end_approximate)

DigitChars == Str("0123456789")

\* The decimal digits of the natural number n.
RECURSIVE Decimal(_)
Decimal(n) ==
  IF n < 10 THEN << DigitChars[n + 1] >>
  ELSE Decimal(n \div 10) \o << DigitChars[(n % 10) + 1] >>

\* A number written with two digits.
TwoDigits(n) == IF n < 10 THEN Str("0") \o Decimal(n) ELSE Decimal(n)

\* A date text with the day before the month.
DateString_day_first(d) ==
  (IF d.year < 0 THEN Str("-") \o Decimal(0 - d.year) ELSE Decimal(d.year))
    \o Str("/") \o TwoDigits(d.day) \o Str("/") \o TwoDigits(d.month)

\* A flattened date as text: "1810/03/05", and "-55/03/05" before the era.
DateString(d) ==
  (IF d.year < 0 THEN Str("-") \o Decimal(0 - d.year) ELSE Decimal(d.year))
    \o Str("/") \o TwoDigits(d.month) \o Str("/") \o TwoDigits(d.day)

\* DateRange.to_string: "start - end", an approximate boundary after "~".
to_string(r) ==
  (IF r.start_approximate THEN Str("~") ELSE << >>) \o DateString(r.start)
    \o Str(" - ")
    \o (IF r.end_approximate THEN Str("~") ELSE << >>) \o DateString(r.end)

\* Sub-expressions in the spellings of the tests: years, months, days, a
\* pair of years, decades, years before the era, a day and a month that are
\* not in the calendar, a word, and the empty string.
RangeSides ==
  << Str("1810"),
     Str("1812"),
     Str("1810/03"),
     Str("1812/05"),
     Str("1810/03/05"),
     Str("1812/05/07"),
     Str("1810/1812"),
     Str("1810-1812"),
     Str("1611/1612"),
     Str("1615/1617"),
     Str("1930s"),
     Str("1940s"),
     Str("55 BC"),
     Str("52 BC"),
     Str("55 BC/03"),
     Str("55 BC/03/05"),
     Str("52 BC/05/07"),
     Str("99/03/05"),
     Str("1810/02/30"),
     Str("1810/13"),
     Str("soon"),
     << >> >>

\* The arguments of from_parsed_string: one sub-expression, or two around a
\* range separator.
RangeInputs ==
  { RangeSides[i] : i \in 1..Len(RangeSides) }
    \cup { RangeSides[i] \o RangeSeparators[k] \o RangeSides[j] :
             i \in 1..Len(RangeSides), j \in 1..Len(RangeSides),
             k \in 1..Len(RangeSeparators) }

RangeInit ==
  /\ date_str \in RangeInputs
  /\ rpc = "call"
  /\ parsed = None
  /\ string = << >>
  /\ reparsed = None
  /\ DatesIdle
  /\ ConcIdle
  /\ PagesIdle
  /\ IndexIdle
  /\ InfoIdle
  /\ PoolIdle
  /\ SectionIdle

\* DateRange.from_parsed_string(date_str)
DateRangeFromParsedString ==
  /\ rpc = "call"
  /\ \E r \in {from_parsed_string(date_str)} :
       /\ parsed' = r
       /\ rpc' = IF r.kind = "value" THEN "constructed" ELSE "failed"
  /\ UNCHANGED <<date_str, string, reparsed, outsideRange>>

\* to_string() of the range that was constructed.
DateRangeToString ==
  /\ rpc = "constructed"
  /\ string' = to_string(parsed.v)
  /\ rpc' = "rendered"
  /\ UNCHANGED <<date_str, parsed, reparsed, outsideRange>>

\* DateRange.from_parsed_string of the string to_string gave.
DateRangeReparse ==
  /\ rpc = "rendered"
  /\ reparsed' = from_parsed_string(string)
  /\ rpc' = "reparsed"
  /\ UNCHANGED <<date_str, parsed, string, outsideRange>>

RangeNext == DateRangeFromParsedString \/ DateRangeToString \/ DateRangeReparse

RangeSpec == RangeInit /\ [][RangeNext]_rangeVars

(***************************************************************************)
(* Part 3: wiki_dump_extractor.ExtractorBase.  A dump is the sequence of   *)
(* the pages _iter_pages yields; a page is its number in the dump.         *)
(* iter_page_batches runs the generator iter_pages.  A generator stops at  *)
(* each yield and goes on only when its consumer asks for the next item,   *)
(* so the statements before a yield and those after it are separate steps: *)
(* bpc is "page_yielded" while iter_pages is suspended at its yield and    *)
(* iter_page_batches has the page, "batch_yielded" while both are          *)
(* suspended and the consumer has the batch, "page_resumed" when           *)
(* iter_pages is asked for the next page.                                  *)
(***************************************************************************)
\* "page_filter is None or page_filter(page)"
passes(f, page) == IF f = None THEN TRUE ELSE page \in f.v

\* A limit that is reached one page late.
limit_reached_late(count, limit) ==
  IF limit = None THEN FALSE ELSE count > limit.v

\* "page_limit is not None and page_count >= page_limit"
limit_reached(count, limit) ==
  IF limit = None THEN FALSE ELSE count >= limit.v

PagesInit ==
  /\ dump \in { [i \in 1..n |-> i] : n \in 0..MaxPages }
  /\ batch_size \in 1..MaxBatch
  /\ page_limit \in {None} \cup { Value(n) : n \in 0..MaxLimit }
  /\ page_filter \in {None} \cup { Value(S) : S \in SUBSET (1..Len(dump)) }
  /\ pos = 1
  /\ page_count = 0
  /\ yielded = << >>
  /\ batch = << >>
  /\ batches_returned = 0
  /\ batches = << >>
  /\ bpc = "iterating"
  /\ DatesIdle
  /\ ConcIdle
  /\ RangeIdle
  /\ IndexIdle
  /\ InfoIdle
  /\ PoolIdle
  /\ SectionIdle

\* iter_pages: the next page does not pass the filter.
IterPagesSkip ==
  /\ bpc = "iterating"
  /\ pos <= Len(dump)
  /\ ~passes(page_filter, dump[pos])
  /\ pos' = pos + 1
  /\ UNCHANGED <<dump, batch_size, page_limit, page_filter, page_count,
                 yielded, batch, batches_returned, batches, bpc, outsidePages>>

\* iter_pages: the next page passes the filter and is yielded.  iter_pages
\* is suspended at its yield, before it counts the page.
IterPagesYield ==
  /\ bpc = "iterating"
  /\ pos <= Len(dump)
  /\ passes(page_filter, dump[pos])
  /\ yielded' = Append(yielded, dump[pos])
  /\ pos' = pos + 1
  /\ bpc' = "page_yielded"
  /\ UNCHANGED <<dump, batch_size, page_limit, page_filter, page_count,
                 batch, batches_returned, batches, outsidePages>>

\* iter_page_batches, the body of its for loop up to its yield: the page
\* that iter_pages yielded is appended to the batch, and a full batch is
\* yielded.  iter_page_batches is then suspended at its yield, before it
\* counts the batch and starts a new one; with a batch that is not full it
\* asks iter_pages for the next page.
IterPageBatchesAppend ==
  /\ bpc = "page_yielded"
  /\ batch' = Append(batch, yielded[Len(yielded)])
  /\ IF Len(batch) + 1 >= batch_size
     THEN /\ batches' = Append(batches, Append(batch, yielded[Len(yielded)]))
          /\ bpc' = "batch_yielded"
     ELSE /\ bpc' = "page_resumed"
          /\ UNCHANGED batches
  /\ UNCHANGED <<dump, batch_size, page_limit, page_filter, pos, page_count,
                 yielded, batches_returned, outsidePages>>

\* iter_page_batches is resumed after the yield of a batch: it counts the
\* batch, starts a new one and asks iter_pages for the next page.
IterPageBatchesResume ==
  /\ bpc = "batch_yielded"
  /\ batches_returned' = batches_returned + 1
  /\ batch' = << >>
  /\ bpc' = "page_resumed"
  /\ UNCHANGED <<dump, batch_size, page_limit, page_filter, pos, page_count,
                 yielded, batches, outsidePages>>

\* iter_pages is resumed after the yield of a page: it counts the page and
\* breaks when the limit is reached.
IterPagesResume ==
  /\ bpc = "page_resumed"
  /\ page_count' = page_count + 1
  /\ bpc' = IF limit_reached(page_count + 1, page_limit)
            THEN "exhausted" ELSE "iterating"
  /\ UNCHANGED <<dump, batch_size, page_limit, page_filter, pos, yielded,
                 batch, batches_returned, batches, outsidePages>>

\* iter_pages: _iter_pages has no page left.
IterPagesEnd ==
  /\ bpc = "iterating"
  /\ pos > Len(dump)
  /\ bpc' = "exhausted"
  /\ UNCHANGED <<dump, batch_size, page_limit, page_filter, pos, page_count,
                 yielded, batch, batches_returned, batches, outsidePages>>

\* An iter_page_batches that returns after its for loop without yielding the
\* batch it is filling.
YieldLastBatch_dropped ==
  /\ bpc = "exhausted"
  /\ bpc' = "done"
  /\ UNCHANGED <<dump, batch_size, page_limit, page_filter, pos, page_count,
                 yielded, batch, batches_returned, batches, outsidePages>>

\* iter_page_batches after its for loop: "if batch: yield batch".
YieldLastBatch ==
  /\ bpc = "exhausted"
  /\ batches' = IF batch # << >> THEN Append(batches, batch) ELSE batches
  /\ bpc' = "done"
  /\ UNCHANGED <<dump, batch_size, page_limit, page_filter, pos, page_count,
                 yielded, batch, batches_returned, outsidePages>>

PagesNext ==
  \/ IterPagesSkip
  \/ IterPagesYield
  \/ IterPageBatchesAppend
  \/ IterPageBatchesResume
  \/ IterPagesResume
  \/ IterPagesEnd
  \/ YieldLastBatch

PagesSpec == PagesInit /\ [][PagesNext]_pagesVars

(***************************************************************************)
(* Part 4: the title index of WikiAvroDumpExtractor.  An Avro file is a    *)
(* header followed by blocks; a block is its records followed by a sync    *)
(* marker.  The fastavro reader reads a block whole when its first record  *)
(* is asked for, returns the records of the block from memory, and reads   *)
(* and checks the sync marker when the record after the last one of the    *)
(* block is asked for.  Positions count in units: block k starts at        *)
(* 2(k-1) and its sync marker at 2k-1; position 0 is the end of the header.*)
(***************************************************************************)
StoredTitles == {"A", "B"}
AskedTitles == StoredTitles \cup {"C"}

BlockStart(k) == 2 * (k - 1)
SyncMarker(k) == 2 * k - 1

\* The records of block k of the file f, as pages.
BlockRecords(f, k) ==
  [i \in 1..Len(f[k]) |-> [title |-> f[k][i], block |-> k, rec |-> i]]

\* fastavro.reader(f): the header is read, no block yet.
NewReader == [fpos |-> BlockStart(1), buffer |-> << >>, gen |-> "fresh"]

\* next(reader) in the state st: the new state and the record, or the
\* exception.  A seek moves fpos only: the records of the block in memory
\* are still returned first.
reader_next(f, st) ==
  IF st.gen = "finished"
  THEN [st |-> st, out |-> Raise("StopIteration", "")]
  ELSE IF st.buffer # << >>
  THEN [st |-> [st EXCEPT !.buffer = Tail(@)], out |-> Value(Head(st.buffer))]
  ELSE IF st.gen = "running" /\ ~\E k \in 1..Len(f) : st.fpos = SyncMarker(k)
  THEN [st |-> [st EXCEPT !.gen = "finished"],
        out |-> Raise("ValueError", "expected sync marker not found")]
  ELSE LET q == IF st.gen = "running" THEN st.fpos + 1 ELSE st.fpos
       IN  IF \E k \in 1..Len(f) : q = BlockStart(k)
           THEN LET k == CHOOSE k \in 1..Len(f) : q = BlockStart(k)
                IN  [st |-> [fpos |-> SyncMarker(k),
                             buffer |-> Tail(BlockRecords(f, k)),
                             gen |-> "running"],
                     out |-> Value(Head(BlockRecords(f, k)))]
           ELSE [st |-> [fpos |-> q, buffer |-> << >>, gen |-> "finished"],
                 out |-> Raise("StopIteration", "")]

\* db.put(key, value)
put(d, key, value) ==
  [k \in DOMAIN d \cup {key} |-> IF k = key THEN value ELSE d[k]]

\* The loop "for record in reader" of index_pages.
RECURSIVE index_loop(_, _, _, _, _)
index_loop(f, st, previous_idx, idx_to_log, d) ==
  LET r == reader_next(f, st)
  IN  IF r.out.kind = "raise" THEN d
      ELSE LET new_idx == r.st.fpos
               idx == IF new_idx # previous_idx THEN previous_idx
                      ELSE idx_to_log
           IN  index_loop(f, r.st, new_idx, idx, put(d, r.out.v.title, idx))

\* index_pages: the index of the file f.
index_pages(f) ==
  index_loop(f, NewReader, NewReader.fpos, NewReader.fpos, << >>)

\* "page = next(avro_reader)" and the loop "while page["title"] != title".
RECURSIVE scan(_, _, _)
scan(f, st, title) ==
  LET r == reader_next(f, st)
  IN  IF r.out.kind = "raise" THEN r
      ELSE IF r.out.v.title = title THEN r
      ELSE scan(f, r.st, title)

\* _get_page_using_index(title, db, avro_reader)
get_page_using_index(f, d, st, title) ==
  IF title \notin DOMAIN d
  THEN [st |-> st, out |-> Raise("ValueError", "not found in index")]
  ELSE scan(f, [st EXCEPT !.fpos = d[title]], title)

\* An exception raised in the body of the method m, as its caller gets it:
\* iter_pages_by_title is a generator, and a StopIteration raised in the body
\* of a generator is replaced by a RuntimeError.
raised_by(m, out) ==
  IF m = "iter_pages_by_title" /\ out.exc = "StopIteration"
  THEN Raise("RuntimeError", "generator raised StopIteration")
  ELSE out

\* A file of no block is a header with no record after it.
IndexInit ==
  /\ file \in UNION { [1..n -> UNION { [1..m -> StoredTitles] :
                                         m \in 1..MaxRecords }] :
                      n \in 0..MaxBlocks }
  /\ method \in {"get_page_by_title", "iter_pages_by_title"}
  /\ titles \in UNION { [1..n -> AskedTitles] : n \in 0..MaxTitles }
  /\ method = "get_page_by_title" => Len(titles) = 1
  /\ db = << >>
  /\ ti = 1
  /\ reader = None
  /\ returned = << >>
  /\ raised = None
  /\ xpc = "start"
  /\ DatesIdle
  /\ ConcIdle
  /\ RangeIdle
  /\ PagesIdle
  /\ InfoIdle
  /\ PoolIdle
  /\ SectionIdle

\* index_pages(index_dir)
IndexPages ==
  /\ xpc = "start"
  /\ db' = index_pages(file)
  /\ xpc' = "indexed"
  /\ UNCHANGED <<file, method, titles, ti, reader, returned, raised,
                 outsideIndex>>

\* "reader = fastavro.reader(f)" and "next(reader)" of get_page_by_title and
\* of iter_pages_by_title.
OpenReader ==
  /\ xpc = "indexed"
  /\ \E r \in {reader_next(file, NewReader)} :
       /\ reader' = r.st
       /\ IF r.out.kind = "raise"
          THEN raised' = raised_by(method, r.out) /\ xpc' = "raised"
          ELSE raised' = raised /\ xpc' = "reading"
  /\ UNCHANGED <<file, db, method, titles, ti, returned, outsideIndex>>

\* _get_page_using_index: the one call of get_page_by_title, one iteration
\* of "for title in titles" of iter_pages_by_title, which yields the page.
GetPageUsingIndex ==
  /\ xpc = "reading"
  /\ ti <= Len(titles)
  /\ \E r \in {get_page_using_index(file, db, reader, titles[ti])} :
       /\ reader' = r.st
       /\ IF r.out.kind = "raise"
          THEN /\ raised' = raised_by(method, r.out)
               /\ xpc' = "raised"
               /\ UNCHANGED <<returned, ti>>
          ELSE /\ returned' = Append(returned, r.out.v)
               /\ ti' = ti + 1
               /\ UNCHANGED <<raised, xpc>>
  /\ UNCHANGED <<file, db, method, titles, outsideIndex>>

\* get_page_by_title has returned its page; the loop over the titles of
\* iter_pages_by_title has ended.
IterPagesByTitleEnd ==
  /\ xpc = "reading"
  /\ ti > Len(titles)
  /\ xpc' = "done"
  /\ UNCHANGED <<file, db, method, titles, ti, reader, returned, raised,
                 outsideIndex>>

IndexNext ==
  IndexPages \/ OpenReader \/ GetPageUsingIndex \/ IterPagesByTitleEnd

IndexSpec == IndexInit /\ [][IndexNext]_indexVars

(***************************************************************************)
(* Part 5: page_utils.extract_infobox_category and page_utils.parse_infobox.*)
(* Positions are Python's: the first character of a text is at 0, and a     *)
(* span <<a, b>> holds the characters at a .. b - 1.  The patterns of       *)
(* page_utils.py are compiled without flags, so characters are compared as  *)
(* they are.                                                                *)
(***************************************************************************)
\* t[i:i + len(s)] == s
StartsAt(t, i, s) ==
  /\ i + Len(s) <= Len(t)
  /\ SubSeq(t, i + 1, i + Len(s)) = s

\* t[a:b], for 0 <= a <= b <= len(t)
Slice(t, a, b) == SubSeq(t, a + 1, b)

\* t.find(s)
find(t, s) ==
  IF \E i \in 0..Len(t) : StartsAt(t, i, s)
  THEN CHOOSE i \in 0..Len(t) :
         StartsAt(t, i, s) /\ \A j \in 0..(i - 1) : ~StartsAt(t, j, s)
  ELSE -1

\* The number of characters of t from position i on that are all in S (when
\* inside) or all outside S (when not): the characters a greedy S* or [^S]*
\* takes at i.
RunLength(t, i, S, inside) ==
  CHOOSE n \in 0..(Len(t) - i) :
    /\ \A k \in 1..n : (t[i + k] \in S) = inside
    /\ n = Len(t) - i \/ (t[i + n + 1] \in S) # inside

\* s.strip()
strip(s) ==
  LET lead == RunLength(s, 0, Whitespace, TRUE)
      kept == { n \in lead..Len(s) : n = lead \/ s[n] \notin Whitespace }
      last == CHOOSE n \in kept : \A m \in kept : m <= n
  IN  Slice(s, lead, last)

\* s.split(sep)[0]
split_first(s, sep) ==
  IF find(s, sep) = -1 THEN s ELSE Slice(s, 0, find(s, sep))

InfoboxOpening == Str("{{Infobox")

\* The span of group 1 when r"\{\{Infobox\s+([^\|\}]+)" matches at i, None
\* when it does not: \s+ takes the whole run of whitespace and the group the
\* run of characters other than | and } after it; when that run is empty,
\* \s+ gives one of two or more whitespace characters back to the group.
InfoboxMatchAt(t, i) ==
  IF ~StartsAt(t, i, InfoboxOpening) THEN None
  ELSE LET j == i + Len(InfoboxOpening)
           n == RunLength(t, j, Whitespace, TRUE)
           g == RunLength(t, j + n, Chars("|}"), FALSE)
       IN  IF n = 0 THEN None
           ELSE IF g > 0 THEN Value(<<j + n, j + n + g>>)
           ELSE IF n > 1 THEN Value(<<j + n - 1, j + n>>)
           ELSE None

\* re.search(r"\{\{Infobox\s+([^\|\}]+)", text): the span of group 1 of the
\* leftmost match, None when there is no match.
infobox_match(t) ==
  LET starts == { i \in 0..Len(t) : InfoboxMatchAt(t, i) # None }
  IN  IF starts = {} THEN None
      ELSE InfoboxMatchAt(t, CHOOSE i \in starts : \A j \in starts : i <= j)

\* The value of the local broad_category when extract_infobox_category(text)
\* ends, None when it was never assigned.
extract_infobox_category_local(t) ==
  LET m == infobox_match(t)
  IN  IF m = None THEN None
      ELSE LET group1 == Slice(t, m.v[1], m.v[2])
               lowered == LowerStr(strip(group1))
               line == split_first(lowered, Str("\n"))
               uncommented == split_first(line, Str("<!--"))
           IN  Value(strip(split_first(uncommented, Str("|"))))

\* An extract_infobox_category that ends with "return broad_category".
extract_infobox_category_returning(t) == extract_infobox_category_local(t)

\* extract_infobox_category(text): no branch of the function has a return
\* statement, so the call returns None.
extract_infobox_category(t) == None

RECURSIVE braces_loop(_, _, _)
\* The while loop of find_matching_braces at position i, its stack holding n
\* entries.
braces_loop(t, i, n) ==
  IF i >= Len(t) THEN -1
  ELSE IF StartsAt(t, i, Str("{{")) THEN braces_loop(t, i + 2, n + 1)
  ELSE IF StartsAt(t, i, Str("}}"))
       THEN IF n = 0 THEN i
            ELSE IF n - 1 = 0 THEN i + 2
            ELSE braces_loop(t, i + 2, n - 1)
  ELSE braces_loop(t, i + 1, n)

\* find_matching_braces(text, start_pos) of parse_infobox
find_matching_braces(t, start_pos) == braces_loop(t, start_pos, 0)

RECURSIVE remove_comments(_)
\* re.sub(r"<!--.*?-->", "", s), for an s without newline
remove_comments(s) ==
  LET a == find(s, Str("<!--"))
      rest == Slice(s, a + 4, Len(s))
      b == find(rest, Str("-->"))
  IN  IF a = -1 THEN s
      ELSE IF b = -1 THEN s
      ELSE Slice(s, 0, a) \o remove_comments(Slice(rest, b + 3, Len(rest)))

CategoryKey == Str("category")

RECURSIVE parse_fields(_, _, _)
\* The loop of parse_infobox over
\* re.finditer(r"\|\s*([a-z0-9_]+)\s*=(.*)(?=\n\||$)", t, re.MULTILINE), the
\* search being at position p and the dict being d.  A match starts at a "|"
\* and, "." not matching a newline and "$" matching before one, ends at the
\* end of the line of its "=".
parse_fields(t, p, d) ==
  IF p >= Len(t) THEN d
  ELSE IF t[p + 1] # Ord["|"] THEN parse_fields(t, p + 1, d)
  ELSE LET k == p + 1 + RunLength(t, p + 1, Whitespace, TRUE)
           n == RunLength(t, k,
                          LowerLetters \cup AsciiDigits \cup Chars("_"), TRUE)
           e == k + n + RunLength(t, k + n, Whitespace, TRUE)
           eol == e + 1 + RunLength(t, e + 1, Chars("\n"), FALSE)
           key == strip(Slice(t, k, k + n))
           value == remove_comments(strip(Slice(t, e + 1, eol)))
       IN  IF n = 0 \/ ~StartsAt(t, e, Str("="))
           THEN parse_fields(t, p + 1, d)
           ELSE parse_fields(t, eol, (key :> value) @@ d)

\* parse_infobox(page_text): what find_matching_braces returned and the
\* local infobox_text (None when the function returned before), and the dict
\* returned, a function from keys to values.
parse_infobox(t) ==
  LET infobox_start == find(t, InfoboxOpening)
      end == find_matching_braces(t, infobox_start)
      body == Slice(t, infobox_start + 9, end)
      n == RunLength(body, 0, Chars("|\n"), FALSE)
      category == remove_comments(
                    IF n > 0 THEN LowerStr(strip(Slice(body, 0, n)))
                    ELSE << >>)
  IN  IF infobox_start = -1
      THEN [infobox_end |-> None, infobox_text |-> None, returned |-> << >>]
      ELSE IF end = -1
      THEN [infobox_end |-> Value(end), infobox_text |-> None,
            returned |-> << >>]
      ELSE [infobox_end |-> Value(end), infobox_text |-> Value(body),
            returned |-> parse_fields(body, 0, CategoryKey :> category)]

\* The page texts: at most MaxInfoFrags of these fragments, one after the
\* other.
InfoFragments ==
  << Str("{{Infobox Ab"),
     Str("{{Infobox"),
     Str("{{infobox c"),
     Str("\n| k = v"),
     Str("\n|k={{c|1}}"),
     Str("}}"),
     Str("{{"),
     Str("<!--z-->"),
     Str(" x"),
     Str("|"),
     Str("  "),
     \* a no-break space, then E-acute t E-acute
     Str("{{Infobox") \o <<160, 201, 116, 201>> >>

InfoTexts ==
  LET RECURSIVE Joined(_, _)
      Joined(fs, k) ==
        IF k > Len(fs) THEN << >>
        ELSE InfoFragments[fs[k]] \o Joined(fs, k + 1)
  IN  { Joined(fs, 1) :
          fs \in UNION { [1..n -> 1..Len(InfoFragments)] :
                           n \in 0..MaxInfoFrags } }

InfoInit ==
  /\ page_text \in InfoTexts
  /\ broad_category = None
  /\ infobox_category = None
  /\ infobox_end = None
  /\ infobox_text = None
  /\ infobox = None
  /\ ipc = "start"
  /\ DatesIdle
  /\ ConcIdle
  /\ RangeIdle
  /\ PagesIdle
  /\ IndexIdle
  /\ PoolIdle
  /\ SectionIdle

\* extract_infobox_category(page_text)
ExtractInfoboxCategory ==
  /\ ipc = "start"
  /\ broad_category' = extract_infobox_category_local(page_text)
  /\ infobox_category' = extract_infobox_category(page_text)
  /\ ipc' = "categorised"
  /\ UNCHANGED <<page_text, infobox_end, infobox_text, infobox, outsideInfo>>

\* parse_infobox(page_text)
ParseInfobox ==
  /\ ipc = "categorised"
  /\ \E r \in { parse_infobox(page_text) } :
       /\ infobox_end' = r.infobox_end
       /\ infobox_text' = r.infobox_text
       /\ infobox' = Value(r.returned)
  /\ ipc' = "parsed"
  /\ UNCHANGED <<page_text, broad_category, infobox_category, outsideInfo>>

InfoNext == ExtractInfoboxCategory \/ ParseInfobox

InfoSpec == InfoInit /\ [][InfoNext]_infoVars

(***************************************************************************)
(* Part 6: ExtractorBase.process_page_batches_in_parallel.  The batches of *)
(* iter_page_batches are zipped with itertools.count() and given to        *)
(* pool.imap or pool.imap_unordered of a multiprocessing.Pool with a chunk *)
(* size of 1.  The pool feeds the tasks, in their order, to a queue.  A    *)
(* worker takes the task at the head of the queue, then calls process_fn   *)
(* on it, then puts the result on the queue of results and is free for the *)
(* next task; the workers run side by side, so that a worker may call      *)
(* process_fn on a later task before another calls it on an earlier one.   *)
(* The pool takes the results from their queue, oldest first, and hands    *)
(* each to the iterator.  The iterator of imap_unordered makes a result    *)
(* ready as it comes; the iterator of imap makes it ready when it is the   *)
(* next one in task order and keeps it aside otherwise.  The generator     *)
(* yields the ready results, oldest first, and ends when every task has    *)
(* its result yielded.                                                     *)
(***************************************************************************)
\* The batches of iter_page_batches(batch_size=2) over a dump of the pages
\* 1..n.
BatchesOf(n) ==
  [k \in 1..((n + 1) \div 2) |->
     IF 2 * k <= n THEN <<2 * k - 1, 2 * k>> ELSE <<2 * k - 1>>]

\* zip(batches, itertools.count()): the task of index i (0, 1, 2, ...).
batches_and_indices(bs, i) == <<bs[i + 1], i>>

\* What process_fn returns for the task x: the result of x.
process_fn(x) == [result_of |-> x]

\* An iterator of imap that makes every result ready as it comes.
IMapIterator_set_unsorted(ordered, bs, index, c, r, i) ==
  [ready |-> Append(r, process_fn(batches_and_indices(bs, i))), cache |-> c]

\* The iterator receives the result of the task i while index results were
\* made ready, the results set aside being those of the tasks in c and r
\* being the results ready: the results ready and the tasks set aside
\* afterwards.
IMapIterator_set(ordered, bs, index, c, r, i) ==
  IF ~ordered
  THEN [ready |-> Append(r, process_fn(batches_and_indices(bs, i))),
        cache |-> c]
  ELSE IF i # index THEN [ready |-> r, cache |-> c \cup {i}]
  ELSE LET stop == CHOOSE m \in (i + 1)..Len(bs) :
                     /\ m \notin c
                     /\ \A j \in (i + 1)..(m - 1) : j \in c
       IN  [ready |-> r \o [j \in 1..(stop - i) |->
                              process_fn(batches_and_indices(bs, i + j - 1))],
            cache |-> c \ (i..stop)]

PoolWorkers == 1..num_workers

PoolInit ==
  /\ pool_batches \in { BatchesOf(n) : n \in 0..MaxPoolPages }
  /\ ordered_results \in BOOLEAN
  /\ num_workers \in 1..MaxWorkers
  /\ taken = 0
  /\ working = [w \in 1..num_workers |-> None]
  /\ process_fn_calls = << >>
  /\ outqueue = << >>
  /\ cache = {}
  /\ ready = << >>
  /\ batch_results = << >>
  /\ qpc = "running"
  /\ DatesIdle
  /\ ConcIdle
  /\ RangeIdle
  /\ PagesIdle
  /\ IndexIdle
  /\ InfoIdle
  /\ SectionIdle

\* An idle worker takes the next task from the queue of tasks.
WorkerTakes(w) ==
  /\ qpc = "running"
  /\ working[w] = None
  /\ taken < Len(pool_batches)
  /\ working' = [working EXCEPT ![w] = [task |-> taken, called |-> FALSE]]
  /\ taken' = taken + 1
  /\ UNCHANGED <<pool_batches, ordered_results, num_workers,
                 process_fn_calls, outqueue, cache, ready, batch_results,
                 qpc, outsidePool>>

\* A worker calls process_fn on the task it took.
WorkerCalls(w) ==
  /\ qpc = "running"
  /\ working[w] # None
  /\ ~working[w].called
  /\ working' = [working EXCEPT ![w].called = TRUE]
  /\ process_fn_calls' =
       Append(process_fn_calls,
              batches_and_indices(pool_batches, working[w].task))
  /\ UNCHANGED <<pool_batches, ordered_results, num_workers, taken, outqueue,
                 cache, ready, batch_results, qpc, outsidePool>>

\* The call of process_fn of a worker returns: the worker puts the result
\* on the queue of results and is idle again.
WorkerReturns(w) ==
  /\ qpc = "running"
  /\ working[w] # None
  /\ working[w].called
  /\ outqueue' = Append(outqueue, working[w].task)
  /\ working' = [working EXCEPT ![w] = None]
  /\ UNCHANGED <<pool_batches, ordered_results, num_workers, taken,
                 process_fn_calls, cache, ready, batch_results, qpc,
                 outsidePool>>

\* The pool takes the oldest result from the queue of results and hands it
\* to the iterator.
HandleResults ==
  /\ qpc = "running"
  /\ outqueue # << >>
  /\ \E after \in { IMapIterator_set(ordered_results, pool_batches,
                                     Len(ready) + Len(batch_results),
                                     cache, ready, Head(outqueue)) } :
       /\ ready' = after.ready
       /\ cache' = after.cache
  /\ outqueue' = Tail(outqueue)
  /\ UNCHANGED <<pool_batches, ordered_results, num_workers, taken, working,
                 process_fn_calls, batch_results, qpc, outsidePool>>

\* "yield batch_result": the generator yields the oldest ready result.
YieldBatchResult ==
  /\ qpc = "running"
  /\ ready # << >>
  /\ batch_results' = Append(batch_results, Head(ready))
  /\ ready' = Tail(ready)
  /\ UNCHANGED <<pool_batches, ordered_results, num_workers, taken, working,
                 process_fn_calls, outqueue, cache, qpc, outsidePool>>

\* The iterator of the pool is exhausted: every task has its result yielded.
PoolExhausted ==
  /\ qpc = "running"
  /\ ready = << >>
  /\ Len(batch_results) = Len(pool_batches)
  /\ qpc' = "done"
  /\ UNCHANGED <<pool_batches, ordered_results, num_workers, taken, working,
                 process_fn_calls, outqueue, cache, ready, batch_results,
                 outsidePool>>

PoolTake == \E w \in PoolWorkers : WorkerTakes(w)

PoolCall == \E w \in PoolWorkers : WorkerCalls(w)

PoolReturn == \E w \in PoolWorkers : WorkerReturns(w)

PoolNext ==
  \/ PoolTake
  \/ PoolCall
  \/ PoolReturn
  \/ HandleResults
  \/ YieldBatchResult
  \/ PoolExhausted

PoolSpec == PoolInit /\ [][PoolNext]_poolVars

(***************************************************************************)
(* Part 7: page_utils.Section.from_page_section_texts.  A section is named *)
(* by the index in texts of the text it was made from; 0 names the         *)
(* synthetic section Section(level=0, title="Root", text="").              *)
(***************************************************************************)
\* Section.from_single_section_text(section_text).  The pattern
\* r"^(=+)\s*(.*?)\s*\1$" matches a header that starts and ends with "=":
\* group 1 is the longest run of "=" at the start of the header that is also
\* at its end without overlapping itself, group 2 what is between the two
\* runs without the whitespace around it.
from_single_section_text(t) ==
  LET nl == find(t, Str("\n"))
      header == Slice(t, 0, nl)
      lead == RunLength(header, 0, Chars("="), TRUE)
      trail == CHOOSE n \in 0..Len(header) :
                 /\ \A k \in 1..n : header[Len(header) + 1 - k] = Ord["="]
                 /\ n = Len(header) \/ header[Len(header) - n] # Ord["="]
      level == IF lead = Len(header) THEN Len(header) \div 2
               ELSE IF lead < trail THEN lead ELSE trail
  IN  IF nl = -1 \/ level = 0
      THEN [level |-> 0, title |-> None, text |-> t]
      ELSE [level |-> level,
            title |-> Value(strip(Slice(header, level, Len(header) - level))),
            text |-> Slice(t, nl + 1, Len(t))]

\* The section texts of the inputs.
SectionTexts ==
  { Str("intro"),
    Str("= A =\nx"),
    Str("== B ==\ny"),
    Str("=== C ===\nz"),
    Str("== D =\nw"),
    Str("E ==\nv") }

\* The level of the section i of the call.
LevelOf(i) ==
  IF i = 0 THEN 0 ELSE from_single_section_text(section_texts[i]).level

\* A loop that pops the sections of a higher level only.
popped_higher_only(stk, level) ==
  LET lower == { k \in 1..Len(stk) : LevelOf(stk[k]) <= level }
  IN  IF lower = {} THEN << >>
      ELSE SubSeq(stk, 1, CHOOSE k \in lower : \A j \in lower : j <= k)

\* "while stack and stack[-1].level >= current_section.level: stack.pop()":
\* the stack when the loop ends.
popped(stk, level) ==
  LET lower == { k \in 1..Len(stk) : LevelOf(stk[k]) < level }
  IN  IF lower = {} THEN << >>
      ELSE SubSeq(stk, 1, CHOOSE k \in lower : \A j \in lower : j <= k)

SectionInit ==
  /\ section_texts \in UNION { [1..n -> SectionTexts] : n \in 0..MaxSections }
  /\ si = 1
  /\ stack = << >>
  /\ roots = << >>
  /\ parent = [i \in 1..Len(section_texts) |-> None]
  /\ children = [i \in 0..Len(section_texts) |-> << >>]
  /\ returned_section = None
  /\ spc = "looping"
  /\ DatesIdle
  /\ ConcIdle
  /\ RangeIdle
  /\ PagesIdle
  /\ IndexIdle
  /\ InfoIdle
  /\ PoolIdle

\* One iteration of "for text in texts".
FromPageSectionTextsLoop ==
  /\ spc = "looping"
  /\ si <= Len(section_texts)
  /\ \E rest \in { popped(stack, LevelOf(si)) } :
       /\ IF rest = << >>
          THEN /\ roots' = Append(roots, si)
               /\ UNCHANGED <<children, parent>>
          ELSE /\ children' =
                    [children EXCEPT ![rest[Len(rest)]] = Append(@, si)]
               /\ parent' = [parent EXCEPT ![si] = Value(rest[Len(rest)])]
               /\ UNCHANGED roots
       /\ stack' = Append(rest, si)
  /\ si' = si + 1
  /\ UNCHANGED <<section_texts, returned_section, spc, outsideSection>>

\* The end of from_page_section_texts, after the loop.
FromPageSectionTextsReturn ==
  /\ spc = "looping"
  /\ si > Len(section_texts)
  /\ IF Len(roots) = 1
     THEN /\ returned_section' = Value(roots[1])
          /\ UNCHANGED <<children, parent>>
     ELSE /\ returned_section' = Value(0)
          /\ children' = [children EXCEPT ![0] = roots]
          /\ parent' = [i \in 1..Len(section_texts) |->
                          IF \E k \in 1..Len(roots) : roots[k] = i
                          THEN Value(0) ELSE parent[i]]
  /\ spc' = "returned"
  /\ UNCHANGED <<section_texts, si, stack, roots, outsideSection>>

SectionNext == FromPageSectionTextsLoop \/ FromPageSectionTextsReturn

SectionSpec == SectionInit /\ [][SectionNext]_sectionVars

(***************************************************************************)
(* Properties of extract_dates.                                            *)
(***************************************************************************)
IsList(x) == DOMAIN x = 1..Len(x)

\* C1: extract_dates never raises: no exception leaves the call, whatever
\* the text, and what it returns is a pair of two lists; a match that cannot
\* be converted ends in the error list, not in an exception.
C1_NeverRaises ==
  /\ pc # "raised"
  /\ exception = ""
  /\ pc = "returned" => IsList(all_results) /\ IsList(all_errors)

\* A call has returned and a match that could not be converted is in the
\* error list.
C1_Witness == pc = "returned" /\ Len(all_errors) > 0

\* The indices of the entries of list that the format class cls made from
\* the match that starts at s.
EntriesOf(list, cls, s) ==
  { i \in 1..Len(list) : list[i].format = name(cls) /\ list[i].start = s }

\* C2: every match of every matcher leaves exactly one record: an entry of
\* the result list or an entry of the error list; no match is dropped.
C2_EveryMatchRecorded ==
  pc = "returned" =>
    \A k \in 1..Len(DATE_FORMATS) :
      LET ms == finditer(DATE_FORMATS[k], text)
      IN  \A j \in 1..Len(ms) :
            Cardinality(EntriesOf(all_results, DATE_FORMATS[k], ms[j].s))
              + Cardinality(EntriesOf(all_errors, DATE_FORMATS[k], ms[j].s)) = 1

\* The place of a format name in the registration order.
RegIndex(fmt) ==
  CHOOSE k \in 1..Len(DATE_FORMATS) : name(DATE_FORMATS[k]) = fmt

\* The entries of list are grouped by format in registration order, and the
\* entries of one format are in increasing text position.
InRegistrationOrder(list) ==
  \A i, j \in 1..Len(list) :
    i < j =>
      \/ RegIndex(list[i].format) < RegIndex(list[j].format)
      \/ /\ list[i].format = list[j].format
         /\ list[i].start < list[j].start

\* C3: the result list and the error list are ordered by matcher
\* registration order and, within one matcher, by text position; the text
\* position of the matches of different matchers plays no part.
C3_RegistrationOrder ==
  InRegistrationOrder(all_results) /\ InRegistrationOrder(all_errors)

\* A call has returned a list in which an entry of an earlier matcher comes
\* first although its match is later in the text, and a list with two
\* entries of one matcher.
C3_Witness ==
  /\ pc = "returned"
  /\ \E i, j \in 1..Len(all_results) :
       /\ i < j
       /\ all_results[i].format # all_results[j].format
       /\ all_results[i].start > all_results[j].start
  /\ \E i, j \in 1..Len(all_results) :
       /\ i < j
       /\ all_results[i].format = all_results[j].format

\* The matches of the format classes from the k-th on that convert to a
\* date, each with its class.
RECURSIVE ConvertedMatches(_, _)
ConvertedMatches(t, k) ==
  IF k > Len(DATE_FORMATS) THEN << >>
  ELSE LET cls == DATE_FORMATS[k]
           ms == finditer(cls, t)
       IN  SelectSeq([j \in 1..Len(ms) |-> [cls |-> cls, m |-> ms[j]]],
                     LAMBDA x : match_to_datetime(cls, t, x.m).kind = "value")
           \o ConvertedMatches(t, k + 1)

\* The matches a and b cover a common character of the text.
SpansOverlap(a, b) == a.s < b.e /\ b.s < a.e

\* C4: no deduplication across matchers: when matches of two different
\* matchers overlap and both convert to a date, both are in the result list.
C4_NoCrossMatcherDedup ==
  pc = "returned" =>
    LET cs == ConvertedMatches(text, 1)
    IN  \A i, j \in 1..Len(cs) :
          (cs[i].cls # cs[j].cls /\ SpansOverlap(cs[i].m, cs[j].m))
          => /\ EntriesOf(all_results, cs[i].cls, cs[i].m.s) # {}
             /\ EntriesOf(all_results, cs[j].cls, cs[j].m.s) # {}

\* A call has returned two entries of different matchers whose spans overlap.
C4_Witness ==
  /\ pc = "returned"
  /\ \E i, j \in 1..Len(all_results) :
       /\ all_results[i].format # all_results[j].format
       /\ Overlap(all_results[i], all_results[j])

\* C5: a numeric date a/b/Y matched by the slash format gives the date
\* (Y, month a, day b) when that is a calendar date, also when (Y, month b,
\* day a) is one too; otherwise (Y, month b, day a) when that is a calendar
\* date; otherwise no date.
C5_MonthFirstThenDayFirst ==
  pc = "returned" =>
    LET ms == finditer("SlashDMYMDYFormat", text)
    IN  \A j \in 1..Len(ms) :
          LET parts == Split(Group0(text, ms[j]))
              a == ToInt(parts[1])
              b == ToInt(parts[2])
              Y == ToInt(parts[3])
              found == EntriesOf(all_results, "SlashDMYMDYFormat", ms[j].s)
          IN  IF ValidDate(Y, a, b)
              THEN /\ Cardinality(found) = 1
                   /\ \A i \in found :
                        all_results[i].datetime = [year |-> Y, month |-> a, day |-> b]
              ELSE IF ValidDate(Y, b, a)
              THEN /\ Cardinality(found) = 1
                   /\ \A i \in found :
                        all_results[i].datetime = [year |-> Y, month |-> b, day |-> a]
              ELSE found = {}

\* A call has returned for a text with a slash date that is a calendar date
\* in both orders, and with one that is a calendar date day first only.
C5_Witness ==
  /\ pc = "returned"
  /\ \E i, j \in 1..Len(all_results) :
       /\ all_results[i].format = "SLASH_DMY_MDY"
       /\ all_results[j].format = "SLASH_DMY_MDY"
       /\ LET pi == Split(all_results[i].date_str)
              pj == Split(all_results[j].date_str)
          IN  /\ ToInt(pi[1]) # ToInt(pi[2])
              /\ ValidDate(ToInt(pi[3]), ToInt(pi[1]), ToInt(pi[2]))
              /\ ValidDate(ToInt(pi[3]), ToInt(pi[2]), ToInt(pi[1]))
              /\ all_results[i].datetime.month = ToInt(pi[1])
              /\ ~ValidDate(ToInt(pj[3]), ToInt(pj[1]), ToInt(pj[2]))
              /\ all_results[j].datetime.month = ToInt(pj[2])

\* The text goes on with the era marker " BC" after the span of the entry x.
FollowedByBC(t, x) ==
  LET q == x.start + Len(x.date_str)
  IN  LitAt(Str(" BC"), t, q) /\ ~IsWordChar(At(t, q + 3))

\* The number written by the digits that end the string s.
YearToken(s) ==
  LET n == CHOOSE n \in 0..Len(s) :
             /\ \A i \in (Len(s) - n + 1)..Len(s) : IsDigit(s[i])
             /\ n = Len(s) \/ ~IsDigit(s[Len(s) - n])
  IN  SubSeq(s, Len(s) - n + 1, Len(s))

\* C6: a day-month-year or month-day-year date followed by BC is returned
\* with the negative year of the same magnitude, never with the positive
\* year.
C6_BCYearIsNegative ==
  \A i \in 1..Len(all_results) :
    ( /\ all_results[i].format \in {"DAY_MONTH_YEAR", "MONTH_DAY_YEAR"}
      /\ FollowedByBC(text, all_results[i]) )
    => all_results[i].datetime.year = 0 - ToInt(YearToken(all_results[i].date_str))

\* "{{<name>|YYYY|MM|DD": a template whose name is made of letters and
\* spaces, followed by three numeric fields.
DateTemplate ==
  Cat(<< Lit(Str("{{")), Many(SetOf(LowerLetters \cup Chars(" ")), 0), Chr("|"),
         Group(1, Rep(Digit, 4, 4)), Chr("|"), Group(2, Rep(Digit, 1, 2)),
         Chr("|"), Group(3, Rep(Digit, 1, 2)) >>)

\* C7: every date template of the text, also one of several on a line,
\* gives an entry whose year, month and day are the first three numeric
\* fields after the name of that template.
C7_EveryTemplateExtracted ==
  pc = "returned" =>
    LET ts == FindAll(DateTemplate, text)
    IN  \A j \in 1..Len(ts) :
          LET y == ToInt(GroupN(text, ts[j], 1))
              mo == ToInt(GroupN(text, ts[j], 2))
              d == ToInt(GroupN(text, ts[j], 3))
          IN  ValidDate(y, mo, d) =>
                \E i \in 1..Len(all_results) :
                  /\ all_results[i].format = "WIKI_BIRTH_DATE"
                  /\ all_results[i].datetime = [year |-> y, month |-> mo, day |-> d]

\* "<MonthName> <year>" with a year of 2 to 4 digits.
MonthYearSpelling ==
  Cat(<< WordBoundary, Group(1, Months), Many(Space, 1),
         Group(2, Rep(Digit, 2, 4)), WordBoundary >>)

\* C8: the MONTH_YEAR matcher recognizes every "<MonthName> <year>" with a
\* year of 2 to 4 digits and gives the first day of that month and year.
C8_MonthYearRecognized ==
  pc = "returned" =>
    LET ms == FindAll(MonthYearSpelling, text)
    IN  \A j \in 1..Len(ms) :
          LET y == ToInt(GroupN(text, ms[j], 2))
              mo == convert_month_to_number(GroupN(text, ms[j], 1)).v
          IN  ValidDate(y, mo, 1) =>
                \E i \in EntriesOf(all_results, "MonthYearFormat", ms[j].s) :
                  all_results[i].datetime = [year |-> y, month |-> mo, day |-> 1]

\* The words of the table _WRITTEN_NUMBERS.
OrdinalWords == [i \in 1..Len(WRITTEN_NUMBERS) |-> WRITTEN_NUMBERS[i][1]]

\* "<MonthName> the <day>, <year>" with the day in digits or as a word of
\* the table.
WrittenSpelling ==
  Cat(<< WordBoundary, Group(1, Months), Many(Space, 1),
         Lit(Str("the")), Many(Space, 1),
         Alt(<< Cat(<< Group(2, Rep(Digit, 1, 2)), OrdinalSuffix >>),
                Group(3, AnyOf(OrdinalWords)) >>),
         Many(CommaOrSpace, 1), Group(4, Rep(Digit, 2, 4)), WordBoundary >>)

\* C9: the WRITTEN_DATE matcher recognizes "<MonthName> the <day>, <year>"
\* with the day in digits or as any word of the table, the hyphenated ones
\* included, and gives the day the table gives; a day word that is not in
\* the table gives a parse error and no date.
C9_WrittenDayRecognized ==
  pc = "returned" =>
    /\ LET ws == FindAll(WrittenSpelling, text)
       IN  \A j \in 1..Len(ws) :
             LET y == ToInt(GroupN(text, ws[j], 4))
                 mo == convert_month_to_number(GroupN(text, ws[j], 1)).v
                 d == IF GroupIsNone(ws[j], 2)
                      THEN Lookup(WRITTEN_NUMBERS, LowerStr(GroupN(text, ws[j], 3)))
                      ELSE ToInt(GroupN(text, ws[j], 2))
             IN  ValidDate(y, mo, d) =>
                   \E i \in EntriesOf(all_results, "WrittenDateFormat", ws[j].s) :
                     all_results[i].datetime = [year |-> y, month |-> mo, day |-> d]
    /\ LET ms == finditer("WrittenDateFormat", text)
       IN  \A j \in 1..Len(ms) :
             ( /\ ~GroupIsNone(ms[j], 3)
               /\ ~HasKey(WRITTEN_NUMBERS, LowerStr(GroupN(text, ms[j], 3))) )
             => /\ EntriesOf(all_errors, "WrittenDateFormat", ms[j].s) # {}
                /\ EntriesOf(all_results, "WrittenDateFormat", ms[j].s) = {}

\* The formats whose pattern takes a year of two digits.
ShortYearFormats == {"DAY_MONTH_YEAR", "MONTH_DAY_YEAR", "WRITTEN_DATE"}

\* C10: a year written with two digits is kept as it is: the year of the
\* date is the number the two digits write, with no century added.
C10_TwoDigitYearKept ==
  \A i \in 1..Len(all_results) :
    ( /\ all_results[i].format \in ShortYearFormats
      /\ Len(YearToken(all_results[i].date_str)) = 2 )
    => all_results[i].datetime.year = ToInt(YearToken(all_results[i].date_str))

\* A call has returned, for each of the three formats, a date whose year
\* was written with two digits.
C10_Witness ==
  /\ pc = "returned"
  /\ \A f \in ShortYearFormats :
       \E i \in 1..Len(all_results) :
         /\ all_results[i].format = f
         /\ Len(YearToken(all_results[i].date_str)) = 2
         /\ all_results[i].datetime.year < 100

\* "D{1,2}[/-]D{1,2}[/-]D{2,4}": a numeric date with a year of two to four
\* digits; the third group is the year.
SlashNumericShape ==
  Cat(<< WordBoundary, Group(1, Rep(Digit, 1, 2)), Separator,
         Group(2, Rep(Digit, 1, 2)), Separator, Group(3, Rep(Digit, 2, 4)),
         WordBoundary, NotFollowedBy(Separator) >>)

\* The match m of one pattern has the span of a match of the list ms.
SameSpanIn(m, ms) == \E j \in 1..Len(ms) : ms[j].s = m.s /\ ms[j].e = m.e

\* C11 as stated: the slash matcher recognizes every numeric date
\* D{1,2}[/-]D{1,2}[/-]D{2,4}, with a year of two, three or four digits.
C11_ShortYearMatched ==
  pc = "returned" =>
    LET shape == FindAll(SlashNumericShape, text)
        found == finditer("SlashDMYMDYFormat", text)
    IN  \A j \in 1..Len(shape) : SameSpanIn(shape[j], found)

\* C11: the slash matcher recognizes the numeric dates
\* D{1,2}[/-]D{1,2}[/-]D{4} only: of the dates written with a year of two
\* to four digits it matches exactly those whose year has four digits, and
\* it matches nothing else.
C11_FourDigitYearOnly ==
  pc = "returned" =>
    LET shape == FindAll(SlashNumericShape, text)
        found == finditer("SlashDMYMDYFormat", text)
    IN  /\ \A j \in 1..Len(shape) :
             SameSpanIn(shape[j], found)
               <=> Len(GroupN(text, shape[j], 3)) = 4
        /\ \A j \in 1..Len(found) : SameSpanIn(found[j], shape)

\* A call has returned for a text with a numeric date whose year has two
\* digits, which the slash matcher leaves out, and one whose year has four
\* digits, which it matches.
C11_Witness ==
  /\ pc = "returned"
  /\ LET shape == FindAll(SlashNumericShape, text)
         found == finditer("SlashDMYMDYFormat", text)
     IN  /\ \E j \in 1..Len(shape) :
              /\ Len(GroupN(text, shape[j], 3)) = 2
              /\ ~SameSpanIn(shape[j], found)
         /\ \E j \in 1..Len(shape) :
              /\ Len(GroupN(text, shape[j], 3)) = 4
              /\ SameSpanIn(shape[j], found)

\* C12: calls of extract_dates that run at the same time leave the registry
\* of formats as it was, and each call that returns gives what a call with
\* the same text gives when it runs alone: it has that value at the step at
\* which it ends, and no step of another call changes it afterwards.
C12_InterleavedCallsAsAlone ==
  /\ [](registry = DATE_FORMATS)
  /\ [][\A c \in DOMAIN calls :
          /\ calls[c].pc # "loop" => calls'[c] = calls[c]
          /\ (calls[c].pc = "loop" /\ calls'[c].pc # "loop") =>
               LET alone == extract_dates(calls[c].text)
               IN  /\ calls'[c].text = calls[c].text
                   /\ calls'[c].exception = alone.raised
                   /\ calls'[c].all_results = alone.all_results
                   /\ calls'[c].all_errors = alone.all_errors]_concVars

\* Every concurrent call has returned; two of them had different texts, one
\* returned a date and the other a parse error.
C12_Witness ==
  /\ \A c \in DOMAIN calls : calls[c].pc = "returned"
  /\ \E c, d \in DOMAIN calls :
       /\ calls[c].text # calls[d].text
       /\ Len(calls[c].all_results) > 0
       /\ Len(calls[d].all_errors) > 0

(***************************************************************************)
(* Properties of the date range model.                                     *)
(***************************************************************************)
\* The literals of test_parse_string_to_date_range: argument and to_string.
TestLiterals ==
  { << Str("1810"),
       Str("~1810/01/01 - ~1810/12/31") >>,
    << Str("1810-1812"),
       Str("~1810/01/01 - ~1812/12/31") >>,
    << Str("1810/1812"),
       Str("~1810/01/01 - ~1812/12/31") >>,
    << Str("1810/03/05"),
       Str("1810/03/05 - 1810/03/05") >>,
    << Str("1810/03"),
       Str("~1810/03/01 - ~1810/03/31") >>,
    << Str("1810/03 - 1812/05"),
       Str("~1810/03/01 - ~1812/05/31") >>,
    << Str("1810/03/05 - 1812/05/07"),
       Str("1810/03/05 - 1812/05/07") >>,
    << Str("1611/1612 - 1615/1617"),
       Str("~1611/01/01 - ~1617/12/31") >>,
    << Str("1930s - 1940s"),
       Str("~1930/01/01 - ~1949/12/31") >>,
    << Str("1930s"),
       Str("~1930/01/01 - ~1939/12/31") >>,
    << Str("55 BC"),
       Str("~-55/01/01 - ~-55/12/31") >>,
    << Str("55 BC - 52 BC"),
       Str("~-55/01/01 - ~-52/12/31") >>,
    << Str("55 BC/03"),
       Str("~-55/03/01 - ~-55/03/31") >> }

\* The model gives the string of the test for every argument of the test.
RangeAgreesWithTests ==
  /\ \A l \in TestLiterals :
       /\ l[1] \in RangeInputs
       /\ from_parsed_string(l[1]).kind = "value"
       /\ to_string(from_parsed_string(l[1]).v) = l[2]
  /\ \A l \in TestLiterals :
       (date_str = l[1] /\ rpc \in {"rendered", "reparsed"}) => string = l[2]

\* A range with both boundaries approximate.
Widened(y1, m1, d1, y2, m2, d2) ==
  Value([start |-> CalendarDate(y1, m1, d1), end |-> CalendarDate(y2, m2, d2),
         start_approximate |-> TRUE, end_approximate |-> TRUE])

\* C13: from_parsed_string widens an argument of low precision to full
\* boundaries marked approximate: a year "Y" gives Y/01/01 to Y/12/31, and
\* a decade "Ys" gives Y/01/01 to (Y+9)/12/31, both boundaries approximate.
C13_LowPrecisionWidened ==
  rpc # "call" =>
    LET yo == FullMatch(Many(Digit, 1), date_str)
        dec == FullMatch(Cat(<< Group(1, Cat(<< Many(Digit, 0), Chr("0") >>)),
                                Chr("s") >>), date_str)
    IN  /\ Len(yo) > 0 =>
             parsed = Widened(ToInt(date_str), 1, 1, ToInt(date_str), 12, 31)
        /\ Len(dec) > 0 =>
             LET y == ToInt(GroupN(date_str, dec[1], 1))
             IN  parsed = Widened(y, 1, 1, y + 9, 12, 31)

\* The decade "1930s" was given and rendered: 1930/01/01 to 1939/12/31,
\* both approximate.
C13_Witness ==
  /\ rpc = "rendered"
  /\ date_str = Str("1930s")
  /\ parsed.v.start = CalendarDate(1930, 1, 1)
  /\ parsed.v.end = CalendarDate(1939, 12, 31)
  /\ parsed.v.start_approximate /\ parsed.v.end_approximate
  /\ string = Str("~1930/01/01 - ~1939/12/31")

\* C14: every range that is constructed has its start not after its end,
\* years before the era being ordered as negative numbers ("55 BC - 52 BC"
\* is the range from -55 to -52); an argument "l - r" whose left side
\* starts after the end of its right side fails with InvertedRangeError and
\* an argument in order gives the start of l and the end of r, never the
\* boundaries swapped.
C14_StartNotAfterEnd ==
  rpc # "call" =>
    /\ parsed.kind = "value" => ~IsAfter(parsed.v.start, parsed.v.end)
    /\ reparsed.kind = "value" => ~IsAfter(reparsed.v.start, reparsed.v.end)
    /\ date_str = Str("55 BC - 52 BC") =>
         /\ parsed.kind = "value"
         /\ parsed.v.start.year = 0 - 55
         /\ parsed.v.end.year = 0 - 52
    /\ \A i, j \in 1..Len(RangeSides), k \in 1..Len(RangeSeparators) :
         ( /\ date_str = RangeSides[i] \o RangeSeparators[k] \o RangeSides[j]
           /\ HasEra(RangeSides[i]) = HasEra(RangeSides[j]) )
         => LET a == from_parsed_string(RangeSides[i])
                b == from_parsed_string(RangeSides[j])
            IN  (a.kind = "value" /\ b.kind = "value") =>
                  IF IsAfter(a.v.start, b.v.end)
                  THEN parsed.kind = "raise" /\ parsed.exc = "InvertedRangeError"
                  ELSE /\ parsed.kind = "value"
                       /\ parsed.v.start = a.v.start
                       /\ parsed.v.end = b.v.end

\* The argument "52 BC - 55 BC", whose start is after its end, was given and
\* the construction failed with InvertedRangeError.
C14_Witness ==
  /\ rpc = "failed"
  /\ date_str = Str("52 BC - 55 BC")
  /\ parsed.kind = "raise"
  /\ parsed.exc = "InvertedRangeError"

DayPrecision(side) ==
  Len(FullMatch(YearMonthDaySpelling, StripEra(side, 1))) > 0

\* C16: in a range parsed from two sub-expressions each side keeps its own
\* approximate flag: the start is exact when the left side has day
\* precision and approximate when it has less, the end likewise for the
\* right side, whatever the precision of the other side.
C16_FlagsPerSide ==
  rpc # "call" =>
    \A i, j \in 1..Len(RangeSides), k \in 1..Len(RangeSeparators) :
      ( /\ date_str = RangeSides[i] \o RangeSeparators[k] \o RangeSides[j]
        /\ parsed.kind = "value" )
      => /\ parsed.v.start_approximate = ~DayPrecision(RangeSides[i])
         /\ parsed.v.end_approximate = ~DayPrecision(RangeSides[j])

\* A range was parsed from an exact day on the left and a sub-expression of
\* lower precision on the right: the start is exact, the end approximate.
C16_Witness ==
  /\ rpc = "constructed"
  /\ FirstSeparator(date_str) > 0
  /\ ~parsed.v.start_approximate
  /\ parsed.v.end_approximate

(***************************************************************************)
(* Properties of iter_pages and iter_page_batches.                         *)
(***************************************************************************)
\* The number of pages in the batches bs.
RECURSIVE TotalPages(_)
TotalPages(bs) ==
  IF bs = << >> THEN 0 ELSE Len(Head(bs)) + TotalPages(Tail(bs))

\* C17: the limit of iter_page_batches counts batches: with batch size b and
\* limit L >= 1 over a dump of at least b*L pages, and no filter, exactly L
\* batches of b pages each are produced.
C17_LimitCountsBatches ==
  ( /\ bpc = "done"
    /\ page_filter = None
    /\ page_limit # None
    /\ page_limit.v >= 1
    /\ Len(dump) >= batch_size * page_limit.v )
  => /\ Len(batches) = page_limit.v
     /\ \A i \in 1..Len(batches) : Len(batches[i]) = batch_size

\* C18: page_limit is the maximum number of pages returned: for every
\* page_limit >= 0 and every filter, iter_pages yields at most page_limit
\* pages and the batches of iter_page_batches hold at most page_limit pages
\* in total.
C18_AtMostPageLimit ==
  page_limit # None =>
    /\ Len(yielded) <= page_limit.v
    /\ TotalPages(batches) <= page_limit.v

\* The pages of the dump that pass the filter, in dump order.
Passing == SelectSeq(dump, LAMBDA page : passes(page_filter, page))

\* The first n entries of the sequence q, all of them when it has fewer.
FirstN(q, n) == SubSeq(q, 1, IF n < Len(q) THEN n ELSE Len(q))

\* C19: iter_pages with page_limit = n >= 1 yields, in dump order, exactly
\* the first n pages that pass the filter, all of them when there are fewer;
\* with page_limit = None it yields every page that passes; a page that does
\* not pass is never yielded and does not count.
C19_FirstPassingPages ==
  /\ \A i \in 1..Len(yielded) : passes(page_filter, yielded[i])
  /\ bpc \in {"exhausted", "done"} =>
       /\ page_limit = None => yielded = Passing
       /\ (page_limit # None /\ page_limit.v >= 1) =>
            yielded = FirstN(Passing, page_limit.v)

\* An iteration with a limit has ended after it skipped a page that does not
\* pass the filter, yielded as many pages as the limit, and left a passing
\* page of the dump unread.
C19_Witness ==
  /\ bpc = "done"
  /\ page_limit # None
  /\ page_limit.v >= 2
  /\ Len(yielded) = page_limit.v
  /\ Len(Passing) > page_limit.v
  /\ \E i \in 1..Len(dump) :
       ~passes(page_filter, dump[i]) /\ i < yielded[Len(yielded)]

(***************************************************************************)
(* Properties of the title index.                                          *)
(***************************************************************************)
\* The titles of the records of the file.
TitlesOf(f) ==
  UNION { { f[k][i] : i \in 1..Len(f[k]) } : k \in 1..Len(f) }

\* C20: after index_pages, every lookup of a title stored in the file
\* returns a page with that title, for the titles of iter_pages_by_title in
\* whatever order and for the single title of get_page_by_title; a lookup
\* raises only for a title that the file does not hold, and then ValueError.
C20_LookupByTitle ==
  /\ \A i \in 1..Len(returned) : returned[i].title = titles[i]
  /\ xpc = "raised" =>
       /\ ti \in 1..Len(titles)
       /\ titles[ti] \notin TitlesOf(file)
       /\ raised.exc = "ValueError"

RECURSIVE Chained(_)
\* The batches bs put one after the other.
Chained(bs) ==
  IF bs = << >> THEN << >> ELSE Head(bs) \o Chained(Tail(bs))

\* C22: for batch_size >= 1, iter_page_batches yields only non-empty
\* batches, every batch but the last has exactly batch_size pages, the last
\* has between 1 and batch_size pages, and the batches put one after the
\* other in the order yielded are exactly the sequence that iter_pages yields
\* for the same page_limit and page_filter.
C22_BatchesPartitionPages ==
  /\ \A i \in 1..Len(batches) :
       /\ Len(batches[i]) \in 1..batch_size
       /\ (i < Len(batches) \/ bpc # "done") => Len(batches[i]) = batch_size
  /\ bpc \in {"batch_yielded", "done"} => Chained(batches) = yielded
  /\ bpc = "page_yielded" =>
       Chained(batches) \o batch = SubSeq(yielded, 1, Len(yielded) - 1)
  /\ bpc \in {"iterating", "page_resumed", "exhausted"} =>
       Chained(batches) \o batch = yielded

\* iter_page_batches has ended after two batches or more, the last of which
\* is not full, over a filter that rejected a page.
C22_Witness ==
  /\ bpc = "done"
  /\ Len(batches) >= 2
  /\ Len(batches[Len(batches)]) < batch_size
  /\ Len(yielded) < Len(dump)
  /\ page_filter # None

(***************************************************************************)
(* Properties of the infobox functions.                                    *)
(***************************************************************************)
\* C21: extract_infobox_category(text) returns the broad category of the
\* infobox (the lower-cased, stripped name after "{{Infobox", cut at the
\* first newline, HTML comment or "|") whenever the text contains an
\* infobox, and returns None only when the text contains none.
C21_CategoryReturned ==
  ipc # "start" =>
    /\ infobox_match(page_text) # None =>
         /\ infobox_category # None
         /\ infobox_category = broad_category
    /\ infobox_match(page_text) = None => infobox_category = None

RECURSIVE ClosingBraces(_, _, _)
\* The position of the "}}" that closes the "{{" at position i of t, when n
\* pairs of braces are open at i: the "{{" and "}}" of t are read from left
\* to right; -1 when no "}}" closes it.
ClosingBraces(t, i, n) ==
  IF i >= Len(t) THEN -1
  ELSE IF StartsAt(t, i, Str("{{")) THEN ClosingBraces(t, i + 2, n + 1)
  ELSE IF StartsAt(t, i, Str("}}"))
       THEN IF n <= 1 THEN i ELSE ClosingBraces(t, i + 2, n - 1)
  ELSE ClosingBraces(t, i + 1, n)

\* C25: in parse_infobox, find_matching_braces started at the "{{" that opens
\* the infobox returns the position of the "}}" that closes that "{{", the
\* pairs nested inside being skipped, and -1 when nothing closes it;
\* parse_infobox returns an empty dict when the text has no "{{Infobox" or
\* when its braces are never closed, and the infobox text it parses holds
\* nothing beyond the closing braces.
C25_MatchingBraces ==
  ipc = "parsed" =>
    LET start == find(page_text, InfoboxOpening)
        closing == ClosingBraces(page_text, start, 0)
    IN  /\ start = -1 => infobox_end = None /\ infobox.v = << >>
        /\ start # -1 =>
             /\ infobox_end = Value(closing)
             /\ closing = -1 => infobox.v = << >>
             /\ closing # -1 =>
                  /\ infobox_text # None
                  /\ start + 9 + Len(infobox_text.v) <= closing + 2
                  /\ StartsAt(page_text, start + 9, infobox_text.v)

(***************************************************************************)
(* Properties of process_page_batches_in_parallel.                         *)
(***************************************************************************)
\* The tasks of the call: every batch with its index.
PoolTasks ==
  { batches_and_indices(pool_batches, i) : i \in 0..(Len(pool_batches) - 1) }

\* C23: process_page_batches_in_parallel hands each batch to process_fn
\* exactly once, paired with its index (0, 1, 2, ... in batch order), and
\* yields exactly one result per batch under every interleaving of the
\* workers: no result is yielded twice, the call is never stuck before its
\* end, and at its end every batch was handed over and has its result
\* yielded; with ordered_results the results are yielded in batch order.
C23_OneResultPerBatch ==
  /\ \A k \in 1..Len(process_fn_calls) :
       /\ process_fn_calls[k] \in PoolTasks
       /\ \A m \in 1..Len(process_fn_calls) :
            process_fn_calls[k] = process_fn_calls[m] => k = m
  /\ \A j \in 1..Len(batch_results) :
       /\ batch_results[j] \in { process_fn(x) : x \in PoolTasks }
       /\ \A k \in 1..Len(batch_results) :
            batch_results[j] = batch_results[k] => j = k
       /\ ordered_results =>
            batch_results[j] =
              process_fn(batches_and_indices(pool_batches, j - 1))
  /\ qpc = "running" => ENABLED PoolNext
  /\ qpc = "done" =>
       /\ { process_fn_calls[k] : k \in 1..Len(process_fn_calls) } = PoolTasks
       /\ Len(batch_results) = Len(pool_batches)

\* A call without ordered_results has ended, with two workers and three
\* batches, after process_fn was called on a later batch first and the
\* result of a later batch was yielded first.
C23_Witness ==
  /\ qpc = "done"
  /\ ~ordered_results
  /\ num_workers >= 2
  /\ Len(pool_batches) >= 3
  /\ process_fn_calls[1] # batches_and_indices(pool_batches, 0)
  /\ batch_results[1] # process_fn(batches_and_indices(pool_batches, 0))

(***************************************************************************)
(* Properties of Section.from_page_section_texts.                          *)
(***************************************************************************)
\* The nearest section before i whose level is strictly lower than the level
\* of i, 0 when there is none.
NearestLower(i) ==
  LET lower == { j \in 1..(i - 1) : LevelOf(j) < LevelOf(i) }
  IN  IF lower = {} THEN 0 ELSE CHOOSE j \in lower : \A k \in lower : k <= j

\* The sections without a preceding section of a lower level, in input
\* order.
RootSections ==
  SelectSeq([i \in 1..(si - 1) |-> i], LAMBDA i : NearestLower(i) = 0)

\* The tree built so far: the parent of a section is the nearest preceding
\* section of a strictly lower level, a section without one is a root, and
\* the children of a section are in input order; at the return a single
\* root is returned itself, otherwise the synthetic Root is returned, it
\* holds all the roots in input order and is their parent.
TreeOfSections ==
  /\ roots = RootSections
  /\ \A i \in 1..(si - 1) :
       parent[i] = IF NearestLower(i) # 0 THEN Value(NearestLower(i))
                   ELSE IF spc = "returned" /\ Len(roots) # 1 THEN Value(0)
                   ELSE None
  /\ \A j \in 0..Len(section_texts) :
       children[j] = SelectSeq([i \in 1..Len(section_texts) |-> i],
                               LAMBDA i : parent[i] = Value(j))
  /\ spc = "returned" =>
       /\ si = Len(section_texts) + 1
       /\ returned_section = IF Len(roots) = 1 THEN Value(roots[1])
                             ELSE Value(0)

\* C24 as stated: the tree has the shape above and every section that has a
\* parent, the synthetic Root included, has a level strictly greater than
\* the level of its parent.
C24_LevelAboveParent ==
  /\ TreeOfSections
  /\ \A i \in 1..Len(section_texts) :
       parent[i] # None => LevelOf(i) > LevelOf(parent[i].v)

\* C24 amended: the tree has the shape above and every section whose parent
\* is a section of the input has a level strictly greater than the level of
\* its parent; under the synthetic Root, of level 0, a root has a level of 0
\* or more.
C24_LevelAboveInputParent ==
  /\ TreeOfSections
  /\ \A i \in 1..Len(section_texts) :
       parent[i] # None =>
         IF parent[i].v # 0 THEN LevelOf(i) > LevelOf(parent[i].v)
         ELSE LevelOf(i) >= LevelOf(0)

\* A tree was returned with the synthetic Root over two roots or more, one
\* of them of level 0, and with a section two levels below a root.
C24_Witness ==
  /\ spc = "returned"
  /\ returned_section = Value(0)
  /\ Len(children[0]) >= 2
  /\ \E i \in 1..Len(section_texts) : parent[i] = Value(0) /\ LevelOf(i) = 0
  /\ \E i \in 1..Len(section_texts) :
       /\ parent[i] # None
       /\ parent[i].v # 0
       /\ parent[parent[i].v] # None
       /\ parent[parent[i].v].v # 0

====
